---------------------------- MODULE AccessProofs ----------------------------
(***************************************************************************)
(* What holds of Access for all sets of hosts, keys, certificates and PINs, *)
(* any number of requests at a time, and any mix of them.                   *)
(***************************************************************************)
EXTENDS Access, FiniteSetTheorems, TLAPS

Validating == {"Setup", "NewGateway", "TrustCert"}
Protected  == {"NewPin", "NewGateway", "TrustCert"}

\* The types the argument needs: not the login guard's.
Types ==
  /\ gateway \in Gateway \union {None}
  /\ pin \in Pins \union {None}
  /\ secret \in Nat /\ asked \in Nat
  /\ task \in [Handlers -> Task]
  /\ cookies \subseteq Cookie
  /\ presented \in [Hosts -> Certs]
  /\ answered \in [Parts -> SUBSET Nat]

\* What a request has in its locals at each place.
Locals(t) ==
  /\ t.kind \in Validating /\ t.pc # "idle" => t.host \in Hosts /\ t.key \in Keys
  /\ t.pc \in {"fetch", "version", "site"} => t.kind \in Validating
  /\ t.pc \in {"version", "site"} => t.cert \in Certs
  /\ t.pc = "save" => t.kind \in Validating \union {"NewPin"}
  /\ t.pc \in {"check", "fail", "reset", "issue"} => t.given \in Pins
  /\ t.pc = "check" => t.kind \in {"Login", "NewPin"}
  /\ t.kind \in {"Setup", "NewPin"} => t.wanted \in Pins
  /\ t.kind = "Setup" => t.given = t.wanted

\* A request about to save a gateway has had it vouched for.
SaveVouched(t) ==
  t.pc = "save" /\ t.kind \in Validating
    => t.cert \in Certs /\ <<t.host, t.key, t.cert>> \in vouched

\* A request about to sign a session knows the PIN, or was crossed.
SignerKnows(t) == t.pc \in {"reset", "issue"} => t.given = pin \/ t.crossed

\* Protected requests run only once there is a gateway.
Reached(t) == t.kind \in Protected => gateway # None

TasksOK ==
  \A h \in Handlers :
    Locals(task[h]) /\ SaveVouched(task[h]) /\ SignerKnows(task[h]) /\ Reached(task[h])

\* Cookies are signed with the stored secret or an earlier one.
CookiesOK ==
  \A c \in cookies :
    /\ c.secret <= secret
    /\ c.secret = secret => c.pin = pin \/ c.crossed

SecretOK == secret > 0 => gateway # None

AccessInv == Types /\ TasksOK /\ PinnedTogether /\ CookiesOK /\ SecretOK

\* A request with nothing in its locals that the invariant has to vouch for.
TaskOK(t) == Locals(t) /\ SaveVouched(t) /\ SignerKnows(t) /\ Reached(t)

-----------------------------------------------------------------------------

\* An idle slot needs nothing.
LEMMA IdleOK == Idle \in Task /\ TaskOK(Idle)
BY DEF Idle, Task, Parts, Kinds, Places, TaskOK, Locals, SaveVouched, SignerKnows,
       Reached, Validating, Protected

\* The server begins with an empty store or one set up before.
LEMMA InitAccess == Init => AccessInv
<1> SUFFICES ASSUME Init PROVE AccessInv
  OBVIOUS
<1>1. TasksOK /\ task \in [Handlers -> Task] /\ answered \in [Parts -> SUBSET Nat]
  BY IdleOK DEF Init, TasksOK, TaskOK
<1>2. CASE ~mix.configured
  BY <1>1, <1>2 DEF Init, AccessInv, Types, PinnedTogether, CookiesOK, SecretOK
<1>3. CASE mix.configured
  <2>1. PICK host \in Hosts, key \in Keys, p \in Pins :
          /\ gateway = [host |-> host, key |-> key, cert |-> presented[host],
                        of |-> 0, by |-> 0, crossed |-> FALSE]
          /\ pin = p
          /\ cookies = {[secret |-> 1, pin |-> p, crossed |-> FALSE]}
          /\ vouched = {<<host, key, presented[host]>>}
    BY <1>3 DEF Init
  <2>2. secret = 1 /\ asked = 0 /\ presented \in [Hosts -> Certs]
    BY <1>3 DEF Init
  <2>3. gateway \in Gateway /\ cookies \subseteq Cookie
    BY <2>1, <2>2 DEF Gateway, Cookie, Secrets
  <2>4. PinnedTogether
    BY <2>1 DEF PinnedTogether
  <2>5. CookiesOK
    BY <2>1, <2>2 DEF CookiesOK
  <2>6. SecretOK
    BY <2>3, NoneAssumption DEF SecretOK
  <2> QED
    BY <1>1, <2>1, <2>2, <2>3, <2>4, <2>5, <2>6 DEF AccessInv, Types
<1> QED
  BY <1>2, <1>3

\* A step that leaves the store and the cookies alone and gives one request
\* new locals keeps the invariant if those are in order.
LEMMA OneTask ==
  ASSUME AccessInv, NEW h \in Handlers, NEW t \in Task, TaskOK(t),
         task' = [task EXCEPT ![h] = t],
         UNCHANGED <<store, cookies, presented, vouched>>,
         asked' \in Nat, answered' \in [Parts -> SUBSET Nat]
  PROVE  AccessInv'
<1> USE DEF AccessInv, store
<1>1. Types' /\ PinnedTogether' /\ CookiesOK' /\ SecretOK'
  BY DEF Types, PinnedTogether, CookiesOK, SecretOK
<1>2. TasksOK'
  <2> SUFFICES ASSUME NEW g \in Handlers PROVE TaskOK(task[g])'
    BY DEF TasksOK, TaskOK
  <2>1. task'[g] = t \/ task'[g] = task[g]
    BY DEF Types
  <2>2. TaskOK(task[g])
    BY DEF TasksOK, TaskOK
  <2> QED
    BY <2>1, <2>2 DEF TaskOK, Locals, SaveVouched, SignerKnows, Reached
<1> QED
  BY <1>1, <1>2

\* What is known of a request before its step.
LEMMA BeforeStep ==
  ASSUME AccessInv, NEW h \in Handlers
  PROVE  task[h] \in Task /\ TaskOK(task[h])
BY DEF AccessInv, Types, TasksOK, TaskOK

\* The heads of the handlers fill in the locals.
LEMMA HeadsAccess ==
  ASSUME AccessInv, NEW h \in Handlers,
         Setup(h) \/ Login(h) \/ NewPin(h) \/ NewGateway(h) \/ TrustCert(h)
  PROVE  AccessInv'
<1> USE DEF AccessInv, Types
<1>1. Authorized => gateway # None
  BY DEF Authorized, ValidSession, SecretOK
<1>2. ASSUME NEW kind \in Kinds, NEW pc \in Places, NEW l \in Task, Change(h, kind, pc, l),
             TaskOK([l EXCEPT !.kind = kind, !.pc = pc, !.id = asked + 1, !.after = answered]),
             UNCHANGED <<store, world, ghosts>>
      PROVE  AccessInv'
  <2> DEFINE t == [l EXCEPT !.kind = kind, !.pc = pc, !.id = asked + 1, !.after = answered]
  <2>1. asked + 1 \in Nat /\ answered \in [Parts -> SUBSET Nat]
    OBVIOUS
  <2>2. t \in Task
    BY ONLY <2>1, kind \in Kinds, pc \in Places, l \in Task DEF Task
  <2>3. TaskOK(t) /\ task' = [task EXCEPT ![h] = t] /\ asked' = asked + 1
    BY <1>2 DEF Change
  <2>4. UNCHANGED <<store, cookies, presented, vouched, answered>>
    BY <1>2 DEF world, ghosts
  <2> HIDE DEF t
  <2> QED
    BY ONLY <2>1, <2>2, <2>3, <2>4, OneTask, AccessInv, h \in Handlers
<1>3. ASSUME Setup(h) PROVE AccessInv'
  <2>1. PICK host \in Hosts, key \in Keys, p \in Pins :
          Change(h, "Setup", "fetch",
            [Idle EXCEPT !.host = host, !.key = key, !.given = p, !.wanted = p])
    BY <1>3 DEF Setup
  <2> DEFINE l == [Idle EXCEPT !.host = host, !.key = key, !.given = p, !.wanted = p]
  <2>2. l \in Task
    BY IdleOK DEF Task
  <2>3. TaskOK([l EXCEPT !.kind = "Setup", !.pc = "fetch", !.id = asked + 1, !.after = answered])
    BY DEF Idle, TaskOK, Locals, SaveVouched, SignerKnows, Reached, Validating, Protected
  <2>4. "Setup" \in Kinds /\ "fetch" \in Places /\ UNCHANGED <<store, world, ghosts>>
    BY <1>3 DEF Setup, Kinds, Places
  <2> QED
    BY ONLY <2>1, <2>2, <2>3, <2>4, <1>2
<1>4. ASSUME Login(h) PROVE AccessInv'
  <2>1. PICK p \in Pins :
          task' = [task EXCEPT ![h] =
                     [Idle EXCEPT !.kind = "Login", !.pc = "check", !.given = p]]
    BY <1>4 DEF Login
  <2> DEFINE t == [Idle EXCEPT !.kind = "Login", !.pc = "check", !.given = p]
  <2>2. t \in Task
    BY IdleOK DEF Task, Kinds, Places
  <2>3. TaskOK(t)
    BY DEF Idle, TaskOK, Locals, SaveVouched, SignerKnows, Reached, Validating, Protected
  <2> QED
    BY <1>4, <2>1, <2>2, <2>3, OneTask DEF Login, world, ghosts
<1>5. ASSUME NewPin(h) PROVE AccessInv'
  <2>1. PICK p \in Pins, q \in Pins :
          Change(h, "NewPin", "check", [Idle EXCEPT !.given = p, !.wanted = q])
    BY <1>5 DEF NewPin
  <2> DEFINE l == [Idle EXCEPT !.given = p, !.wanted = q]
  <2>2. l \in Task
    BY IdleOK DEF Task
  <2>3. TaskOK([l EXCEPT !.kind = "NewPin", !.pc = "check", !.id = asked + 1, !.after = answered])
    BY <1>1, <1>5 DEF NewPin, Idle, TaskOK, Locals, SaveVouched, SignerKnows, Reached,
                      Validating, Protected
  <2>4. "NewPin" \in Kinds /\ "check" \in Places /\ UNCHANGED <<store, world, ghosts>>
    BY <1>5 DEF NewPin, Kinds, Places
  <2> QED
    BY ONLY <2>1, <2>2, <2>3, <2>4, <1>2
<1>6. ASSUME NewGateway(h) PROVE AccessInv'
  <2>1. PICK host \in Hosts, key \in Keys :
          Change(h, "NewGateway", "fetch", [Idle EXCEPT !.host = host, !.key = key])
    BY <1>6 DEF NewGateway
  <2> DEFINE l == [Idle EXCEPT !.host = host, !.key = key]
  <2>2. l \in Task
    BY IdleOK DEF Task
  <2>3. TaskOK([l EXCEPT !.kind = "NewGateway", !.pc = "fetch", !.id = asked + 1,
                         !.after = answered])
    BY <1>1, <1>6 DEF NewGateway, Idle, TaskOK, Locals, SaveVouched, SignerKnows, Reached,
                      Validating, Protected
  <2>4. "NewGateway" \in Kinds /\ "fetch" \in Places /\ UNCHANGED <<store, world, ghosts>>
    BY <1>6 DEF NewGateway, Kinds, Places
  <2> QED
    BY ONLY <2>1, <2>2, <2>3, <2>4, <1>2
<1>7. ASSUME TrustCert(h) PROVE AccessInv'
  <2> DEFINE l == [Idle EXCEPT !.host = gateway.host, !.key = gateway.key,
                               !.of = gateway.of, !.crossed = gateway.crossed]
  <2>1. Change(h, "TrustCert", "fetch", l) /\ gateway \in Gateway
    BY <1>1, <1>7 DEF TrustCert
  <2>2. l \in Task
    BY <2>1, IdleOK DEF Task, Gateway
  <2>3. TaskOK([l EXCEPT !.kind = "TrustCert", !.pc = "fetch", !.id = asked + 1,
                         !.after = answered])
    BY <2>1, NoneAssumption DEF Gateway, Idle, TaskOK, Locals, SaveVouched, SignerKnows,
                      Reached, Validating, Protected
  <2>4. "TrustCert" \in Kinds /\ "fetch" \in Places /\ UNCHANGED <<store, world, ghosts>>
    BY <1>7 DEF TrustCert, Kinds, Places
  <2> QED
    BY ONLY <2>1, <2>2, <2>3, <2>4, <1>2
<1> QED
  BY <1>3, <1>4, <1>5, <1>6, <1>7

\* Between its head and its save a request changes nothing but its locals; the
\* second call to the gateway is what vouches for them.
LEMMA CallsAccess ==
  ASSUME AccessInv, NEW h \in Handlers,
         \/ Fetch(h) \/ Version(h) \/ FirstSite(h) \/ Error(h)
         \/ CheckPin(h) \/ CountFailure(h) \/ Reset(h)
  PROVE  AccessInv'
<1> USE DEF At, Goto, Finish, world, ghosts, store
<1>1. task[h] \in Task /\ TaskOK(task[h])
  BY BeforeStep
<1>2. asked \in Nat /\ answered \in [Parts -> SUBSET Nat] /\ task \in [Handlers -> Task]
  BY DEF AccessInv, Types
<1>3. ASSUME NEW pc \in Places, Goto(h, pc), TaskOK([task[h] EXCEPT !.pc = pc]),
             UNCHANGED <<store, cookies, presented, vouched, asked, answered>>
      PROVE  AccessInv'
  <2>1. [task[h] EXCEPT !.pc = pc] \in Task
    BY <1>1 DEF Task
  <2>2. task' = [task EXCEPT ![h] = [task[h] EXCEPT !.pc = pc]]
    BY <1>2, <1>3
  <2> QED
    BY <1>2, <1>3, <2>1, <2>2, OneTask
<1>4. ASSUME Finish(h), UNCHANGED <<store, cookies, presented, vouched, asked, answered>>
      PROVE  AccessInv'
  BY <1>2, <1>4, IdleOK, OneTask
<1>5. CASE Fetch(h)
  <2> DEFINE t == [task[h] EXCEPT !.cert = presented[task[h].host], !.pc = "version"]
  <2>1. presented[task[h].host] \in Certs
    BY <1>1, <1>5 DEF Fetch, TaskOK, Locals, Validating, AccessInv, Types
  <2>2. t \in Task
    BY <1>1, <2>1 DEF Task, Places
  <2>3. TaskOK(t)
    BY <1>1, <1>5, <2>1 DEF Fetch, TaskOK, Locals, SaveVouched, SignerKnows, Reached, Task
  <2>4. task' = [task EXCEPT ![h] = t]
    BY <1>2, <1>5 DEF Fetch
  <2>5. UNCHANGED <<store, cookies, presented, vouched, asked, answered>>
    BY <1>5 DEF Fetch
  <2> HIDE DEF t
  <2> QED
    BY <1>2, <2>2, <2>3, <2>4, <2>5, OneTask
<1>6. CASE Version(h)
  <2>1. TaskOK([task[h] EXCEPT !.pc = "site"])
    BY <1>1, <1>6 DEF Version, TaskOK, Locals, SaveVouched, SignerKnows, Reached, Task
  <2> QED
    BY <1>3, <1>6, <2>1 DEF Version, Places
<1>7. CASE FirstSite(h)
  <2> DEFINE t == [task[h] EXCEPT !.pc = "save"]
  <2>1. t \in Task /\ task' = [task EXCEPT ![h] = t]
    BY <1>1, <1>2, <1>7 DEF FirstSite, Task, Places
  <2>2. Locals(t) /\ SignerKnows(t) /\ Reached(t)
    BY <1>1, <1>7 DEF FirstSite, TaskOK, Locals, SignerKnows, Reached, Task
  <2>3. <<t.host, t.key, t.cert>> \in vouched' /\ t.cert \in Certs
    BY <1>1, <1>7 DEF FirstSite, Pinned, TaskOK, Locals, Task
  <2>4. vouched \subseteq vouched' /\ UNCHANGED <<gateway, pin, secret, cookies, presented, asked, answered>>
    BY <1>7 DEF FirstSite
  <2>5. TasksOK'
    <3> SUFFICES ASSUME NEW g \in Handlers PROVE TaskOK(task[g])'
      BY DEF TasksOK, TaskOK
    <3>1. CASE g = h
      <4>1. task'[g] = t
        BY <1>2, <2>1, <3>1
      <4> HIDE DEF t
      <4> QED
        BY <4>1, <2>2, <2>3, <2>4 DEF TaskOK, Locals, SaveVouched, SignerKnows, Reached
    <3>2. CASE g # h
      <4>1. task'[g] = task[g] /\ TaskOK(task[g])
        BY <1>2, <2>1, <3>2, BeforeStep
      <4> QED
        BY <4>1, <2>4 DEF TaskOK, Locals, SaveVouched, SignerKnows, Reached
    <3> QED
      BY <3>1, <3>2
  <2> HIDE DEF t
  <2>6. Types' /\ PinnedTogether' /\ CookiesOK' /\ SecretOK'
    BY <1>2, <2>1, <2>4 DEF AccessInv, Types, PinnedTogether, CookiesOK, SecretOK
  <2> QED
    BY <2>5, <2>6 DEF AccessInv
<1>8. CASE Error(h)
  BY <1>4, <1>8 DEF Error
<1>9. CASE CheckPin(h)
  <2>1. CASE Finish(h)
    BY <1>4, <1>9, <2>1 DEF CheckPin
  <2>2. ASSUME NEW pc \in Places, Goto(h, pc), pc \in {"reset", "save", "fail"},
               pc = "reset" => task[h].given = pin, pc = "save" => task[h].kind = "NewPin"
        PROVE  AccessInv'
    <3>1. TaskOK([task[h] EXCEPT !.pc = pc])
      BY <1>1, <1>9, <2>2 DEF CheckPin, TaskOK, Locals, SaveVouched, SignerKnows, Reached,
                         Task, Validating
    <3> QED
      BY <1>3, <1>9, <2>2, <3>1 DEF CheckPin
  <2> QED
    BY <1>9, <2>1, <2>2 DEF CheckPin, Places
<1>10. CASE CountFailure(h)
  BY <1>4, <1>10 DEF CountFailure
<1>11. CASE Reset(h)
  <2>1. TaskOK([task[h] EXCEPT !.pc = "issue"])
    BY <1>1, <1>11 DEF Reset, TaskOK, Locals, SaveVouched, SignerKnows, Reached, Task
  <2> QED
    BY <1>3, <1>11, <2>1 DEF Reset, Places
<1> QED
  BY <1>5, <1>6, <1>7, <1>8, <1>9, <1>10, <1>11

\* An update of the store by one request leaves the locals of the others in
\* order: who gave the PIN it replaces is marked as crossed.
LEMMA OthersOfAnUpdate ==
  ASSUME AccessInv, NEW h \in Handlers, NEW parts, NEW next, Stored(h, parts, next),
         UNCHANGED vouched, gateway' # None, pin' = pin \/ "pin" \in parts,
         next \in Task, TaskOK(next)'
  PROVE  task' \in [Handlers -> Task] /\ TasksOK'
<1> SUFFICES ASSUME NEW g \in Handlers PROVE task'[g] \in Task /\ TaskOK(task[g])'
  BY DEF Stored, TasksOK, TaskOK
<1>1. CASE g = h
  <2>1. task'[g] = next
    BY <1>1 DEF Stored
  <2> QED
    BY <2>1 DEF TaskOK, Locals, SaveVouched, SignerKnows, Reached
<1>2. CASE g # h
  <2>1. task[g] \in Task /\ TaskOK(task[g])
    BY BeforeStep
  <2>2. PICK crossed \in BOOLEAN : crossed = (task[g].crossed \/ g \in CrossedBy(h, parts))
    OBVIOUS
  <2>3. task[g].pc \in {"reset", "issue"} /\ pin' # pin => crossed
    BY <1>2, <2>2 DEF CrossedBy
  <2>4. PICK t : t = [task[g] EXCEPT !.crossed = crossed]
    OBVIOUS
  <2>5. task'[g] = t
    BY <1>2, <2>1, <2>2, <2>4 DEF Stored, Task
  <2>6. t \in Task
    BY <2>1, <2>4 DEF Task
  <2>7. Locals(t) /\ SaveVouched(t)' /\ Reached(t)'
    BY <2>1, <2>4 DEF TaskOK, Locals, SaveVouched, Reached, Task
  <2>8. SignerKnows(t)'
    BY <2>1, <2>2, <2>3, <2>4 DEF TaskOK, SignerKnows, Task
  <2> QED
    BY <2>5, <2>6, <2>7, <2>8 DEF TaskOK, Locals, SaveVouched, SignerKnows, Reached
<1> QED
  BY <1>1, <1>2

\* What is written is what was vouched for, and a new PIN comes with a new
\* secret, older than which every cookie is.
LEMMA SavesAccess ==
  ASSUME AccessInv, NEW h \in Handlers, SaveSetup(h) \/ SaveGateway(h) \/ SavePin(h)
  PROVE  AccessInv'
<1> USE DEF At, world, ghosts
<1> DEFINE t == task[h]
<1>1. t \in Task /\ TaskOK(t)
  BY BeforeStep
<1>2. /\ secret \in Nat /\ asked \in Nat /\ answered \in [Parts -> SUBSET Nat]
      /\ gateway \in Gateway \union {None} /\ pin \in Pins \union {None}
      /\ cookies \subseteq Cookie /\ presented \in [Hosts -> Certs]
      /\ PinnedTogether /\ CookiesOK /\ SecretOK
  BY DEF AccessInv, Types
<1>3. ASSUME t.kind \in Validating, t.pc = "save", gateway' = Setting(t), UNCHANGED vouched
      PROVE  gateway' \in Gateway /\ gateway' # None /\ PinnedTogether'
  <2>1. t.host \in Hosts /\ t.key \in Keys /\ t.cert \in Certs
        /\ <<t.host, t.key, t.cert>> \in vouched
    BY <1>1, <1>3 DEF TaskOK, Locals, SaveVouched
  <2>2. Setting(t) \in Gateway
    BY <1>1, <2>1 DEF Setting, NewSetting, Gateway, Task
  <2>3. Setting(t).host = t.host /\ Setting(t).key = t.key /\ Setting(t).cert = t.cert
    BY DEF Setting, NewSetting
  <2> QED
    BY <1>3, <2>1, <2>2, <2>3, NoneAssumption DEF PinnedTogether
<1>4. ASSUME secret' = NewSecret, UNCHANGED cookies PROVE secret' \in Nat /\ CookiesOK'
  BY <1>2, <1>4 DEF NewSecret, CookiesOK, Cookie, Secrets
<1>5. CASE SaveSetup(h)
  <2>0. PICK next : next = [t EXCEPT !.pc = "issue"]
    OBVIOUS
  <2>1. /\ t.pc = "save" /\ t.kind = "Setup" /\ gateway' = Setting(t) /\ pin' = t.wanted
        /\ secret' = NewSecret /\ Stored(h, Parts, next) /\ "pin" \in Parts
        /\ UNCHANGED <<vouched, cookies, presented, asked, answered>>
    BY <1>5, <2>0 DEF SaveSetup, Parts
  <2>2. t.given = pin' /\ pin' \in Pins
    BY <1>1, <2>1 DEF TaskOK, Locals
  <2>3. gateway' \in Gateway /\ gateway' # None /\ PinnedTogether'
    BY <1>3, <2>1 DEF Validating
  <2>4. next \in Task
    BY <1>1, <2>0 DEF Task, Places
  <2>5. TaskOK(next)'
    BY <1>1, <2>0, <2>1, <2>2, <2>3 DEF TaskOK, Locals, SaveVouched, SignerKnows, Reached, Task,
                                  Protected, Validating
  <2>6. task' \in [Handlers -> Task] /\ TasksOK'
    BY <2>1, <2>3, <2>4, <2>5, OthersOfAnUpdate
  <2> QED
    BY <1>2, <1>4, <2>1, <2>2, <2>3, <2>6 DEF AccessInv, Types, SecretOK
<1>6. CASE SaveGateway(h)
  <2>1. /\ t.pc = "save" /\ t.kind \in Validating /\ gateway' = Setting(t)
        /\ Stored(h, Changes(t.kind), Idle)
        /\ UNCHANGED <<vouched, cookies, presented, asked, pin, secret>>
    BY <1>6 DEF SaveGateway, Validating
  <2>2. answered' \in [Parts -> SUBSET Nat]
    BY <1>1, <1>2, <1>6 DEF SaveGateway, Answered, Task
  <2>3. gateway' \in Gateway /\ gateway' # None /\ PinnedTogether'
    BY <1>3, <2>1
  <2>4. Idle \in Task /\ TaskOK(Idle)'
    BY IdleOK DEF Idle, TaskOK, Locals, SaveVouched, SignerKnows, Reached, Protected, Validating
  <2>5. task' \in [Handlers -> Task] /\ TasksOK'
    BY <2>1, <2>3, <2>4, OthersOfAnUpdate
  <2>6. CookiesOK' /\ SecretOK'
    BY <1>2, <2>1, <2>3 DEF CookiesOK, SecretOK
  <2> QED
    BY <1>2, <2>1, <2>2, <2>3, <2>5, <2>6 DEF AccessInv, Types
<1>7. CASE SavePin(h)
  <2>0. PICK next : next = [t EXCEPT !.pc = "reset", !.given = t.wanted]
    OBVIOUS
  <2>1. /\ t.pc = "save" /\ t.kind = "NewPin" /\ pin' = t.wanted
        /\ secret' = NewSecret /\ Stored(h, {"pin"}, next)
        /\ UNCHANGED <<gateway, vouched, cookies, presented, asked, answered>>
    BY <1>7, <2>0 DEF SavePin
  <2>2. pin' \in Pins /\ gateway' # None
    BY <1>1, <2>1 DEF TaskOK, Locals, Reached, Protected
  <2>3. next \in Task
    BY <1>1, <2>0 DEF Task, Places
  <2>4. TaskOK(next)'
    BY <1>1, <2>0, <2>1, <2>2 DEF TaskOK, Locals, SaveVouched, SignerKnows, Reached, Task,
                            Protected, Validating
  <2>5. task' \in [Handlers -> Task] /\ TasksOK'
    BY <2>1, <2>2, <2>3, <2>4, OthersOfAnUpdate
  <2>6. PinnedTogether'
    BY <1>2, <2>1 DEF PinnedTogether
  <2> QED
    BY <1>2, <1>4, <2>1, <2>2, <2>5, <2>6 DEF AccessInv, Types, SecretOK
<1> QED
  BY <1>5, <1>6, <1>7

\* A session is given to somebody who knows the PIN, or was crossed.
LEMMA IssueAccess ==
  ASSUME AccessInv, NEW h \in Handlers, IssueSession(h)
  PROVE  AccessInv'
<1> USE DEF IssueSession, At, Finish, store
<1> DEFINE c == [secret |-> secret, pin |-> task[h].given, crossed |-> task[h].crossed]
<1>1. task[h] \in Task /\ TaskOK(task[h])
  BY BeforeStep
<1>2. c \in Cookie /\ (c.pin = pin \/ c.crossed)
  BY <1>1 DEF TaskOK, Locals, SignerKnows, Task, Cookie, Secrets, AccessInv, Types
<1>3. cookies' \subseteq Cookie /\ CookiesOK'
  BY <1>2 DEF CookiesOK, AccessInv, Types
<1>4. answered' \in [Parts -> SUBSET Nat]
  BY <1>1 DEF Answered, Task, AccessInv, Types
<1>5. TasksOK'
  <2> SUFFICES ASSUME NEW g \in Handlers PROVE TaskOK(task[g])'
    BY DEF TasksOK, TaskOK
  <2>1. task'[g] = Idle \/ task'[g] = task[g]
    BY DEF AccessInv, Types
  <2>2. TaskOK(task[g]) /\ TaskOK(Idle)
    BY BeforeStep, IdleOK
  <2> QED
    BY <2>1, <2>2 DEF TaskOK, Locals, SaveVouched, SignerKnows, Reached
<1> QED
  BY <1>3, <1>4, <1>5, IdleOK DEF AccessInv, Types, PinnedTogether, SecretOK

\* What the world does, and the restart that loses every request.
LEMMA WorldAccess ==
  ASSUME AccessInv, Discard \/ Tick \/ Firmware \/ Restart \/ UNCHANGED vars
  PROVE  AccessInv'
<1> USE DEF store, world, ghosts
<1>1. CASE Discard \/ Tick \/ Firmware \/ UNCHANGED vars
  <2>1. /\ UNCHANGED <<gateway, pin, secret, asked, answered, task, vouched>>
        /\ cookies' \subseteq cookies
    BY <1>1 DEF Discard, Tick, Firmware, vars
  <2>2. presented' \in [Hosts -> Certs]
    BY <1>1 DEF Discard, Tick, Firmware, vars, AccessInv, Types
  <2>3. Types' /\ PinnedTogether' /\ CookiesOK' /\ SecretOK'
    BY <2>1, <2>2 DEF AccessInv, Types, PinnedTogether, CookiesOK, SecretOK
  <2>4. TasksOK'
    BY <2>1 DEF AccessInv, TasksOK, Locals, SaveVouched, SignerKnows, Reached
  <2> QED
    BY <2>3, <2>4 DEF AccessInv
<1>2. CASE Restart
  <2> USE <1>2 DEF Restart
  <2>1. Types' /\ PinnedTogether' /\ CookiesOK' /\ SecretOK'
    BY IdleOK DEF AccessInv, Types, PinnedTogether, CookiesOK, SecretOK
  <2>2. TasksOK'
    BY IdleOK DEF TasksOK, TaskOK, Idle, Locals, SaveVouched, SignerKnows, Reached,
                  Protected, Validating
  <2> QED
    BY <2>1, <2>2 DEF AccessInv
<1> QED
  BY <1>1, <1>2

\* Every state of the server's settings and sessions satisfies AccessInv.
THEOREM AccessAlways == Spec => []AccessInv
<1>1. AccessInv /\ [Next]_vars => AccessInv'
  <2> SUFFICES ASSUME AccessInv, [Next]_vars PROVE AccessInv'
    OBVIOUS
  <2>1. ASSUME NEW h \in Handlers, Step(h) PROVE AccessInv'
    BY <2>1, HeadsAccess, CallsAccess, SavesAccess, IssueAccess DEF Step
  <2> QED
    BY <2>1, WorldAccess DEF Next
<1> QED
  BY <1>1, InitAccess, PTL DEF Spec

\* The host, key and certificate in the store belong together: they were
\* written by one update, from locals that one validation vouched for.
THEOREM GatewayIsVouched == Spec => []PinnedTogether
<1>1. AccessInv => PinnedTogether
  BY DEF AccessInv
<1> QED
  BY <1>1, AccessAlways, PTL

\* A session that is accepted belongs to somebody who knows the stored PIN, or
\* whose request the PIN was changed under.
THEOREM SessionsAreKnown == Spec => []ValidMeansKnown
<1>1. AccessInv => ValidMeansKnown
  BY DEF AccessInv, CookiesOK, ValidMeansKnown, ValidSession
<1> QED
  BY <1>1, AccessAlways, PTL

-----------------------------------------------------------------------------
(* No change of PIN or gateway that was answered is undone by an older one, *)
(* for any number of requests at a time and any sets of pins and gateways.  *)

Quiet == {"none", "Login"}
Asks(t) == t.kind \notin Quiet

\* A request that has stored its change and not answered it.
Saved(t) == t.pc \in {"reset", "issue"}

\* A later change of p than i is stored, or was answered: i is not to return.
Replaced(i, p) ==
  \/ i \in old[p]
  \/ \E h \in Handlers :
       Saved(task[h]) /\ p \in Changes(task[h].kind) /\ i \in task[h].after[p]

\* Changes have numbers of their own; those before a request were answered.
Numbered ==
  /\ \A p \in Parts : old[p] \subseteq answered[p]
  /\ \A p \in Parts : \A i \in answered[p] : i <= asked
  /\ \A h \in Handlers : Asks(task[h]) =>
       /\ task[h].id <= asked
       /\ \A p \in Parts : task[h].id \notin answered[p]
       /\ \A p \in Parts : task[h].after[p] \subseteq answered[p]
       /\ \A g \in Handlers \ {h} : Asks(task[g]) => task[g].id # task[h].id

\* The stored PIN and gateway are not replaced ones, nor is the gateway a request
\* is to trust anew, unless another was chosen since it was read.
Holding ==
  /\ ~Replaced(chosen, "pin")
  /\ gateway # None =>
       /\ ~Replaced(gateway.by, "cert")
       /\ Replaced(gateway.of, "host") => gateway.crossed
  /\ \A h \in Handlers :
       task[h].kind = "TrustCert" /\ Replaced(task[h].of, "host") => task[h].crossed

ChangeInv == Numbered /\ Holding

-----------------------------------------------------------------------------

\* What a request may do without storing or answering: end, count a login, or
\* go on with the change it is about.
Follows(n, t) ==
  \/ n.kind \in Quiet
  \/ /\ n.kind = t.kind /\ n.id = t.id /\ n.after = t.after /\ n.of = t.of
     /\ n.crossed = t.crossed
     /\ Saved(n) => Saved(t)

LEMMA QuietChangesNothing ==
  ASSUME NEW t, t.kind \in Quiet
  PROVE  Changes(t.kind) = {} /\ ~Asks(t) /\ t.kind # "TrustCert"
BY DEF Quiet, Changes, Asks

LEMMA InitChange == Init => ChangeInv
<1> SUFFICES ASSUME Init PROVE ChangeInv
  OBVIOUS
<1>1. \A h \in Handlers : task[h] = Idle /\ ~Saved(task[h]) /\ task[h].kind = "none"
  BY DEF Init, Idle, Saved
<1>2. \A p \in Parts : old[p] = {} /\ answered[p] = {}
  BY DEF Init
<1>3. Numbered
  BY <1>1, <1>2 DEF Numbered, Asks, Quiet
<1>4. \A i : \A p \in Parts : ~Replaced(i, p)
  BY <1>1, <1>2 DEF Replaced
<1>5. Holding
  BY <1>1, <1>4 DEF Holding, Parts
<1> QED
  BY <1>3, <1>5 DEF ChangeInv

\* Steps that neither store nor answer a change keep the invariant.
LEMMA FollowChange ==
  ASSUME ChangeInv, UNCHANGED <<gateway, chosen, asked, answered, old>>,
         \A h \in Handlers : Follows(task'[h], task[h])
  PROVE  ChangeInv'
<1>1. ASSUME NEW i, NEW p \in Parts, Replaced(i, p)' PROVE Replaced(i, p)
  <2>1. CASE i \in old'[p]
    BY <2>1 DEF Replaced
  <2>2. CASE \E h \in Handlers :
               Saved(task'[h]) /\ p \in Changes(task'[h].kind) /\ i \in task'[h].after[p]
    <3>1. PICK h \in Handlers :
            Saved(task'[h]) /\ p \in Changes(task'[h].kind) /\ i \in task'[h].after[p]
      BY <2>2
    <3>2. task'[h].kind \notin Quiet
      BY <3>1, QuietChangesNothing
    <3> QED
      BY <3>1, <3>2 DEF Follows, Replaced
  <2> QED
    BY <1>1, <2>1, <2>2 DEF Replaced
<1>2. Numbered'
  BY DEF ChangeInv, Numbered, Follows, Asks
<1>3. Holding'
  <2>1. \A h \in Handlers : task'[h].kind = "TrustCert" =>
          task[h].kind = "TrustCert" /\ task'[h].of = task[h].of
            /\ task'[h].crossed = task[h].crossed
    BY DEF Follows, Quiet
  <2> QED
    BY <1>1, <2>1 DEF ChangeInv, Holding, Parts
<1> QED
  BY <1>2, <1>3 DEF ChangeInv

\* Calls, checks, the count of failures, and what the world does.
LEMMA CallsChange ==
  ASSUME AccessInv, ChangeInv,
         \/ \E h \in Handlers :
              \/ Login(h) \/ Fetch(h) \/ Version(h) \/ FirstSite(h) \/ Error(h)
              \/ CheckPin(h) \/ CountFailure(h) \/ Reset(h)
         \/ Discard \/ Tick \/ Firmware \/ Restart \/ UNCHANGED vars
  PROVE  ChangeInv'
<1> USE DEF store, ghosts, world, At, Goto, Finish
<1>1. task \in [Handlers -> Task]
  BY DEF AccessInv, Types
<1>2. \A t \in Task : Follows(t, t) /\ Follows(Idle, t)
  BY DEF Follows, Idle, Quiet
<1>3. ASSUME NEW h \in Handlers,
             \/ Login(h) \/ Fetch(h) \/ Version(h) \/ FirstSite(h) \/ Error(h)
             \/ CheckPin(h) \/ CountFailure(h) \/ Reset(h)
      PROVE  ChangeInv'
  <2>1. UNCHANGED <<gateway, chosen, asked, answered, old>>
    BY <1>3 DEF Login, Fetch, Version, FirstSite, Error, CheckPin, CountFailure, Reset
  <2>2. \A g \in Handlers \ {h} : task'[g] = task[g]
    BY <1>1, <1>3 DEF Login, Fetch, Version, FirstSite, Error, CheckPin, CountFailure, Reset
  <2>3. Follows(task'[h], task[h])
    <3>1. CASE Login(h)
      <4>1. PICK p \in Pins : task'[h] = [Idle EXCEPT !.kind = "Login", !.pc = "check", !.given = p]
        BY <1>1, <3>1 DEF Login
      <4>2. task'[h].kind = "Login"
        BY <4>1 DEF Idle
      <4> QED
        BY <4>2 DEF Follows, Quiet
    <3>2. CASE Fetch(h) \/ Version(h) \/ FirstSite(h)
      BY <1>1, <3>2 DEF Fetch, Version, FirstSite, Follows, Saved, Task
    <3>3. CASE Error(h) \/ CountFailure(h)
      BY <1>1, <1>2, <3>3 DEF Error, CountFailure
    <3>4. CASE CheckPin(h)
      BY <1>1, <1>2, <3>4 DEF CheckPin, Follows, Saved, Task, Quiet
    <3>5. CASE Reset(h)
      BY <1>1, <3>5 DEF Reset, Follows, Saved, Task
    <3> QED
      BY <1>3, <3>1, <3>2, <3>3, <3>4, <3>5
  <2> QED
    BY <1>1, <1>2, <2>1, <2>2, <2>3, FollowChange
<1>4. CASE Discard \/ Tick \/ Firmware \/ UNCHANGED vars
  BY <1>1, <1>2, <1>4, FollowChange DEF Discard, Tick, Firmware, vars
<1>5. CASE Restart
  BY <1>1, <1>2, <1>5, FollowChange DEF Restart
<1> QED
  BY <1>3, <1>4, <1>5

\* A change that is asked for gets the next number; to trust a certificate is to
\* read the gateway there is.
LEMMA HeadsChange ==
  ASSUME AccessInv, ChangeInv, NEW h \in Handlers,
         Setup(h) \/ NewPin(h) \/ NewGateway(h) \/ TrustCert(h)
  PROVE  ChangeInv'
<1> USE DEF store, ghosts, world
<1>1. task \in [Handlers -> Task] /\ asked \in Nat /\ answered \in [Parts -> SUBSET Nat]
  BY DEF AccessInv, Types
<1>2. ASSUME NEW kind \in Kinds, NEW pc, pc \in {"fetch", "check"}, NEW l \in Task,
             Change(h, kind, pc, l), UNCHANGED <<gateway, chosen, answered, old>>,
             kind = "TrustCert" /\ gateway # None => l.of = gateway.of /\ l.crossed = gateway.crossed,
             kind = "TrustCert" => gateway # None
      PROVE  ChangeInv'
  <2>1. /\ task'[h].kind = kind /\ task'[h].pc = pc /\ task'[h].id = asked + 1
        /\ task'[h].after = answered /\ task'[h].of = l.of /\ task'[h].crossed = l.crossed
        /\ asked' = asked + 1
    BY <1>1, <1>2 DEF Change, Task
  <2>2. \A g \in Handlers \ {h} : task'[g] = task[g]
    BY <1>1, <1>2 DEF Change
  <2>3. ASSUME NEW i, NEW p \in Parts, Replaced(i, p)' PROVE Replaced(i, p)
    BY <1>2, <2>1, <2>2, <2>3 DEF Replaced, Saved
  <2>4. Numbered'
    <3>1. \A p \in Parts : \A i \in answered[p] : i \in Nat /\ i <= asked
      BY <1>1 DEF ChangeInv, Numbered
    <3>2. \A g \in Handlers : task[g].id \in Nat
      BY <1>1 DEF Task
    <3>3. \A p \in Parts : old'[p] \subseteq answered'[p] /\ \A i \in answered'[p] : i <= asked'
      BY <1>1, <1>2, <2>1, <3>1 DEF ChangeInv, Numbered
    <3>4. ASSUME NEW g \in Handlers, Asks(task[g])'
          PROVE  /\ task'[g].id <= asked'
                 /\ \A p \in Parts : task'[g].id \notin answered'[p]
                 /\ \A p \in Parts : task'[g].after[p] \subseteq answered'[p]
                 /\ \A f \in Handlers \ {g} : Asks(task[f])' => task'[f].id # task'[g].id
      BY <1>1, <1>2, <2>1, <2>2, <3>1, <3>2, <3>4 DEF ChangeInv, Numbered, Asks
    <3> QED
      BY <3>3, <3>4 DEF Numbered
  <2>5. Holding'
    <3>1. ~Replaced(chosen, "pin")'
      BY <1>2, <2>3 DEF ChangeInv, Holding, Parts
    <3>2. gateway' # None => ~Replaced(gateway.by, "cert")'
                             /\ (Replaced(gateway.of, "host")' => gateway'.crossed)
      BY <1>2, <2>3 DEF ChangeInv, Holding, Parts
    <3>3. ASSUME NEW g \in Handlers, task'[g].kind = "TrustCert", Replaced(task[g].of, "host")'
          PROVE  task'[g].crossed
      BY <1>2, <2>1, <2>2, <2>3, <3>3 DEF ChangeInv, Holding, Parts
    <3> QED
      BY <3>1, <3>2, <3>3 DEF Holding
  <2> QED
    BY <2>4, <2>5 DEF ChangeInv
<1>3. CASE Setup(h)
  <2>1. PICK l \in Task : Change(h, "Setup", "fetch", l)
    BY <1>3, IdleOK DEF Setup, Task
  <2> QED
    BY <1>2, <1>3, <2>1 DEF Setup, Kinds
<1>4. CASE NewPin(h)
  <2>1. PICK l \in Task : Change(h, "NewPin", "check", l)
    BY <1>4, IdleOK DEF NewPin, Task
  <2> QED
    BY <1>2, <1>4, <2>1 DEF NewPin, Kinds
<1>5. CASE NewGateway(h)
  <2>1. PICK l \in Task : Change(h, "NewGateway", "fetch", l)
    BY <1>5, IdleOK DEF NewGateway, Task
  <2> QED
    BY <1>2, <1>5, <2>1 DEF NewGateway, Kinds
<1>6. CASE TrustCert(h)
  <2>1. gateway # None /\ gateway \in Gateway
    BY <1>6 DEF TrustCert, Authorized, ValidSession, AccessInv, SecretOK, Types
  <2>2. PICK l \in Task : /\ Change(h, "TrustCert", "fetch", l)
                          /\ l.of = gateway.of /\ l.crossed = gateway.crossed
    <3> DEFINE l == [Idle EXCEPT !.host = gateway.host, !.key = gateway.key,
                                 !.of = gateway.of, !.crossed = gateway.crossed]
    <3>1. l \in Task
      BY <2>1, IdleOK DEF Task, Gateway
    <3>2. l.of = gateway.of /\ l.crossed = gateway.crossed
      BY DEF Idle
    <3>3. Change(h, "TrustCert", "fetch", l)
      BY <1>6 DEF TrustCert
    <3> HIDE DEF l
    <3> QED
      BY <3>1, <3>2, <3>3
  <2> QED
    BY <1>2, <1>6, <2>1, <2>2 DEF TrustCert, Kinds
<1> QED
  BY <1>3, <1>4, <1>5, <1>6

\* What is replaced was answered, before and after a step.
LEMMA ReplacedAnswered ==
  ASSUME NEW i, NEW p \in Parts
  PROVE  /\ Numbered /\ Replaced(i, p) => i \in answered[p]
         /\ Numbered' /\ Replaced(i, p)' => i \in answered'[p]
<1>1. ASSUME NEW t, t.kind \in Quiet PROVE p \notin Changes(t.kind)
  BY <1>1, QuietChangesNothing
<1> QED
  BY <1>1 DEF Numbered, Replaced, Asks

\* What an update of the store by one request leaves of the others.
LEMMA OthersKept ==
  ASSUME AccessInv, NEW h \in Handlers, NEW parts, NEW next, Stored(h, parts, next)
  PROVE  /\ task'[h] = next
         /\ \A g \in Handlers \ {h} :
              /\ task'[g].kind = task[g].kind /\ task'[g].id = task[g].id
              /\ task'[g].of = task[g].of /\ task'[g].after = task[g].after
              /\ task'[g].pc = task[g].pc
              /\ task[g].crossed => task'[g].crossed
              /\ "host" \in parts /\ task[g].kind = "TrustCert" => task'[g].crossed
<1>1. task'[h] = next
  BY DEF Stored
<1>2. SUFFICES ASSUME NEW g \in Handlers \ {h}
               PROVE  /\ task'[g].kind = task[g].kind /\ task'[g].id = task[g].id
                      /\ task'[g].of = task[g].of /\ task'[g].after = task[g].after
                      /\ task'[g].pc = task[g].pc
                      /\ task[g].crossed => task'[g].crossed
                      /\ "host" \in parts /\ task[g].kind = "TrustCert" => task'[g].crossed
  BY <1>1
<1>3. task[g] \in Task
  BY DEF AccessInv, Types
<1>4. PICK crossed \in BOOLEAN : crossed = (task[g].crossed \/ g \in CrossedBy(h, parts))
  OBVIOUS
<1>5. task'[g] = [task[g] EXCEPT !.crossed = crossed]
  BY <1>3, <1>4 DEF Stored, Task
<1>6. "host" \in parts /\ task[g].kind = "TrustCert" => crossed
  BY <1>4 DEF CrossedBy
<1> QED
  BY <1>3, <1>4, <1>5, <1>6 DEF Task

\* A change that is stored and not yet answered: setup and a new PIN.
LEMMA PinSavesChange ==
  ASSUME AccessInv, ChangeInv, NEW h \in Handlers, SaveSetup(h) \/ SavePin(h)
  PROVE  ChangeInv'
<1> USE DEF store, ghosts, world, At
<1>1. task[h] \in Task /\ TaskOK(task[h])
  BY BeforeStep
<1>2. PICK parts, next :
        /\ Stored(h, parts, next) /\ parts = Changes(task[h].kind)
        /\ next.kind = task[h].kind /\ next.id = task[h].id /\ next.after = task[h].after
        /\ next.of = task[h].of /\ next.crossed = task[h].crossed
  <2>1. CASE SaveSetup(h)
    <3>1. Stored(h, Parts, [task[h] EXCEPT !.pc = "issue"]) /\ Parts = Changes(task[h].kind)
      BY <2>1 DEF SaveSetup, Changes
    <3>2. PICK next : next = [task[h] EXCEPT !.pc = "issue"]
      OBVIOUS
    <3>3. /\ next.kind = task[h].kind /\ next.id = task[h].id /\ next.after = task[h].after
          /\ next.of = task[h].of /\ next.crossed = task[h].crossed
      BY <1>1, <3>2 DEF Task
    <3> QED
      BY ONLY <3>1, <3>2, <3>3
  <2>2. CASE SavePin(h)
    <3>1. /\ Stored(h, {"pin"}, [task[h] EXCEPT !.pc = "reset", !.given = task[h].wanted])
          /\ {"pin"} = Changes(task[h].kind)
      BY <2>2 DEF SavePin, Changes
    <3>2. PICK next : next = [task[h] EXCEPT !.pc = "reset", !.given = task[h].wanted]
      OBVIOUS
    <3>3. /\ next.kind = task[h].kind /\ next.id = task[h].id /\ next.after = task[h].after
          /\ next.of = task[h].of /\ next.crossed = task[h].crossed
      BY <1>1, <3>2 DEF Task
    <3> QED
      BY ONLY <3>1, <3>2, <3>3
  <2> QED
    BY <2>1, <2>2
<1>3. task'[h] = next
  BY <1>2, OthersKept
<1>4. \A g \in Handlers :
        /\ task'[g].kind = task[g].kind /\ task'[g].id = task[g].id
        /\ task'[g].of = task[g].of /\ task'[g].after = task[g].after
        /\ task[g].crossed => task'[g].crossed
        /\ g # h => task'[g].pc = task[g].pc
        /\ g # h /\ "host" \in parts /\ task[g].kind = "TrustCert" => task'[g].crossed
  BY <1>2, <1>3, OthersKept
<1>5. UNCHANGED <<asked, answered, old>> /\ chosen' = task[h].id /\ Asks(task[h])
      /\ task[h].kind # "TrustCert"
  BY DEF SaveSetup, SavePin, Asks, Quiet
<1>6. Numbered'
  BY <1>4, <1>5 DEF ChangeInv, Numbered, Asks
<1>7. ASSUME NEW p \in Parts PROVE task[h].id \notin answered'[p]
  BY <1>5 DEF ChangeInv, Numbered
<1>8. ASSUME NEW i, NEW p \in Parts, Replaced(i, p)', p \notin parts PROVE Replaced(i, p)
  BY <1>2, <1>3, <1>4, <1>5, <1>8 DEF Replaced, Saved
<1>9. Holding'
  <2>1. ~Replaced(chosen, "pin")'
    <3>1. "pin" \in Parts
      BY DEF Parts
    <3> QED
      BY <1>5, <1>6, <1>7, <3>1, ReplacedAnswered
  <2>2. gateway' # None => /\ ~Replaced(gateway.by, "cert")'
                           /\ Replaced(gateway.of, "host")' => gateway'.crossed
    <3>1. CASE SaveSetup(h)
      <4>1. gateway'.by = task[h].id /\ gateway'.of = task[h].id
        BY <3>1 DEF SaveSetup, Setting, NewSetting
      <4> QED
        BY <1>6, <1>7, <4>1, ReplacedAnswered DEF Parts
    <3>2. CASE SavePin(h)
      <4>1. gateway' = gateway /\ parts = {"pin"}
        BY <1>2, <3>2 DEF SavePin, Changes
      <4> QED
        BY <1>8, <4>1 DEF ChangeInv, Holding, Parts
    <3> QED
      BY <3>1, <3>2
  <2>3. ASSUME NEW g \in Handlers, task'[g].kind = "TrustCert", Replaced(task[g].of, "host")'
        PROVE  task'[g].crossed
    <3>1. CASE "host" \in parts
      BY <1>4, <1>5, <2>3, <3>1
    <3>2. CASE "host" \notin parts
      BY <1>4, <1>8, <2>3, <3>2 DEF ChangeInv, Holding, Parts
    <3> QED
      BY <3>1, <3>2
  <2> QED
    BY ONLY <2>1, <2>2, <2>3 DEF Holding
<1> QED
  BY <1>6, <1>9 DEF ChangeInv

\* What an answer does to the ghosts.
LEMMA AnswerNumbers ==
  ASSUME AccessInv, ChangeInv, NEW h \in Handlers, Answered(h), asked' = asked,
         task'[h] = Idle,
         \A g \in Handlers \ {h} :
           /\ task'[g].kind = task[g].kind /\ task'[g].id = task[g].id
           /\ task'[g].after = task[g].after /\ task'[g].pc = task[g].pc
  PROVE  /\ Numbered'
         /\ \A i : \A p \in Parts : Replaced(i, p)' =>
              \/ Replaced(i, p)
              \/ Asks(task[h]) /\ p \in Changes(task[h].kind) /\ i \in task[h].after[p]
<1>1. Asks(task[h]) \/ \A p \in Parts : p \notin Changes(task[h].kind)
  BY QuietChangesNothing DEF Asks
<1>2. \A p \in Parts : answered[p] \subseteq answered'[p]
  BY DEF Answered
<1>3. \A p \in Parts : \A i \in answered'[p] : i \in answered[p] \/ (Asks(task[h]) /\ i = task[h].id)
  BY <1>1 DEF Answered
<1>4. \A p \in Parts : \A i \in old'[p] :
         \/ i \in old[p]
         \/ Asks(task[h]) /\ p \in Changes(task[h].kind) /\ i \in task[h].after[p]
  BY <1>1 DEF Answered
<1>5. ~Asks(Idle) /\ ~Saved(Idle)
  BY DEF Asks, Quiet, Saved, Idle
<1>6. \A p \in Parts : old'[p] \subseteq answered'[p] /\ \A i \in answered'[p] : i <= asked
  BY <1>2, <1>3, <1>4 DEF ChangeInv, Numbered
<1>7. ASSUME NEW g \in Handlers, Asks(task[g])'
      PROVE  /\ task'[g].id <= asked
             /\ \A p \in Parts : task'[g].id \notin answered'[p]
             /\ \A p \in Parts : task'[g].after[p] \subseteq answered'[p]
             /\ \A f \in Handlers \ {g} : Asks(task[f])' => task'[f].id # task'[g].id
  <2>1. g # h
    BY <1>5, <1>7
  <2>2. Asks(task[g])
    BY <1>7, <2>1 DEF Asks
  <2> QED
    BY <1>2, <1>3, <1>5, <2>1, <2>2 DEF ChangeInv, Numbered, Asks
<1>8. Numbered'
  BY <1>6, <1>7 DEF Numbered
<1>9. ASSUME NEW i, NEW p \in Parts, Replaced(i, p)'
      PROVE  \/ Replaced(i, p)
             \/ Asks(task[h]) /\ p \in Changes(task[h].kind) /\ i \in task[h].after[p]
  BY <1>4, <1>5, <1>9 DEF Replaced, Saved
<1> QED
  BY <1>8, <1>9

\* A change of gateway is stored and answered at once.
LEMMA SaveGatewayChange ==
  ASSUME AccessInv, ChangeInv, NEW h \in Handlers, SaveGateway(h)
  PROVE  ChangeInv'
<1> USE DEF store, ghosts, world, At
<1> DEFINE t == task[h]
<1>1. PICK parts : parts = Changes(t.kind) /\ Stored(h, parts, Idle)
  BY DEF SaveGateway
<1>2. /\ task'[h] = Idle
      /\ \A g \in Handlers \ {h} :
           /\ task'[g].kind = task[g].kind /\ task'[g].id = task[g].id
           /\ task'[g].of = task[g].of /\ task'[g].after = task[g].after
           /\ task'[g].pc = task[g].pc
           /\ task[g].crossed => task'[g].crossed
           /\ "host" \in parts /\ task[g].kind = "TrustCert" => task'[g].crossed
  BY <1>1, OthersKept
<1>3. Answered(h) /\ asked' = asked /\ chosen' = chosen /\ Asks(t)
  BY DEF SaveGateway, Asks, Quiet
<1>4. /\ Numbered'
      /\ \A i : \A p \in Parts : Replaced(i, p)' =>
           Replaced(i, p) \/ (p \in parts /\ i \in t.after[p])
  BY <1>1, <1>2, <1>3, AnswerNumbers
<1>5. ASSUME NEW p \in Parts, NEW i, i = t.id PROVE ~Replaced(i, p)'
  <2>1. i \notin answered[p] /\ t.after[p] \subseteq answered[p]
    BY <1>3, <1>5 DEF ChangeInv, Numbered
  <2>2. ~Replaced(i, p)
    BY <2>1, ReplacedAnswered DEF ChangeInv
  <2> QED
    BY <1>4, <2>1, <2>2
<1>6. PICK id, of, crossed : id = t.id /\ of = t.of /\ crossed = t.crossed
  OBVIOUS
<1>7. ~Replaced(chosen, "pin")'
  <2>1. "pin" \notin parts
    BY <1>1 DEF SaveGateway, Changes
  <2> QED
    BY <1>3, <1>4, <2>1 DEF ChangeInv, Holding, Parts
<1>8. /\ gateway'.by = id /\ gateway'.crossed = crossed
      /\ gateway'.of = IF t.kind = "TrustCert" THEN of ELSE id
  BY <1>6 DEF SaveGateway, Setting, NewSetting
<1>9. ~Replaced(gateway.by, "cert")'
  BY <1>5, <1>6, <1>8 DEF Parts
<1>10. Replaced(gateway.of, "host")' => gateway'.crossed
  <2>1. CASE t.kind = "TrustCert"
    <3>1. "host" \notin parts
      BY <1>1, <2>1 DEF Changes
    <3>2. Replaced(of, "host")' => Replaced(of, "host")
      BY <1>4, <3>1 DEF Parts
    <3> QED
      BY <1>6, <1>8, <2>1, <3>2 DEF ChangeInv, Holding
  <2>2. CASE t.kind # "TrustCert"
    BY <1>5, <1>6, <1>8, <2>2 DEF Parts
  <2> QED
    BY <2>1, <2>2
<1>11. ASSUME NEW g \in Handlers, task'[g].kind = "TrustCert", Replaced(task[g].of, "host")'
       PROVE  task'[g].crossed
  <2>1. g # h
    BY <1>2, <1>11 DEF Idle
  <2>2. CASE "host" \in parts
    BY <1>2, <1>11, <2>1, <2>2
  <2>3. CASE "host" \notin parts
    BY <1>2, <1>4, <1>11, <2>1, <2>3 DEF ChangeInv, Holding, Parts
  <2> QED
    BY <2>2, <2>3
<1>12. Holding'
  BY ONLY <1>7, <1>9, <1>10, <1>11 DEF Holding
<1> QED
  BY <1>4, <1>12 DEF ChangeInv

\* The answer of a setup or of a new PIN, and of a login, which changes nothing.
LEMMA IssueChange ==
  ASSUME AccessInv, ChangeInv, NEW h \in Handlers, IssueSession(h)
  PROVE  ChangeInv'
<1> USE DEF store, At, Finish
<1>1. task \in [Handlers -> Task]
  BY DEF AccessInv, Types
<1>2. /\ Answered(h) /\ UNCHANGED <<asked, gateway, chosen>> /\ Saved(task[h])
      /\ task'[h] = Idle /\ \A g \in Handlers \ {h} : task'[g] = task[g]
  BY <1>1 DEF IssueSession, Saved
<1>3. /\ Numbered'
      /\ \A i : \A p \in Parts : Replaced(i, p)' => Replaced(i, p)
  <2>1. /\ Numbered'
        /\ \A i : \A p \in Parts : Replaced(i, p)' =>
             \/ Replaced(i, p)
             \/ Asks(task[h]) /\ p \in Changes(task[h].kind) /\ i \in task[h].after[p]
    BY <1>2, AnswerNumbers
  <2> QED
    BY <1>2, <2>1 DEF Replaced
<1>4. \A g \in Handlers : task'[g].kind = "TrustCert" => task'[g] = task[g]
  BY <1>2 DEF Idle
<1>5. Holding'
  BY <1>2, <1>3, <1>4 DEF ChangeInv, Holding, Parts
<1> QED
  BY <1>3, <1>5 DEF ChangeInv

\* Every state of the server's settings satisfies ChangeInv.
THEOREM ChangesAlways == Spec => []ChangeInv
<1>1. AccessInv /\ ChangeInv /\ [Next]_vars => ChangeInv'
  <2> SUFFICES ASSUME AccessInv, ChangeInv, [Next]_vars PROVE ChangeInv'
    OBVIOUS
  <2>1. ASSUME NEW h \in Handlers, Step(h) PROVE ChangeInv'
    BY <2>1, HeadsChange, CallsChange, PinSavesChange, SaveGatewayChange, IssueChange DEF Step
  <2> QED
    BY <2>1, CallsChange DEF Next
<1> QED
  BY <1>1, InitChange, AccessAlways, PTL DEF Spec

\* A change of PIN, certificate or host that was answered is never undone by a
\* change asked for before that answer, whatever overlaps, fails or restarts.
THEOREM AnswersAreKept == Spec => []AnswersHold
<1>1. ChangeInv => AnswersHold
  BY DEF ChangeInv, Holding, Replaced, AnswersHold
<1> QED
  BY <1>1, ChangesAlways, PTL
-----------------------------------------------------------------------------
(* The login guard.  Nothing is locked from the look at it to the count of  *)
(* the failure, but a request that is past the look is one of the slots.     *)

LEMMA LockGrows ==
  ASSUME NEW m \in Nat, NEW n \in Nat, Tries <= m, m <= n
  PROVE  /\ LockFor(m) \in Nat /\ LockFor(n) \in Nat
         /\ LockFor(m) <= LockFor(n)
<1> DEFINE a == Least(m - Tries, Doublings)
           b == Least(n - Tries, Doublings)
<1>1. a \in 0 .. Doublings /\ b \in 0 .. Doublings /\ a <= b
  BY NumbersAssumption DEF Least
<1>2. 2 ^ a \in Nat /\ 2 ^ b \in Nat /\ 2 ^ a <= 2 ^ b
  BY <1>1, PowersAssumption
<1>3. ASSUME NEW x \in Nat, NEW y \in Nat, x <= y
      PROVE  Unit * x \in Nat /\ Unit * y \in Nat /\ Unit * x <= Unit * y
  <2> DEFINE d == y - x
  <2>1. d \in Nat /\ Unit \in Nat
    BY <1>3, NumbersAssumption
  <2>2. y = x + d
    BY <1>3
  <2> HIDE DEF d
  <2>3. Unit * x \in Nat /\ Unit * d \in Nat
    BY <2>1
  <2>4. Unit * y = Unit * x + Unit * d
    BY <2>1, <2>2
  <2> QED BY <2>3, <2>4
<1> HIDE DEF a, b
<1>4. Unit * 2 ^ a \in Nat /\ Unit * 2 ^ b \in Nat /\ Unit * 2 ^ a <= Unit * 2 ^ b
  BY <1>2, <1>3
<1>5. LockFor(m) = Least(Unit * 2 ^ a, Cap) /\ LockFor(n) = Least(Unit * 2 ^ b, Cap)
  BY DEF LockFor, a, b
<1> QED BY <1>4, <1>5, NumbersAssumption DEF Least

\* The rest of the types: the guard's, and the ghosts'.
GuardTypes ==
  guard \in [fails : Nat, until : Nat] /\ clock \in 0 .. Horizon /\ failed \in Seq(Nat)

OtherTypes ==
  /\ chosen \in Nat /\ mix \in Mixes /\ vouched \subseteq Hosts \X Keys \X Certs
  /\ old \in [Parts -> SUBSET Nat]

\* The guard is what the failures in a row make it.
GuardFollows ==
  /\ guard.fails = Len(failed)
  /\ Tries <= Len(failed) => guard.until = failed[Len(failed)] + LockFor(Len(failed))

\* The failures are in the order of time.
InOrder ==
  /\ \A i, j \in 1 .. Len(failed) : i <= j => failed[i] <= failed[j]
  /\ \A i \in 1 .. Len(failed) : failed[i] <= clock

\* The requests past the look at the guard whose PIN may be wrong.
Guessing ==
  {h \in Handlers :
     task[h].pc = "fail" \/ (task[h].pc = "check" /\ task[h].kind = "Login")}

\* While the lock of a failure lasts, those that failed since and those that may
\* still fail are fewer than the slots.
Spaced ==
  \A i \in Tries .. Len(failed) :
    \/ failed[i] + LockFor(i) <= clock
    \/ Cardinality(Guessing) + (Len(failed) - i) < Cardinality(Handlers)

GuardInv == GuardFollows /\ InOrder /\ Spaced /\ AttemptsAreSpaced
LEMMA InitTypes == Init => GuardTypes /\ OtherTypes
<1> SUFFICES ASSUME Init PROVE GuardTypes /\ OtherTypes
  OBVIOUS
<1>1. /\ failed = <<>> /\ guard = [fails |-> 0, until |-> 0] /\ clock = 0
      /\ chosen = 0 /\ mix \in Mixes /\ presented \in [Hosts -> Certs]
      /\ old = [p \in Parts |-> {}]
  BY DEF Init, NoFailures
<1>2. GuardTypes
  BY <1>1, NumbersAssumption DEF GuardTypes
<1>3. vouched \subseteq Hosts \X Keys \X Certs
  <2>1. CASE ~mix.configured
    BY <2>1 DEF Init
  <2>2. CASE mix.configured
    <3>1. PICK host \in Hosts, key \in Keys : vouched = {<<host, key, presented[host]>>}
      BY <2>2 DEF Init
    <3> QED BY <1>1, <3>1
  <2> QED BY <2>1, <2>2
<1> QED BY <1>1, <1>2, <1>3 DEF OtherTypes

LEMMA NextTypes ==
  ASSUME AccessInv, GuardTypes, OtherTypes, [Next]_vars
  PROVE  GuardTypes' /\ OtherTypes'
<1> USE DEF store, world, ghosts
<1>1. CASE Discard \/ Tick \/ Firmware \/ Restart \/ UNCHANGED vars
  <2>1. /\ UNCHANGED <<chosen, mix, vouched, old>>
        /\ UNCHANGED guard \/ guard' = NoFailures
        /\ UNCHANGED failed \/ failed' = <<>>
        /\ UNCHANGED clock \/ clock' = Least(clock + 1, Horizon)
    BY <1>1 DEF Discard, Tick, Firmware, Restart, vars
  <2>2. clock' \in 0 .. Horizon
    BY <2>1, NumbersAssumption DEF GuardTypes, Least
  <2>3. guard' \in [fails : Nat, until : Nat] /\ failed' \in Seq(Nat)
    <3>1. NoFailures \in [fails : Nat, until : Nat]
      BY DEF NoFailures
    <3>2. <<>> \in Seq(Nat)
      OBVIOUS
    <3> QED BY <2>1, <3>1, <3>2 DEF GuardTypes
  <2>4. OtherTypes'
    BY <2>1 DEF OtherTypes
  <2> QED BY <2>2, <2>3, <2>4 DEF GuardTypes
<1>2. ASSUME NEW h \in Handlers, Step(h)
      PROVE  GuardTypes' /\ OtherTypes'
  <2>1. task[h] \in Task /\ TaskOK(task[h])
    BY BeforeStep
  <2>2. CASE CountFailure(h)
    <3>1. /\ UNCHANGED <<clock, chosen, mix, vouched, old>>
          /\ guard' = [fails |-> guard.fails + 1,
                       until |-> IF Locks(guard.fails + 1) THEN clock + LockFor(guard.fails + 1)
                                                           ELSE guard.until]
          /\ failed' = Append(failed, clock)
      BY <2>2 DEF CountFailure
    <3>2. clock \in Nat /\ guard.fails \in Nat /\ guard.until \in Nat
      BY NumbersAssumption DEF GuardTypes
    <3>3. Locks(guard.fails + 1) => LockFor(guard.fails + 1) \in Nat
      BY <3>2, LockGrows, NumbersAssumption DEF Locks
    <3>4. guard' \in [fails : Nat, until : Nat]
      BY <3>1, <3>2, <3>3
    <3> QED BY <3>1, <3>2, <3>4 DEF GuardTypes, OtherTypes
  <2>3. CASE Reset(h)
    BY <2>3 DEF Reset, GuardTypes, OtherTypes, NoFailures
  <2>4. CASE FirstSite(h)
    <3>1. /\ task[h].host \in Hosts /\ task[h].key \in Keys
          /\ presented[task[h].host] \in Certs
      BY <2>1, <2>4 DEF FirstSite, At, TaskOK, Locals, Validating, AccessInv, Types
    <3>2. /\ vouched' = vouched \union {<<task[h].host, task[h].key, presented[task[h].host]>>}
          /\ UNCHANGED <<guard, clock, failed, chosen, mix, old>>
      BY <2>4 DEF FirstSite
    <3>3. vouched' \subseteq Hosts \X Keys \X Certs
      BY <3>1, <3>2 DEF OtherTypes
    <3> QED BY <3>2, <3>3 DEF GuardTypes, OtherTypes
  <2>5. CASE SaveSetup(h) \/ SavePin(h)
    <3>1. UNCHANGED <<guard, clock, failed, mix, vouched, old>> /\ chosen' = task[h].id
      BY <2>5 DEF SaveSetup, SavePin
    <3> QED BY <2>1, <3>1 DEF GuardTypes, OtherTypes, Task
  <2>6. CASE SaveGateway(h) \/ IssueSession(h)
    <3>1. UNCHANGED <<guard, clock, failed, mix, vouched, chosen>> /\ Answered(h)
      BY <2>6 DEF SaveGateway, IssueSession
    <3>2. old' \in [Parts -> SUBSET Nat]
      BY <2>1, <3>1 DEF Answered, OtherTypes, Task
    <3> QED BY <3>1, <3>2 DEF GuardTypes, OtherTypes
  <2>7. CASE \/ Setup(h) \/ Login(h) \/ NewPin(h) \/ NewGateway(h) \/ TrustCert(h)
             \/ Fetch(h) \/ Version(h) \/ Error(h) \/ CheckPin(h)
    <3>1. UNCHANGED <<guard, clock, failed, mix, vouched, chosen, old>>
      BY <2>7 DEF Setup, Login, NewPin, NewGateway, TrustCert, Fetch, Version, Error, CheckPin
    <3> QED BY <3>1 DEF GuardTypes, OtherTypes
  <2> QED BY <1>2, <2>2, <2>3, <2>4, <2>5, <2>6, <2>7 DEF Step
<1> QED BY <1>1, <1>2 DEF Next

LEMMA TypesAlways == Spec => [](GuardTypes /\ OtherTypes)
<1>1. AccessInv /\ (GuardTypes /\ OtherTypes) /\ [Next]_vars => (GuardTypes /\ OtherTypes)'
  BY NextTypes
<1> QED BY <1>1, InitTypes, AccessAlways, PTL DEF Spec

\* Every variable of the settings, sessions and the login guard has its type.
THEOREM AccessIsTyped == Spec => []TypeOK
<1>1. AccessInv /\ GuardTypes /\ OtherTypes => TypeOK
  BY NumbersAssumption DEF AccessInv, Types, GuardTypes, OtherTypes, TypeOK, Secrets
<1> QED BY <1>1, AccessAlways, TypesAlways, PTL

\* A step that counts no failure and lets nobody past the guard.
LEMMA NobodyPasses ==
  ASSUME IsFiniteSet(Handlers), GuardTypes, GuardInv,
         UNCHANGED <<guard, failed>>, clock' \in Nat, clock <= clock', Guessing' \subseteq Guessing
  PROVE  GuardInv'
<1> DEFINE n == Cardinality(Guessing)
<1>1. /\ IsFiniteSet(Guessing) /\ IsFiniteSet(Guessing')
      /\ Cardinality(Guessing') <= Cardinality(Guessing)
      /\ Cardinality(Guessing') \in Nat /\ Cardinality(Guessing) \in Nat
      /\ Cardinality(Handlers) \in Nat
  <2>1. Guessing \subseteq Handlers
    BY DEF Guessing
  <2> QED BY <2>1, FS_Subset, FS_CardinalityType
<1>2. failed \in Seq(Nat) /\ Len(failed) \in Nat /\ clock \in Nat
  BY NumbersAssumption DEF GuardTypes
<1>3. GuardFollows' /\ AttemptsAreSpaced'
  BY DEF GuardInv, GuardFollows, AttemptsAreSpaced
<1>4. InOrder'
  BY <1>2 DEF GuardInv, InOrder
<1>5. Spaced'
  <2> SUFFICES ASSUME NEW i \in Tries .. Len(failed)
               PROVE  \/ failed[i] + LockFor(i) <= clock'
                      \/ Cardinality(Guessing') + (Len(failed) - i) < Cardinality(Handlers)
    BY DEF Spaced
  <2>1. \/ failed[i] + LockFor(i) <= clock
        \/ Cardinality(Guessing) + (Len(failed) - i) < Cardinality(Handlers)
    BY DEF GuardInv, Spaced
  <2>2. i \in Nat /\ i \in 1 .. Len(failed) /\ LockFor(i) \in Nat
    BY <1>2, LockGrows, NumbersAssumption
  <2>3. failed[i] \in Nat
    BY <1>2, <2>2
  <2> QED BY <1>1, <1>2, <2>1, <2>2, <2>3
<1> QED BY <1>3, <1>4, <1>5 DEF GuardInv

\* A login is let past only when every lock is over.
LEMMA LoginPasses ==
  ASSUME GuardTypes, GuardInv, NEW h \in Handlers, Login(h)
  PROVE  GuardInv'
<1>1. UNCHANGED <<guard, failed, clock>> /\ guard.until <= clock
  BY NumbersAssumption DEF Login, Allowed, GuardTypes
<1>2. failed \in Seq(Nat) /\ Len(failed) \in Nat /\ clock \in Nat
  BY NumbersAssumption DEF GuardTypes
<1>3. GuardFollows' /\ AttemptsAreSpaced' /\ InOrder'
  BY <1>1 DEF GuardInv, GuardFollows, AttemptsAreSpaced, InOrder
<1>4. Spaced'
  <2> SUFFICES ASSUME NEW i \in Tries .. Len(failed)
               PROVE  failed[i] + LockFor(i) <= clock
    BY <1>1 DEF Spaced
  <2> DEFINE n == Len(failed)
  <2>1. i \in Nat /\ i \in 1 .. n /\ n \in 1 .. n /\ i <= n /\ Tries <= i
    BY <1>2, NumbersAssumption
  <2>2. LockFor(i) \in Nat /\ LockFor(n) \in Nat /\ LockFor(i) <= LockFor(n)
    BY <1>2, <2>1, LockGrows
  <2>3. failed[i] \in Nat /\ failed[n] \in Nat /\ failed[i] <= failed[n]
    BY <1>2, <2>1 DEF GuardInv, InOrder
  <2>4. failed[n] + LockFor(n) <= clock
    BY <1>1, <2>1, <1>2, NumbersAssumption DEF GuardInv, GuardFollows
  <2> QED BY <1>2, <2>2, <2>3, <2>4
<1> QED BY <1>3, <1>4 DEF GuardInv

\* A failure is counted: its request is one of those that were past the guard.
LEMMA FailureCounts ==
  ASSUME IsFiniteSet(Handlers), AccessInv, GuardTypes, GuardInv, NEW h \in Handlers, CountFailure(h)
  PROVE  GuardInv'
<1> DEFINE n == Len(failed)
<1>1. /\ UNCHANGED clock /\ At(h, "fail") /\ task' = [task EXCEPT ![h] = Idle]
      /\ guard' = [fails |-> guard.fails + 1,
                   until |-> IF Locks(guard.fails + 1) THEN clock + LockFor(guard.fails + 1)
                                                       ELSE guard.until]
      /\ failed' = Append(failed, clock)
  BY DEF CountFailure, Finish
<1>2. failed \in Seq(Nat) /\ n \in Nat /\ clock \in Nat /\ guard.fails = n
  BY NumbersAssumption DEF GuardTypes, GuardInv, GuardFollows
<1>3. /\ failed' \in Seq(Nat) /\ Len(failed') = n + 1 /\ failed'[n + 1] = clock
      /\ \A i \in 1 .. n : failed'[i] = failed[i] /\ failed[i] \in Nat
  BY <1>1, <1>2
<1>4. GuardFollows'
  BY <1>1, <1>2, <1>3 DEF GuardFollows, Locks
<1>5. InOrder'
  <2>1. \A i \in 1 .. n : failed[i] <= clock
    BY DEF GuardInv, InOrder
  <2>2. ASSUME NEW i \in 1 .. n + 1, NEW j \in 1 .. n + 1, i <= j
        PROVE  failed'[i] <= failed'[j]
    <3>1. CASE j = n + 1
      BY <1>2, <1>3, <2>1, <3>1
    <3>2. CASE j # n + 1
      <4>1. i \in 1 .. n /\ j \in 1 .. n
        BY <1>2, <2>2, <3>2
      <4> QED BY <1>3, <2>2, <4>1 DEF GuardInv, InOrder
    <3> QED BY <3>1, <3>2
  <2>3. \A i \in 1 .. n + 1 : failed'[i] <= clock
    BY <1>2, <1>3, <2>1
  <2> QED BY <1>1, <1>3, <2>2, <2>3 DEF InOrder
<1>6. /\ Cardinality(Guessing') + 1 <= Cardinality(Guessing)
      /\ Cardinality(Guessing) <= Cardinality(Handlers)
      /\ Cardinality(Guessing') \in Nat /\ Cardinality(Guessing) \in Nat
      /\ Cardinality(Handlers) \in Nat
  <2>1. Guessing \subseteq Handlers /\ h \in Guessing
    BY <1>1 DEF Guessing, At
  <2>2. Guessing' \subseteq Guessing \ {h}
    BY <1>1 DEF Guessing, AccessInv, Types, Idle
  <2>3. IsFiniteSet(Guessing) /\ Cardinality(Guessing) <= Cardinality(Handlers)
    BY <2>1, FS_Subset
  <2>4. IsFiniteSet(Guessing \ {h}) /\ Cardinality(Guessing \ {h}) = Cardinality(Guessing) - 1
    BY <2>1, <2>3, FS_RemoveElement
  <2>5. IsFiniteSet(Guessing') /\ Cardinality(Guessing') <= Cardinality(Guessing \ {h})
    BY <2>2, <2>4, FS_Subset
  <2>6. Cardinality(Guessing') \in Nat /\ Cardinality(Guessing) \in Nat /\ Cardinality(Handlers) \in Nat
    BY <2>3, <2>5, FS_CardinalityType
  <2> QED BY <2>3, <2>4, <2>5, <2>6
<1>7. Spaced'
  <2> SUFFICES ASSUME NEW i \in Tries .. n + 1
               PROVE  \/ failed'[i] + LockFor(i) <= clock
                      \/ Cardinality(Guessing') + ((n + 1) - i) < Cardinality(Handlers)
    BY <1>1, <1>3 DEF Spaced
  <2>1. CASE i = n + 1
    BY <1>2, <1>6, <2>1
  <2>2. CASE i # n + 1
    <3>1. i \in Tries .. n /\ i \in 1 .. n
      BY <1>2, <2>2, NumbersAssumption
    <3>2. failed'[i] = failed[i]
      BY <1>3, <3>1
    <3>3. \/ failed[i] + LockFor(i) <= clock
          \/ Cardinality(Guessing) + (n - i) < Cardinality(Handlers)
      BY <3>1 DEF GuardInv, Spaced
    <3> QED BY <1>2, <1>6, <3>1, <3>2, <3>3
  <2> QED BY <2>1, <2>2
<1>8. AttemptsAreSpaced'
  <2> DEFINE H == Cardinality(Handlers)
  <2> SUFFICES ASSUME NEW i \in Tries .. (n + 1) - H
               PROVE  failed'[i + H] >= failed'[i] + LockFor(i)
    BY <1>3 DEF AttemptsAreSpaced
  <2>h. H \in Nat \ {0}
    BY <1>6
  <2> HIDE DEF H
  <2>i. i \in Nat /\ i \in Tries .. n /\ i \in 1 .. n /\ i + H \in 1 .. n + 1
    BY <1>2, <2>h, NumbersAssumption
  <2>1. CASE i + H = n + 1
    <3>1. \/ failed[i] + LockFor(i) <= clock
          \/ Cardinality(Guessing) + (n - i) < H
      BY <2>i DEF GuardInv, Spaced, H
    <3>2. ~(Cardinality(Guessing) + (n - i) < H)
      BY <1>2, <1>6, <2>1, <2>h, <2>i
    <3>3. LockFor(i) \in Nat
      BY <2>i, LockGrows
    <3> QED BY <1>2, <1>3, <2>1, <2>i, <3>1, <3>2, <3>3
  <2>2. CASE i + H # n + 1
    <3>1. i + H \in 1 .. n /\ i \in Tries .. n - H
      BY <1>2, <2>2, <2>h, <2>i, NumbersAssumption
    <3>2. failed[i + H] >= failed[i] + LockFor(i)
      BY <3>1 DEF GuardInv, AttemptsAreSpaced, H
    <3> QED BY <1>3, <2>i, <3>1, <3>2
  <2> QED BY <2>1, <2>2
<1> QED BY <1>4, <1>5, <1>7, <1>8 DEF GuardInv

\* After a right PIN or a restart there is no failure.
LEMMA NoFailureSpaced ==
  ASSUME IsFiniteSet(Handlers), failed' = <<>>, guard' = NoFailures, clock' \in Nat
  PROVE  GuardInv'
<1>1. Len(failed') = 0
  OBVIOUS
<1>2. Cardinality(Handlers) \in Nat
  BY FS_CardinalityType
<1>3. \A i \in Tries .. 0 : FALSE
  BY NumbersAssumption
<1>4. \A i \in Tries .. 0 - Cardinality(Handlers) : FALSE
  BY <1>2, NumbersAssumption
<1>5. GuardFollows' /\ InOrder' /\ Spaced'
  BY <1>1, <1>3, NumbersAssumption DEF GuardFollows, InOrder, Spaced, NoFailures
<1>6. AttemptsAreSpaced'
  BY <1>1, <1>4 DEF AttemptsAreSpaced
<1> QED BY <1>5, <1>6 DEF GuardInv

LEMMA InitGuard == ASSUME IsFiniteSet(Handlers) PROVE Init => GuardInv
<1> SUFFICES ASSUME Init PROVE GuardInv
  OBVIOUS
<1>1. failed = <<>> /\ guard = NoFailures /\ Len(failed) = 0
  BY DEF Init
<1>2. Cardinality(Handlers) \in Nat
  BY FS_CardinalityType
<1>3. \A i \in Tries .. 0 : FALSE
  BY NumbersAssumption
<1>4. \A i \in Tries .. 0 - Cardinality(Handlers) : FALSE
  BY <1>2, NumbersAssumption
<1>5. GuardFollows /\ InOrder /\ Spaced
  BY <1>1, <1>3, NumbersAssumption DEF GuardFollows, InOrder, Spaced, NoFailures
<1>6. AttemptsAreSpaced
  BY <1>1, <1>4 DEF AttemptsAreSpaced
<1> QED BY <1>5, <1>6 DEF GuardInv

LEMMA NextGuard ==
  ASSUME IsFiniteSet(Handlers), AccessInv, GuardTypes, GuardInv, [Next]_vars
  PROVE  GuardInv'
<1> USE DEF store, world, ghosts
<1>1. clock \in Nat /\ task \in [Handlers -> Task]
  BY NumbersAssumption DEF GuardTypes, AccessInv, Types
<1>2. CASE Discard \/ Tick \/ Firmware \/ UNCHANGED vars
  <2>1. UNCHANGED <<guard, failed, task>> /\ (UNCHANGED clock \/ clock' = Least(clock + 1, Horizon))
    BY <1>2 DEF Discard, Tick, Firmware, vars
  <2>2. clock' \in Nat /\ clock <= clock'
    BY <1>1, <2>1, NumbersAssumption DEF Least, GuardTypes
  <2>3. Guessing' \subseteq Guessing
    BY <2>1 DEF Guessing
  <2> QED BY <2>1, <2>2, <2>3, NobodyPasses
<1>3. CASE Restart
  BY <1>1, <1>3, NoFailureSpaced DEF Restart
<1>4. ASSUME NEW h \in Handlers, Step(h)
      PROVE  GuardInv'
  <2>1. CASE Login(h)
    BY <2>1, LoginPasses
  <2>2. CASE CountFailure(h)
    BY <2>2, FailureCounts
  <2>3. CASE Reset(h)
    BY <1>1, <2>3, NoFailureSpaced DEF Reset
  <2>4. ASSUME UNCHANGED <<guard, failed, clock>>,
               \A g \in Handlers \ {h} : task'[g].pc = task[g].pc /\ task'[g].kind = task[g].kind,
               \/ task'[h].pc \notin {"check", "fail"}
               \/ task'[h].kind # "Login" /\ task'[h].pc = "check"
               \/ h \in Guessing
        PROVE  GuardInv'
    <3>1. Guessing' \subseteq Guessing
      BY <2>4 DEF Guessing
    <3> QED BY <1>1, <2>4, <3>1, NobodyPasses
  <2>t. ASSUME UNCHANGED <<guard, failed, clock>>, NEW t, task' = [task EXCEPT ![h] = t],
               \/ t.pc \notin {"check", "fail"}
               \/ t.kind # "Login" /\ t.pc = "check"
               \/ h \in Guessing
        PROVE  GuardInv'
    <3>1. task'[h] = t /\ \A g \in Handlers \ {h} : task'[g] = task[g]
      BY <1>1, <2>t
    <3> QED BY <2>4, <2>t, <3>1
  <2>5. CASE Setup(h) \/ NewPin(h) \/ NewGateway(h) \/ TrustCert(h)
    <3>1. UNCHANGED <<guard, failed, clock>>
      BY <2>5 DEF Setup, NewPin, NewGateway, TrustCert
    <3>2. ASSUME NEW kind, NEW pc, NEW locals, Change(h, kind, pc, locals),
                 DOMAIN locals = DOMAIN Idle,
                 pc = "fetch" \/ (kind # "Login" /\ pc = "check")
          PROVE  GuardInv'
      <4> DEFINE t == [locals EXCEPT !.kind = kind, !.pc = pc, !.id = asked + 1, !.after = answered]
      <4>1. task' = [task EXCEPT ![h] = t]
        BY <3>2 DEF Change
      <4>2. t.pc = pc /\ t.kind = kind
        BY <3>2 DEF Idle
      <4> HIDE DEF t
      <4> QED BY <2>t, <3>1, <3>2, <4>1, <4>2
    <3>3. CASE Setup(h)
      <4>1. PICK host \in Hosts, key \in Keys, p \in Pins :
              Change(h, "Setup", "fetch",
                [Idle EXCEPT !.host = host, !.key = key, !.given = p, !.wanted = p])
        BY <3>3 DEF Setup
      <4>2. DOMAIN [Idle EXCEPT !.host = host, !.key = key, !.given = p, !.wanted = p] = DOMAIN Idle
        OBVIOUS
      <4> QED BY <3>2, <4>1, <4>2
    <3>4. CASE NewPin(h)
      <4>1. PICK p, q \in Pins :
              Change(h, "NewPin", "check", [Idle EXCEPT !.given = p, !.wanted = q])
        BY <3>4 DEF NewPin
      <4>2. DOMAIN [Idle EXCEPT !.given = p, !.wanted = q] = DOMAIN Idle
        OBVIOUS
      <4> QED BY <3>2, <4>1, <4>2
    <3>5. CASE NewGateway(h)
      <4>1. PICK host \in Hosts, key \in Keys :
              Change(h, "NewGateway", "fetch", [Idle EXCEPT !.host = host, !.key = key])
        BY <3>5 DEF NewGateway
      <4>2. DOMAIN [Idle EXCEPT !.host = host, !.key = key] = DOMAIN Idle
        OBVIOUS
      <4> QED BY <3>2, <4>1, <4>2
    <3>6. CASE TrustCert(h)
      <4>1. Change(h, "TrustCert", "fetch",
              [Idle EXCEPT !.host = gateway.host, !.key = gateway.key, !.of = gateway.of,
                           !.crossed = gateway.crossed])
        BY <3>6 DEF TrustCert
      <4>2. DOMAIN [Idle EXCEPT !.host = gateway.host, !.key = gateway.key, !.of = gateway.of,
                                !.crossed = gateway.crossed] = DOMAIN Idle
        OBVIOUS
      <4> QED BY <3>2, <4>1, <4>2
    <3> QED BY <2>5, <3>3, <3>4, <3>5, <3>6
  <2>6. CASE Fetch(h) \/ Version(h) \/ FirstSite(h) \/ Error(h) \/ CheckPin(h)
    <3>1. UNCHANGED <<guard, failed, clock>>
      BY <2>6 DEF Fetch, Version, FirstSite, Error, CheckPin
    <3>2. ASSUME NEW pc, Goto(h, pc), pc \notin {"check", "fail"} \/ h \in Guessing
          PROVE  GuardInv'
      <4> DEFINE t == [task[h] EXCEPT !.pc = pc]
      <4>1. task' = [task EXCEPT ![h] = t]
        BY <1>1, <3>2 DEF Goto
      <4>2. t.pc = pc
        BY <1>1 DEF Task
      <4> HIDE DEF t
      <4> QED BY <2>t, <3>1, <3>2, <4>1, <4>2
    <3>3. ASSUME Finish(h) PROVE GuardInv'
      <4>1. Idle.pc \notin {"check", "fail"} /\ task' = [task EXCEPT ![h] = Idle]
        BY <3>3 DEF Finish, Idle
      <4> QED BY <2>t, <3>1, <4>1
    <3>4. CASE Fetch(h)
      <4> DEFINE t == [task[h] EXCEPT !.cert = presented[task[h].host], !.pc = "version"]
      <4>1. task' = [task EXCEPT ![h] = t]
        BY <1>1, <3>4 DEF Fetch
      <4>2. t.pc = "version"
        BY <1>1 DEF Task
      <4> HIDE DEF t
      <4> QED BY <2>t, <3>1, <4>1, <4>2
    <3>5. CASE Version(h)
      BY <3>2, <3>5 DEF Version
    <3>6. CASE FirstSite(h)
      BY <3>2, <3>6 DEF FirstSite
    <3>7. CASE Error(h)
      BY <3>3, <3>7 DEF Error
    <3>8. CASE CheckPin(h)
      <4>1. task[h].pc = "check"
        BY <3>8 DEF CheckPin, At
      <4>2. \/ Goto(h, "reset") \/ Goto(h, "save") \/ Finish(h)
            \/ Goto(h, "fail") /\ h \in Guessing
        BY <3>8, <4>1 DEF CheckPin, Guessing
      <4> QED BY <3>2, <3>3, <4>2
    <3> QED BY <2>6, <3>4, <3>5, <3>6, <3>7, <3>8
  <2>8. CASE SaveSetup(h) \/ SaveGateway(h) \/ SavePin(h)
    <3>1. UNCHANGED <<guard, failed, clock>>
      BY <2>8 DEF SaveSetup, SaveGateway, SavePin
    <3>2. ASSUME NEW parts, NEW next, Stored(h, parts, next), next.pc \notin {"check", "fail"}
          PROVE  GuardInv'
      <4>1. task'[h] = next
        BY <3>2 DEF Stored
      <4>2. ASSUME NEW g \in Handlers \ {h}
            PROVE  task'[g].pc = task[g].pc /\ task'[g].kind = task[g].kind
        <5>1. task'[g] = [task[g] EXCEPT !.crossed = @ \/ g \in CrossedBy(h, parts)]
          BY <3>2 DEF Stored
        <5>2. task[g] \in Task
          BY <1>1
        <5> QED BY <5>1, <5>2 DEF Task
      <4> QED BY <2>4, <3>1, <3>2, <4>1, <4>2
    <3>3. CASE SaveSetup(h)
      <4>1. Stored(h, Parts, [task[h] EXCEPT !.pc = "issue"])
        BY <3>3 DEF SaveSetup
      <4>2. [task[h] EXCEPT !.pc = "issue"].pc = "issue"
        BY <1>1 DEF Task
      <4> QED BY <3>2, <4>1, <4>2
    <3>4. CASE SaveGateway(h)
      <4>1. Stored(h, Changes(task[h].kind), Idle) /\ Idle.pc = "idle"
        BY <3>4 DEF SaveGateway, Idle
      <4> QED BY <3>2, <4>1
    <3>5. CASE SavePin(h)
      <4>1. Stored(h, {"pin"}, [task[h] EXCEPT !.pc = "reset", !.given = task[h].wanted])
        BY <3>5 DEF SavePin
      <4>2. [task[h] EXCEPT !.pc = "reset", !.given = task[h].wanted].pc = "reset"
        BY <1>1 DEF Task
      <4> QED BY <3>2, <4>1, <4>2
    <3> QED BY <2>8, <3>3, <3>4, <3>5
  <2>9. CASE IssueSession(h)
    BY <1>1, <2>4, <2>9 DEF IssueSession, Finish, Idle
  <2> QED BY <1>4, <2>1, <2>2, <2>3, <2>5, <2>6, <2>8, <2>9 DEF Step
<1> QED BY <1>2, <1>3, <1>4 DEF Next

\* Guessing is slowed down by the locks whatever requests overlap: of the failed
\* logins in a row, no more than there are slots fall within one lock.
THEOREM GuessesAreSpaced ==
  ASSUME IsFiniteSet(Handlers) PROVE Spec => []AttemptsAreSpaced
<1>1. Init => GuardInv
  BY InitGuard
<1>2. AccessInv /\ (GuardTypes /\ OtherTypes) /\ GuardInv /\ [Next]_vars => GuardInv'
  BY NextGuard
<1>3. GuardInv => AttemptsAreSpaced
  BY DEF GuardInv
<1> QED BY <1>1, <1>2, <1>3, AccessAlways, TypesAlways, PTL DEF Spec
=============================================================================

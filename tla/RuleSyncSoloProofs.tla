------------------------- MODULE RuleSyncSoloProofs -------------------------
(***************************************************************************)
(* Requests that do not overlap.  Every check of a handler is made on a     *)
(* snapshot and its calls come later; with one request at a time nothing    *)
(* but the janitor, the app and time can come between, and all they do is   *)
(* take rules away.  The invariant says, at each place of a request, what   *)
(* its locals have to do with the store and the gateway, and what the store *)
(* will be when it commits.                                                 *)
(***************************************************************************)
EXTENDS RuleSyncProofs, FiniteSetTheorems

\* Requests that are served one at a time: one begins when none is running.
Begins   == \E h \in Handlers : Begin(h)
OneByOne == [][Begins => Quiet]_vars

Single == \A h, k \in Handlers : task[h].pc # "idle" /\ task[k].pc # "idle" => h = k

\* The profiles once request t has saved what it is about to.
Will(t) == PersistedProfiles(t)

\* The gateway id and the content a rule has when request t is done with it.
IdAfter(t, f)   == IF t.made[f] = None THEN rules[f].gw ELSE t.made[f]
BodyAfter(t, f) == IF t.kind = "RuleUpdate" THEN t.cur.rule.body ELSE rules[f].body

\* Request t still has to bring rule f to the gateway.
Replacing(t) == t.pc \in {"delete", "create"}
Pending(t, f) == (\E i \in t.work : i.rid = f) \/ (Replacing(t) /\ t.cur.rid = f)

\* If the traffic rule is there, it has this content.
Enforces(u, body, targets) ==
  gw[u] # None => gw[u] = [body |-> body, targets |-> targets]
Synced(f) == Enforces(rules[f].gw, rules[f].body, TargetsOf(profiles, rules[f].prof))

Disjoint(ps) ==
  \A p, q \in ProfileIds : p # q /\ ps[p] # None /\ ps[q] # None => ps[p] \intersect ps[q] = {}
Peopled(ps) == \A f \in Stored : TargetsOf(ps, rules[f].prof) # {}

\* What each kind of request is about.
KindOK(t) ==
  /\ t.pc = "idle" => t.kind = "none"
  /\ t.pc = "partial" => t.kind \in Retargeting
  /\ t.kind \notin Syncing => t.cover = {}
  /\ t.kind \notin Retargeting => t.upd = NoProfiles
  /\ t.kind = "RuleUpdate" => \A f, g \in t.cover : f = g

\* The profiles t will save are in order, and it rewrites the rules of each.
ProfilesOK(t) ==
  /\ \A f \in Stored : rules[f].prof # Everyone /\ t.upd[rules[f].prof] # None => f \in t.cover
  /\ Disjoint(Will(t))
  /\ Peopled(Will(t))

\* What a request remembers of a rule it rewrites is what is stored.
ItemOK(t, i) ==
  /\ i.rid \in t.cover
  /\ i.targets = TargetsOf(Will(t), i.rule.prof)
  /\ i.rid \in Stored =>
       /\ i.rule.gw = rules[i.rid].gw
       /\ i.rule.prof = rules[i.rid].prof
       /\ i.rule.pause = rules[i.rid].pause
       /\ t.kind \in Retargeting => i.rule.body = rules[i.rid].body

\* A rule is rewritten once, and the gateway has what was rewritten.
RewritesOK(t) ==
  t.kind \in Syncing =>
    /\ \A i \in t.work : ItemOK(t, i) /\ t.made[i.rid] = None
    /\ \A i, j \in t.work : i.rid = j.rid => i = j
    /\ t.cur # None => ItemOK(t, t.cur)
    /\ Replacing(t) => t.made[t.cur.rid] = None /\ \A i \in t.work : i.rid # t.cur.rid
    /\ \A f \in RuleIds : t.made[f] # None => f \in t.cover
    /\ t.pc = "commit" => t.work = {}
    /\ t.pc # "partial" =>
         \A f \in t.cover \intersect Stored :
           Pending(t, f) \/ Enforces(IdAfter(t, f), BodyAfter(t, f), TargetsOf(Will(t), rules[f].prof))

\* A rule is created for a profile that is there and has devices, and a pause
\* when there is none.
CreatesOK(t) ==
  t.kind \in Creating /\ t.cur # None =>
    /\ t.cur.rule.prof = t.prof
    /\ t.prof \in Known
    /\ t.cur.rule.pause = (t.kind \in Pausing)
    /\ t.cur.targets = TargetsOf(profiles, t.prof)
    /\ t.pc \in {"create", "commit"} =>
         /\ t.cur.targets # {}
         /\ t.kind \in Pausing => PausesOf(t.prof) = {}
    /\ t.pc = "commit" => Enforces(Written(t).gw, t.cur.rule.body, t.cur.targets)

SoloTask(t) == KindOK(t) /\ ProfilesOK(t) /\ RewritesOK(t) /\ CreatesOK(t)

\* A rule no request is at, and whose last save was no error, is enforced as it
\* is stored.
RestInSync ==
  \A f \in Stored \ told : (\A h \in Handlers : f \notin task[h].cover) => Synced(f)
PausesUnique ==
  \A f, g \in Stored :
    rules[f].pause /\ rules[g].pause /\ rules[f].prof = rules[g].prof => f = g

SoloState ==
  /\ Known \subseteq used \union {Everyone}
  /\ RulesHaveProfile
  /\ Disjoint(profiles)
  /\ Peopled(profiles)
  /\ PausesUnique
  /\ RestInSync

SoloOK  == Single /\ SoloState /\ \A h \in Handlers : SoloTask(task[h])
SoloInv == IdInv /\ SoloOK

-----------------------------------------------------------------------------
(* What the invariant says of a rule and of a slot.                         *)

LEMMA SoloTypes ==
  ASSUME SoloInv
  PROVE  TInv /\ TypeOK /\ Single /\ SoloState /\ \A h \in Handlers : SoloTask(task[h])
BY DEF SoloInv, SoloOK, IdInv, TInv

LEMMA ClaimUnique ==
  ASSUME IdInv, NEW f \in RuleIds, NEW g \in RuleIds, NEW u \in GwIds, Claim(f, u), Claim(g, u)
  PROVE  f = g
BY DEF IdInv, ClaimsOK

LEMMA ClaimUsed ==
  ASSUME IdInv, NEW f \in RuleIds, NEW u \in GwIds, Claim(f, u)
  PROVE  u \in used
BY DEF IdInv, OwnedOK, Owned

\* The id a rule has after a request is an id of that rule already.
LEMMA AfterClaims ==
  ASSUME TInv, NEW h \in Handlers, NEW f \in Stored
  PROVE  /\ IdAfter(task[h], f) \in GwIds
         /\ Claim(f, IdAfter(task[h], f))
<1>1. f \in RuleIds /\ rules[f].gw \in GwIds
  BY StoredType DEF TInv
<1>2. task[h].made[f] \in GwIds \union {None}
  BY <1>1, TaskType
<1>3. task[h].made[f] # None => Claim(f, task[h].made[f])
  BY <1>1, <1>2 DEF Claim, Holds
<1> QED BY <1>1, <1>2, <1>3, ClaimRules DEF IdAfter

\* A request that is running is the only one.
LEMMA OthersIdle ==
  ASSUME SoloInv, NEW h \in Handlers, task[h].pc # "idle", NEW k \in Handlers \ {h}
  PROVE  task[k].pc = "idle"
BY SoloTypes DEF Single

LEMMA IdleCover ==
  ASSUME SoloInv, NEW k \in Handlers, task[k].pc = "idle"
  PROVE  task[k].kind = "none" /\ task[k].cover = {} /\ task[k].upd = NoProfiles
BY SoloTypes DEF SoloTask, KindOK, Syncing, Retargeting

\* A rule the running request does not answer for is enforced as it is stored.
LEMMA Uncovered ==
  ASSUME SoloInv, NEW h \in Handlers, task[h].pc # "idle",
         NEW f \in Stored \ told, f \notin task[h].cover
  PROVE  Synced(f)
<1>1. \A k \in Handlers : f \notin task[k].cover
  BY OthersIdle, IdleCover
<1> QED BY <1>1, SoloTypes DEF SoloState, RestInSync

LEMMA PlainProfiles ==
  ASSUME TypeOK', SoloState', NEW h \in Handlers, task'[h].upd = NoProfiles
  PROVE  PersistedProfiles(task[h])' = profiles' /\ ProfilesOK(task[h])'
<1>1. PersistedProfiles(task[h])' = profiles'
  BY DEF PersistedProfiles, NoProfiles, TypeOK
<1>2. \A f \in Stored' : rules'[f].prof # Everyone => NoProfiles[rules'[f].prof] = None
  <2> SUFFICES ASSUME NEW f \in Stored', rules'[f].prof # Everyone
               PROVE  NoProfiles[rules'[f].prof] = None
    OBVIOUS
  <2>1. rules'[f].prof \in ProfileIds
    BY DEF SoloState, RulesHaveProfile, Known
  <2> QED BY <2>1 DEF NoProfiles
<1> QED BY <1>1, <1>2 DEF ProfilesOK, Will, SoloState

LEMMA IdleSolo ==
  ASSUME TypeOK', SoloState', NEW k \in Handlers, task'[k].pc = "idle", KindOK(task[k])'
  PROVE  SoloTask(task[k])'
<1>1. task'[k].kind = "none" /\ task'[k].upd = NoProfiles
  BY DEF KindOK, Retargeting
<1>2. RewritesOK(task[k])' /\ CreatesOK(task[k])'
  BY <1>1 DEF RewritesOK, CreatesOK, Syncing, Retargeting, Creating, Pausing
<1> QED BY <1>1, <1>2, PlainProfiles DEF SoloTask

\* A step of request h, while the other slots are idle.
LEMMA StepSolo ==
  ASSUME SoloInv, IdInv', SoloState', NEW h \in Handlers,
         \A k \in Handlers \ {h} : task[k].pc = "idle" /\ task'[k] = task[k],
         SoloTask(task[h])'
  PROVE  SoloOK'
<1>1. ASSUME NEW k \in Handlers \ {h}
      PROVE  SoloTask(task[k])'
  <2>1. KindOK(task[k])'
    BY SoloTypes DEF SoloTask, KindOK
  <2> QED BY <2>1, IdleSolo DEF IdInv, TInv
<1>2. Single'
  BY DEF Single
<1> QED BY <1>1, <1>2 DEF SoloOK

\* A step that answers request h.
LEMMA DoneSolo ==
  ASSUME SoloInv, IdInv', SoloState', NEW h \in Handlers, task[h].pc # "idle", Goto(h, Idle)
  PROVE  SoloOK'
<1>1. task' = [task EXCEPT ![h] = Idle] /\ task \in [Handlers -> Task]
  BY SoloTypes DEF Goto, TypeOK
<1>2. task'[h].pc = "idle" /\ KindOK(task[h])'
  BY <1>1 DEF Idle, Request, KindOK
<1>3. SoloTask(task[h])'
  BY <1>2, IdleSolo DEF IdInv, TInv
<1> QED BY <1>1, <1>3, OthersIdle, StepSolo

\* A step that leaves the store alone and changes no gateway rule but of rules
\* the running request answers for.
Aside(h) ==
  /\ rules' = rules /\ profiles' = profiles /\ used \subseteq used'
  /\ \A f \in Stored \ task[h].cover : gw'[rules[f].gw] \in {gw[rules[f].gw], None}

LEMMA AsideState ==
  ASSUME SoloInv, NEW h \in Handlers, task[h].pc # "idle", Aside(h),
         told \subseteq told', task[h].cover \subseteq task'[h].cover \union told'
  PROVE  SoloState'
<1>1. Stored' = Stored /\ Known' = Known
  BY DEF Aside, Stored, Known
<1>2. ASSUME NEW f \in Stored \ told', \A k \in Handlers : f \notin task'[k].cover
      PROVE  Synced(f)'
  <2>1. Synced(f)
    BY <1>2, Uncovered
  <2>2. gw'[rules[f].gw] \in {gw[rules[f].gw], None}
    BY <1>2 DEF Aside
  <2> QED BY <2>1, <2>2 DEF Aside, Synced, Enforces
<1>3. SoloState
  BY SoloTypes
<1> QED BY <1>1, <1>2, <1>3 DEF Aside, SoloState, RestInSync, RulesHaveProfile, Disjoint,
      Peopled, PausesUnique

\* A step of a request that goes on.
LEMMA MoveSolo ==
  ASSUME SoloInv, IdInv', NEW h \in Handlers, task[h].pc # "idle", Aside(h), told' = told,
         \A k \in Handlers \ {h} : task'[k] = task[k],
         task'[h].kind = task[h].kind, task'[h].cover = task[h].cover,
         task'[h].upd = task[h].upd, task'[h].pc # "idle",
         task'[h].pc = "partial" => task[h].kind \in Retargeting,
         RewritesOK(task[h])', CreatesOK(task[h])'
  PROVE  SoloOK'
<1>1. SoloState'
  BY AsideState
<1>2. KindOK(task[h])'
  BY SoloTypes DEF SoloTask, KindOK
<1>3. Stored' = Stored /\ Will(task[h])' = Will(task[h])
  BY DEF Aside, Stored, Will, PersistedProfiles
<1>4. ProfilesOK(task[h])'
  BY <1>3, SoloTypes DEF Aside, SoloTask, ProfilesOK, Disjoint, Peopled
<1> QED BY <1>1, <1>2, <1>4, OthersIdle, StepSolo DEF SoloTask

\* What a request remembers of a rule stays true while the store is the same.
LEMMA ItemKept ==
  ASSUME NEW h \in Handlers, Aside(h), task'[h].kind = task[h].kind,
         task'[h].cover = task[h].cover, task'[h].upd = task[h].upd, NEW i, ItemOK(task[h], i)
  PROVE  ItemOK(task[h], i)'
<1>1. Stored' = Stored /\ Will(task[h])' = Will(task[h])
  BY DEF Aside, Stored, Will, PersistedProfiles
<1> QED BY <1>1 DEF Aside, ItemOK

\* A step at which request h fails.
LEMMA FailSolo ==
  ASSUME SoloInv, IdInv', NEW h \in Handlers, task[h].pc # "idle", Aside(h), Failed(h)
  PROVE  SoloOK'
<1>t. task \in [Handlers -> Task] /\ task[h] \in Task
  BY SoloTypes, TaskType DEF TypeOK
<1>1. CASE AnswerError(h)
  <2>1. SoloState'
    BY <1>1, AsideState DEF AnswerError
  <2> QED BY <1>1, <2>1, DoneSolo DEF AnswerError
<1>2. CASE /\ task[h].kind \in Retargeting
           /\ Goto(h, [task[h] EXCEPT !.pc = "partial"]) /\ told' = told
  <2>1. /\ task'[h].pc = "partial"
        /\ task'[h].kind = task[h].kind /\ task'[h].cover = task[h].cover
        /\ task'[h].upd = task[h].upd /\ task'[h].work = task[h].work
        /\ task'[h].cur = task[h].cur /\ task'[h].made = task[h].made
        /\ \A k \in Handlers \ {h} : task'[k] = task[k]
    BY <1>2, <1>t DEF Goto, Task
  <2>2. RewritesOK(task[h])'
    <3>1. RewritesOK(task[h])
      BY SoloTypes DEF SoloTask
    <3>2. task[h].kind \in Syncing
      BY <1>2 DEF Syncing
    <3>3. ~Replacing(task[h])'
      BY <2>1 DEF Replacing
    <3> QED BY <2>1, <3>1, <3>2, <3>3, ItemKept DEF RewritesOK
  <2>3. CreatesOK(task[h])'
    BY <1>2, <2>1 DEF CreatesOK, Creating, Pausing, Retargeting
  <2> QED BY <1>2, <2>1, <2>2, <2>3, MoveSolo
<1> QED BY <1>1, <1>2 DEF Failed

-----------------------------------------------------------------------------
(* A request begins.                                                        *)

\* A request that begins finds every rule enforced that was not left in error.
LEMMA StartState ==
  ASSUME SoloInv, Quiet, NEW h \in Handlers, NEW t, Start(h, t), used \subseteq used'
  PROVE  SoloState'
<1>1. \A f \in Stored \ told : Synced(f)
  BY IdleCover, SoloTypes DEF Quiet, SoloState, RestInSync
<1>2. UNCHANGED <<rules, profiles, gw, told>> /\ Stored' = Stored /\ Known' = Known
  BY DEF Start, Stored, Known
<1>3. \A f \in Stored' \ told' : Synced(f)'
  BY <1>1, <1>2 DEF Synced, Enforces
<1>4. SoloState
  BY SoloTypes
<1> QED BY <1>2, <1>3, <1>4 DEF SoloState, RestInSync, RulesHaveProfile, Disjoint,
      Peopled, PausesUnique

LEMMA StartSolo ==
  ASSUME SoloInv, IdInv', Quiet, NEW h \in Handlers, NEW t, Start(h, t), used \subseteq used',
         SoloTask(task[h])'
  PROVE  SoloOK'
<1>1. task' = [task EXCEPT ![h] = t] /\ task \in [Handlers -> Task]
  BY SoloTypes DEF Start, TypeOK
<1>2. \A k \in Handlers \ {h} : task[k].pc = "idle" /\ task'[k] = task[k]
  BY <1>1 DEF Quiet
<1> QED BY <1>2, StartState, StepSolo

\* A request that rewrites nothing.
LEMMA StartPlain ==
  ASSUME SoloInv, IdInv', Quiet, NEW h \in Handlers, NEW t, Start(h, t), used \subseteq used',
         t.kind \notin Syncing, t.pc \notin {"idle", "partial"}, t.cover = {}, t.upd = NoProfiles,
         CreatesOK(task[h])'
  PROVE  SoloOK'
<1>1. task' = [task EXCEPT ![h] = t] /\ task \in [Handlers -> Task]
  BY SoloTypes DEF Start, TypeOK
<1>2. KindOK(task[h])'
  BY <1>1 DEF KindOK, Syncing
<1>3. RewritesOK(task[h])'
  BY <1>1 DEF RewritesOK
<1>4. ProfilesOK(task[h])'
  BY <1>1, StartState, PlainProfiles DEF IdInv, TInv
<1> QED BY <1>2, <1>3, <1>4, StartSolo DEF SoloTask

\* A request that makes a rule.
LEMMA StartMaking ==
  ASSUME SoloInv, IdInv', Quiet, NEW h \in Handlers, NEW kind \in Creating, NEW p \in Known,
         NEW f \in RuleIds, NEW b \in Bodies, NEW pc, used' = used \union {f},
         pc = "clear" \/ (pc = "create" /\ kind \notin Pausing /\ TargetsOf(profiles, p) # {}),
         Start(h, [Request(kind, pc, p) EXCEPT !.cur = NewItem(f, p, b, kind \in Pausing)])
  PROVE  SoloOK'
<1> DEFINE t == [Request(kind, pc, p) EXCEPT !.cur = NewItem(f, p, b, kind \in Pausing)]
<1>1. /\ t.kind = kind /\ t.pc = pc /\ t.cover = {} /\ t.upd = NoProfiles /\ t.prof = p
      /\ t.cur = NewItem(f, p, b, kind \in Pausing)
  BY DEF Request
<1>2. Start(h, t)
  OBVIOUS
<1> HIDE DEF t
<1>3. task' = [task EXCEPT ![h] = t] /\ task \in [Handlers -> Task]
  BY <1>2, SoloTypes DEF Start, TypeOK
<1>4. profiles' = profiles /\ Known' = Known
  BY <1>2 DEF Start, Known
<1>5. CreatesOK(task[h])'
  BY <1>1, <1>3, <1>4 DEF CreatesOK, NewItem, TargetsOf
<1>6. kind \notin Syncing
  BY DEF Creating, Pausing, Syncing, Retargeting
<1> QED BY <1>1, <1>2, <1>5, <1>6, StartPlain

\* A request that rewrites the rules of cover has them all before it.
LEMMA StartRewrites ==
  ASSUME NEW h \in Handlers, task'[h].kind \in Syncing, task'[h].pc \in {"put", "commit"},
         task'[h].cur = None, task'[h].made = NoneMade,
         task'[h].work \subseteq Item,
         task'[h].pc = "commit" => task'[h].work = {},
         \A i \in task'[h].work : ItemOK(task[h], i)',
         \A i, j \in task'[h].work : i.rid = j.rid => i = j,
         \A f \in task'[h].cover : \E i \in task'[h].work : i.rid = f
  PROVE  RewritesOK(task[h])' /\ CreatesOK(task[h])'
<1>1. \A i \in task'[h].work : i.rid \in RuleIds
  BY DEF Item
<1>2. \A f \in RuleIds : task'[h].made[f] = None
  BY DEF NoneMade
<1> QED BY <1>1, <1>2 DEF RewritesOK, Pending, Replacing, CreatesOK

LEMMA RetargetSolo ==
  ASSUME SoloInv, IdInv', Quiet, NEW h \in Handlers, NEW kind \in Retargeting, NEW p,
         NEW upd \in [ProfileIds -> Groups], Retarget(h, kind, p, upd),
         \A a, b \in ProfileIds : a # b /\ profiles[a] # None /\ profiles[b] # None =>
           (IF upd[a] # None THEN upd[a] ELSE profiles[a])
             \intersect (IF upd[b] # None THEN upd[b] ELSE profiles[b]) = {}
  PROVE  SoloOK'
<1> DEFINE F == UNION {RulesOf(q) : q \in {q \in ProfileIds : upd[q] # None}}
           pc == IF F = {} THEN "commit" ELSE "put"
           t == [Request(kind, pc, p) EXCEPT !.upd = upd, !.work = WorkOf(F, upd), !.cover = F]
           W == [q \in ProfileIds |-> IF profiles[q] # None /\ upd[q] # None THEN upd[q]
                                      ELSE profiles[q]]
<1>1. Start(h, t) /\ used' = used /\ KeepsADevice(upd)
  BY DEF Retarget
<1>2. /\ t.kind = kind /\ t.pc = pc /\ t.cur = None /\ t.made = NoneMade
      /\ t.cover = F /\ t.work = WorkOf(F, upd) /\ t.upd = upd
  <2> HIDE DEF F, pc
  <2> QED BY DEF Request
<1>3. pc \in {"put", "commit"} /\ (pc = "commit" => F = {})
  OBVIOUS
<1> HIDE DEF t, pc
<1>4. task' = [task EXCEPT ![h] = t] /\ UNCHANGED <<rules, profiles>> /\ Stored' = Stored
  BY <1>1 DEF Start, Stored
<1>5. task'[h] = t
  BY <1>4, SoloTypes DEF TypeOK
<1>6. \A f \in Stored : rules[f].prof # Everyone =>
        /\ rules[f].prof \in ProfileIds /\ profiles[rules[f].prof] # None
        /\ upd[rules[f].prof] # None => f \in F
  BY SoloTypes DEF SoloState, RulesHaveProfile, Known, RulesOf
<1>7. \A f \in F : /\ f \in Stored /\ rules[f].prof \in ProfileIds
                   /\ rules[f].prof # Everyone /\ upd[rules[f].prof] # None
  BY OwnersAssumption DEF RulesOf
<1> HIDE DEF F
<1>8. Will(task[h])' = W
  BY <1>2, <1>4, <1>5 DEF Will, PersistedProfiles
<1>9. KindOK(task[h])'
  BY <1>2, <1>3, <1>5 DEF KindOK, Syncing, Retargeting
<1>10. ProfilesOK(task[h])'
  <2>1. \A f \in Stored : rules[f].prof # Everyone /\ upd[rules[f].prof] # None => f \in F
    BY <1>6
  <2>2. Disjoint(W)
    BY DEF Disjoint, W
  <2>3. ASSUME NEW f \in Stored
        PROVE  TargetsOf(W, rules[f].prof) # {}
    <3>1. CASE rules[f].prof = Everyone
      BY <3>1 DEF TargetsOf
    <3>2. CASE rules[f].prof # Everyone
      <4>1. TargetsOf(profiles, rules[f].prof) # {}
        BY SoloTypes DEF SoloState, Peopled
      <4>2. upd[rules[f].prof] # {}
        BY <1>1, <1>6, <3>2 DEF KeepsADevice, RulesOf
      <4> QED BY <1>6, <3>2, <4>1, <4>2 DEF TargetsOf
    <3> QED BY <3>1, <3>2
  <2> QED BY <1>2, <1>4, <1>5, <1>8, <2>1, <2>2, <2>3 DEF ProfilesOK, Peopled, Disjoint
<1>11. \A i \in WorkOf(F, upd) : i.rid \in F /\ i.rule = rules[i.rid]
                                 /\ i.targets = TargetsOf(upd, rules[i.rid].prof)
  BY DEF WorkOf
<1>12. \A i, j \in WorkOf(F, upd) : i.rid = j.rid => i = j
  BY DEF WorkOf
<1>13. ASSUME NEW f \in F
       PROVE  \E i \in WorkOf(F, upd) : i.rid = f
  <2>1. [rid |-> f, rule |-> rules[f], targets |-> TargetsOf(upd, rules[f].prof)] \in WorkOf(F, upd)
    BY DEF WorkOf
  <2> QED BY <2>1
<1>14. ASSUME NEW i \in t.work
       PROVE  ItemOK(task[h], i)'
  <2>1. i.rid \in F /\ i.rule = rules[i.rid] /\ i.targets = TargetsOf(upd, rules[i.rid].prof)
    BY <1>2, <1>11
  <2>2. TargetsOf(upd, rules[i.rid].prof) = TargetsOf(W, rules[i.rid].prof)
    BY <1>6, <1>7, <2>1 DEF TargetsOf
  <2> QED BY <1>2, <1>4, <1>5, <1>8, <2>1, <2>2 DEF ItemOK
<1>15. t.work \subseteq Item /\ (F = {} => t.work = {})
  BY <1>2, <1>5, TaskType DEF IdInv, TInv, TypeOK, Task, WorkOf
<1>16. RewritesOK(task[h])' /\ CreatesOK(task[h])'
  BY <1>2, <1>3, <1>5, <1>12, <1>13, <1>14, <1>15, StartRewrites DEF Syncing
<1> QED BY <1>1, <1>9, <1>10, <1>16, StartSolo DEF SoloTask

LEMMA UpdateSolo ==
  ASSUME SoloInv, IdInv', Quiet, NEW h \in Handlers, RuleUpdate(h)
  PROVE  SoloOK'
<1> DEFINE it(f, b) == [rid |-> f, rule |-> [rules[f] EXCEPT !.body = b],
                        targets |-> TargetsOf(profiles, rules[f].prof)]
           t(f, b) == [Request("RuleUpdate", "put", rules[f].prof)
                         EXCEPT !.work = {it(f, b)}, !.cover = {f}]
<1>1. PICK f \in Stored, b \in Bodies : Start(h, t(f, b)) /\ used' = used
  BY DEF RuleUpdate
<1>2. /\ t(f, b).kind = "RuleUpdate" /\ t(f, b).pc = "put" /\ t(f, b).cur = None
      /\ t(f, b).made = NoneMade /\ t(f, b).cover = {f} /\ t(f, b).work = {it(f, b)}
      /\ t(f, b).upd = NoProfiles
  <2> HIDE DEF it
  <2> QED BY DEF Request
<1> HIDE DEF t
<1>3. task' = [task EXCEPT ![h] = t(f, b)] /\ UNCHANGED <<rules, profiles>> /\ Stored' = Stored
  BY <1>1 DEF Start, Stored
<1>4. task'[h] = t(f, b)
  BY <1>3, SoloTypes DEF TypeOK
<1>5. KindOK(task[h])'
  BY <1>2, <1>4 DEF KindOK, Syncing, Retargeting
<1>6. ProfilesOK(task[h])' /\ Will(task[h])' = profiles
  BY <1>1, <1>2, <1>3, <1>4, StartState, PlainProfiles DEF IdInv, TInv, Will
<1>7. /\ it(f, b).rid = f /\ it(f, b).rule.gw = rules[f].gw /\ it(f, b).rule.prof = rules[f].prof
      /\ it(f, b).rule.pause = rules[f].pause
      /\ it(f, b).targets = TargetsOf(profiles, rules[f].prof)
  BY StoredType, SoloTypes DEF Rule
<1> HIDE DEF it
<1>8. PICK i : i = it(f, b)
  OBVIOUS
<1>9. ItemOK(task[h], i)'
  BY <1>2, <1>3, <1>4, <1>6, <1>7, <1>8 DEF ItemOK, Retargeting
<1>10. task'[h].work \subseteq Item
  BY TaskType DEF IdInv, TInv, TypeOK, Task
<1>11. RewritesOK(task[h])' /\ CreatesOK(task[h])'
  BY <1>2, <1>4, <1>7, <1>8, <1>10, <1>9, StartRewrites DEF Syncing
<1> QED BY <1>1, <1>5, <1>6, <1>11, StartSolo DEF SoloTask

LEMMA ProfileCreateSolo ==
  ASSUME SoloInv, IdInv', Quiet, NEW h \in Handlers, ProfileCreate(h)
  PROVE  SoloOK'
<1>1. PICK p \in ProfileIds \ used, devs \in SUBSET Devices :
        /\ Assignable(p, devs)
        /\ profiles' = [profiles EXCEPT ![p] = devs]
        /\ used' = used \union {p}
  BY DEF ProfileCreate
<1>2. UNCHANGED <<rules, gw, task, told>> /\ Stored' = Stored
  BY DEF ProfileCreate, Stored
<1>t. profiles \in [ProfileIds -> Groups] /\ SoloState
  BY SoloTypes DEF TypeOK
<1>3. profiles[p] = None /\ devs # None
  BY <1>t, OwnersAssumption, NoneAssumption DEF SoloState, Known
<1>4. \A f \in Stored : TargetsOf(profiles', rules[f].prof) = TargetsOf(profiles, rules[f].prof)
                        /\ rules[f].prof \in Known'
  BY <1>1, <1>3, <1>t DEF SoloState, RulesHaveProfile, Known, TargetsOf
<1>5. Known' \subseteq Known \union {p}
  BY <1>1, <1>t DEF Known
<1>6. Disjoint(profiles')
  BY <1>1, <1>t DEF Disjoint, SoloState, Assignable
<1>7. Peopled(profiles)'
  BY <1>2, <1>4, <1>t DEF SoloState, Peopled
<1>8. RestInSync'
  <2>1. \A f \in Stored \ told : Synced(f)
    BY <1>t, IdleCover DEF Quiet, SoloState, RestInSync
  <2> QED BY <1>2, <1>4, <2>1 DEF RestInSync, Synced, Enforces
<1>9. SoloState'
  BY <1>1, <1>2, <1>4, <1>5, <1>6, <1>7, <1>8, <1>t
     DEF SoloState, RulesHaveProfile, PausesUnique, Disjoint
<1>10. ASSUME NEW k \in Handlers
       PROVE  SoloTask(task[k])'
  <2>1. KindOK(task[k])' /\ task'[k].pc = "idle"
    BY <1>2, SoloTypes DEF SoloTask, KindOK, Quiet
  <2> QED BY <1>9, <2>1, IdleSolo DEF IdInv, TInv
<1>11. Single'
  BY <1>2 DEF Quiet, Single
<1> QED BY <1>9, <1>10, <1>11 DEF SoloOK

\* Where a device goes, it leaves the one group it was in.
LEMMA MovedDisjoint ==
  ASSUME SoloInv, NEW p \in Known \ {Everyone}, NEW m \in Devices,
         NEW from \in SUBSET (Known \ {Everyone}),
         OwnersOf(m) \ {p} = {} \/ \E q \in OwnersOf(m) \ {p} : from = {q},
         NEW a \in ProfileIds, NEW b \in ProfileIds, a # b, profiles[a] # None, profiles[b] # None
  PROVE  (IF Moved(m, p, from)[a] # None THEN Moved(m, p, from)[a] ELSE profiles[a])
           \intersect (IF Moved(m, p, from)[b] # None THEN Moved(m, p, from)[b] ELSE profiles[b]) = {}
<1> DEFINE after(q) == IF Moved(m, p, from)[q] # None THEN Moved(m, p, from)[q] ELSE profiles[q]
<1>1. Disjoint(profiles) /\ profiles \in [ProfileIds -> Groups]
  BY SoloTypes DEF SoloState, TypeOK
<1>2. \A q \in ProfileIds : profiles[q] # None => profiles[q] \in SUBSET Devices
  BY <1>1 DEF Groups
<1>3. \A q \in ProfileIds : profiles[q] # None /\ q # p /\ m \in profiles[q] => q \in from
  BY <1>1, OwnersAssumption DEF Disjoint, OwnersOf, Known
<1>4. ASSUME NEW q \in ProfileIds, profiles[q] # None
      PROVE  /\ q = p => after(q) \subseteq profiles[q] \union {m}
             /\ q # p => after(q) \subseteq profiles[q] \ {m}
  <2>1. Moved(m, p, from)[q] = IF q = p THEN profiles[q] \union {m}
                               ELSE IF q \in from THEN profiles[q] \ {m} ELSE None
    BY DEF Moved
  <2>2. profiles[q] \ {m} # None
    BY <1>2, <1>4, NoneAssumption
  <2>3. CASE q = p
    BY <2>1, <2>3
  <2>4. CASE q # p /\ q \in from
    BY <2>1, <2>2, <2>4
  <2>5. CASE q # p /\ q \notin from
    <3>1. after(q) = profiles[q] /\ m \notin profiles[q]
      BY <1>3, <1>4, <2>1, <2>5
    <3> HIDE DEF after
    <3> QED BY <2>5, <3>1
  <2> QED BY <2>3, <2>4, <2>5
<1>5. profiles[a] \intersect profiles[b] = {}
  BY <1>1 DEF Disjoint
<1>6. after(a) \intersect after(b) = {}
  <2> HIDE DEF after
  <2> QED BY <1>4, <1>5
<1> QED BY <1>6

LEMMA BeginSolo ==
  ASSUME SoloInv, IdInv', Quiet, NEW h \in Handlers, Begin(h)
  PROVE  SoloOK'
<1>t. /\ {"RuleCreate", "Pause", "Grant"} \subseteq Creating
      /\ "RuleCreate" \notin Pausing /\ {"Pause", "Grant"} \subseteq Pausing
      /\ {"ProfileUpdate", "Enroll"} = Retargeting
      /\ {"RuleDelete", "ProfileDelete", "Unpause", "Grant"} \intersect Syncing = {}
      /\ {"RuleDelete", "ProfileDelete", "Unpause"} \intersect Creating = {}
      /\ Timed \subseteq Bodies
  BY TimedAssumption DEF Creating, Pausing, Retargeting, Syncing
<1>1. CASE RuleCreate(h)
  <2>1. PICK p \in Known, b \in Bodies, f \in RuleIds :
          /\ TargetsOf(profiles, p) # {} /\ used' = used \union {f}
          /\ Start(h, [Request("RuleCreate", "create", p)
                         EXCEPT !.cur = NewItem(f, p, b, FALSE)])
    BY <1>1 DEF RuleCreate
  <2>2. FALSE = ("RuleCreate" \in Pausing)
    BY <1>t
  <2> QED BY <1>t, <2>1, <2>2, StartMaking
<1>2. CASE RuleUpdate(h)
  BY <1>2, UpdateSolo
<1>3. CASE RuleDelete(h)
  <2> DEFINE it(f) == [rid |-> f, rule |-> rules[f], targets |-> {}]
             t(f) == [Request("RuleDelete", "delete", rules[f].prof)
                        EXCEPT !.cur = it(f), !.todo = IdsOf({f})]
  <2>1. PICK f \in Stored : Start(h, t(f)) /\ used' = used
    BY <1>3 DEF RuleDelete
  <2>2. t(f).kind = "RuleDelete" /\ t(f).pc = "delete" /\ t(f).cover = {} /\ t(f).upd = NoProfiles
    <3> HIDE DEF it
    <3> QED BY DEF Request
  <2> HIDE DEF t
  <2>3. task'[h] = t(f)
    BY <2>1, SoloTypes DEF Start, TypeOK
  <2>4. CreatesOK(task[h])'
    BY <1>t, <2>2, <2>3 DEF CreatesOK
  <2> QED BY <1>t, <2>1, <2>2, <2>4, StartPlain
<1>4. CASE ProfileCreate(h)
  BY <1>4, ProfileCreateSolo
<1>5. CASE ProfileUpdate(h)
  <2>1. PICK p \in Known \ {Everyone}, devs \in SUBSET Devices :
          /\ Assignable(p, devs)
          /\ Retarget(h, "ProfileUpdate", p, [NoProfiles EXCEPT ![p] = devs])
    BY <1>5 DEF ProfileUpdate
  <2> DEFINE upd == [NoProfiles EXCEPT ![p] = devs]
  <2>2. upd \in [ProfileIds -> Groups]
    BY DEF NoProfiles, Groups
  <2>3. /\ upd[p] = devs /\ devs # None /\ p \in ProfileIds
        /\ \A q \in ProfileIds \ {p} : upd[q] = None
    BY NoneAssumption DEF NoProfiles, Known
  <2> HIDE DEF upd
  <2>4. ASSUME NEW a \in ProfileIds, NEW b \in ProfileIds,
               a # b, profiles[a] # None, profiles[b] # None
        PROVE  (IF upd[a] # None THEN upd[a] ELSE profiles[a])
                 \intersect (IF upd[b] # None THEN upd[b] ELSE profiles[b]) = {}
    BY <2>1, <2>3, <2>4, SoloTypes DEF Assignable, SoloState, Disjoint
  <2>5. Retarget(h, "ProfileUpdate", p, upd)
    BY <2>1 DEF upd
  <2> QED BY <1>t, <2>2, <2>4, <2>5, RetargetSolo
<1>6. CASE Enroll(h)
  <2>1. PICK p \in Known \ {Everyone}, m \in Devices, from \in SUBSET (Known \ {Everyone}) :
          /\ OwnersOf(m) \ {p} = {} \/ \E q \in OwnersOf(m) \ {p} : from = {q}
          /\ Retarget(h, "Enroll", p, Moved(m, p, from))
    BY <1>6 DEF Enroll, OwnersOf
  <2>2. \A q \in Known \ {Everyone} : q \in ProfileIds /\ profiles[q] \in SUBSET Devices
    BY KnownType, SoloTypes DEF TypeOK, Groups
  <2>3. Moved(m, p, from) \in [ProfileIds -> Groups]
    BY <2>2 DEF Moved, Groups
  <2>4. \A a, b \in ProfileIds : a # b /\ profiles[a] # None /\ profiles[b] # None =>
          (IF Moved(m, p, from)[a] # None THEN Moved(m, p, from)[a] ELSE profiles[a])
            \intersect (IF Moved(m, p, from)[b] # None THEN Moved(m, p, from)[b] ELSE profiles[b]) = {}
    BY <2>1, MovedDisjoint
  <2> QED BY <1>t, <2>1, <2>3, <2>4, RetargetSolo
<1>7. CASE ProfileDelete(h)
  <2> DEFINE pc(p) == IF IdsOf(RulesOf(p)) = {} THEN "drop" ELSE "delete"
             t(p) == [Request("ProfileDelete", pc(p), p) EXCEPT !.todo = IdsOf(RulesOf(p))]
  <2>1. PICK p : Start(h, t(p)) /\ used' = used
    BY <1>7 DEF ProfileDelete
  <2>2. pc(p) \in {"drop", "delete"}
    OBVIOUS
  <2> HIDE DEF pc
  <2>3. t(p).kind = "ProfileDelete" /\ t(p).pc = pc(p) /\ t(p).cover = {} /\ t(p).upd = NoProfiles
    BY DEF Request
  <2> HIDE DEF t
  <2>4. task'[h] = t(p)
    BY <2>1, SoloTypes DEF Start, TypeOK
  <2>5. CreatesOK(task[h])'
    BY <1>t, <2>3, <2>4 DEF CreatesOK
  <2> QED BY <1>t, <2>1, <2>2, <2>3, <2>5, StartPlain
<1>8. CASE Pause(h)
  <2>1. PICK p \in Known, b \in Bodies, f \in RuleIds :
          /\ used' = used \union {f}
          /\ Start(h, [Request("Pause", "clear", p) EXCEPT !.cur = NewItem(f, p, b, TRUE)])
    BY <1>8 DEF Pause
  <2>2. TRUE = ("Pause" \in Pausing)
    BY <1>t
  <2> QED BY <1>t, <2>1, <2>2, StartMaking
<1>9. CASE Unpause(h)
  <2>1. PICK p : Start(h, Request("Unpause", "clear", p)) /\ used' = used
    BY <1>9 DEF Unpause
  <2>2. LET t == Request("Unpause", "clear", p)
        IN  t.kind = "Unpause" /\ t.pc = "clear" /\ t.cover = {} /\ t.upd = NoProfiles
    BY DEF Request
  <2>3. task'[h] = Request("Unpause", "clear", p)
    BY <2>1, SoloTypes DEF Start, TypeOK
  <2>4. CreatesOK(task[h])'
    BY <1>t, <2>2, <2>3 DEF CreatesOK
  <2> QED BY <1>t, <2>1, <2>2, <2>4, StartPlain
<1>10. CASE Grant(h)
  <2>1. CASE \E p \in Known : Start(h, Request("Grant", "clear", p)) /\ used' = used
    <3>1. PICK p : Start(h, Request("Grant", "clear", p)) /\ used' = used
      BY <2>1
    <3>2. LET t == Request("Grant", "clear", p)
          IN  /\ t.kind = "Grant" /\ t.pc = "clear" /\ t.cover = {} /\ t.upd = NoProfiles
              /\ t.cur = None
      BY DEF Request
    <3>3. task'[h] = Request("Grant", "clear", p)
      BY <3>1, SoloTypes DEF Start, TypeOK
    <3>4. CreatesOK(task[h])'
      BY <3>2, <3>3 DEF CreatesOK
    <3> QED BY <1>t, <3>1, <3>2, <3>4, StartPlain
  <2>2. CASE \E p \in Known, b \in Timed, f \in RuleIds :
               /\ used' = used \union {f}
               /\ Start(h, [Request("Grant", "clear", p) EXCEPT !.cur = NewItem(f, p, b, TRUE)])
    <3>1. PICK p \in Known, b \in Timed, f \in RuleIds :
               /\ used' = used \union {f}
               /\ Start(h, [Request("Grant", "clear", p) EXCEPT !.cur = NewItem(f, p, b, TRUE)])
      BY <2>2
    <3>2. TRUE = ("Grant" \in Pausing)
      BY <1>t
    <3> QED BY <1>t, <3>1, <3>2, StartMaking
  <2> QED BY <1>10, <2>1, <2>2 DEF Grant
<1> QED BY <1>1, <1>2, <1>3, <1>4, <1>5, <1>6, <1>7, <1>8, <1>9, <1>10 DEF Begin

-----------------------------------------------------------------------------
(* The steps of a request at the gateway.                                   *)

LEMMA ClearSolo ==
  ASSUME SoloInv, IdInv', NEW h \in Handlers, Clear(h)
  PROVE  SoloOK'
<1> DEFINE t == [task[h] EXCEPT !.pc = "delete", !.todo = IdsOf(PausesOf(task[h].prof))]
           n == AfterDelete(t)
<1>1. /\ task[h].pc = "clear" /\ Goto(h, n) /\ UNCHANGED <<gw, used, rules, profiles, told>>
      /\ task[h] \in Task /\ TInv /\ task[h].kind \notin Syncing
  BY TaskType, SoloTypes DEF Clear, Shape
<1>2. IdsOf(PausesOf(task[h].prof)) \subseteq GwIds
  BY IdsType, SoloTypes DEF PausesOf, RulesOf
<1>3. /\ t \in Task /\ t.kind = task[h].kind /\ t.cover = task[h].cover /\ t.upd = task[h].upd
      /\ t.cur = task[h].cur /\ t.pc = "delete"
  BY <1>1, <1>2 DEF Task, Steps
<1> HIDE DEF t
<1>4. /\ n.kind = task[h].kind /\ n.cover = task[h].cover /\ n.upd = task[h].upd
      /\ n.pc \in {"delete", "drop"} /\ n.prof = t.prof /\ n.cur = task[h].cur
  BY <1>1, <1>3, AfterFields
<1>p. t.prof = task[h].prof
  BY <1>1 DEF t, Task
<1> HIDE DEF n
<1>5. task'[h] = n /\ \A k \in Handlers \ {h} : task'[k] = task[k]
  BY <1>1, GotoFields
<1>6. RewritesOK(task[h])'
  BY <1>1, <1>4, <1>5 DEF RewritesOK
<1>7. CreatesOK(task[h])'
  BY <1>1, <1>p, <1>4, <1>5, SoloTypes DEF SoloTask, CreatesOK, Known
<1> QED BY <1>1, <1>4, <1>5, <1>6, <1>7, MoveSolo DEF Aside

\* What a gateway step does to the rules of a request that are already there.
LEMMA RewritesKept ==
  ASSUME SoloInv, NEW h \in Handlers, Aside(h), task[h].kind \in Syncing,
         task'[h].kind = task[h].kind, task'[h].cover = task[h].cover,
         task'[h].upd = task[h].upd, task'[h].work \subseteq task[h].work,
         task'[h].cur # None => ItemOK(task[h], task'[h].cur),
         \A i \in task'[h].work : task'[h].made[i.rid] = None,
         Replacing(task[h])' => /\ task'[h].made[task'[h].cur.rid] = None
                                /\ \A i \in task'[h].work : i.rid # task'[h].cur.rid,
         \A f \in RuleIds : task'[h].made[f] # None => f \in task[h].cover,
         task'[h].pc = "commit" => task'[h].work = {},
         \A f \in task[h].cover \intersect Stored :
           Pending(task[h], f)' \/ Enforces(IdAfter(task[h], f), BodyAfter(task[h], f),
                                            TargetsOf(Will(task[h]), rules[f].prof))'
  PROVE  RewritesOK(task[h])'
<1>1. RewritesOK(task[h])
  BY SoloTypes DEF SoloTask
<1>2. \A i \in task'[h].work : ItemOK(task[h], i)'
  BY <1>1, ItemKept DEF RewritesOK
<1>3. task'[h].cur # None => ItemOK(task[h], task[h].cur)'
  <2> SUFFICES ASSUME task'[h].cur # None PROVE ItemOK(task[h], task[h].cur)'
    OBVIOUS
  <2>1. PICK i : i = task'[h].cur
    OBVIOUS
  <2>2. ItemOK(task[h], i)'
    BY <2>1, ItemKept
  <2> QED BY <2>1, <2>2 DEF ItemOK
<1>4. Stored' = Stored
  BY DEF Aside, Stored
<1> QED BY <1>1, <1>2, <1>3, <1>4 DEF RewritesOK

\* A rule whose gateway rule is the same, or gone, is enforced as before.
LEMMA EnforcesKept ==
  ASSUME SoloInv, NEW h \in Handlers, Aside(h), NEW f \in Stored,
         task'[h].kind = task[h].kind, task'[h].upd = task[h].upd,
         task'[h].made[f] = task[h].made[f],
         task[h].kind = "RuleUpdate" => task'[h].cur.rule.body = task[h].cur.rule.body,
         gw'[IdAfter(task[h], f)] \in {gw[IdAfter(task[h], f)], None},
         Enforces(IdAfter(task[h], f), BodyAfter(task[h], f), TargetsOf(Will(task[h]), rules[f].prof))
  PROVE  Enforces(IdAfter(task[h], f), BodyAfter(task[h], f),
                  TargetsOf(Will(task[h]), rules[f].prof))'
<1>1. /\ IdAfter(task[h], f)' = IdAfter(task[h], f)
      /\ BodyAfter(task[h], f)' = BodyAfter(task[h], f)
      /\ Will(task[h])' = Will(task[h])
  BY DEF Aside, IdAfter, BodyAfter, Will, PersistedProfiles
<1> QED BY <1>1 DEF Enforces, Aside

LEMMA DeleteSolo ==
  ASSUME SoloInv, IdInv', NEW h \in Handlers, Delete(h)
  PROVE  SoloOK'
<1> DEFINE t(v) == [task[h] EXCEPT !.todo = @ \ {v}]
           n(v) == AfterDelete(t(v))
<1>1. PICK v \in task[h].todo :
        gw' = Gone(v) /\ Goto(h, n(v)) /\ UNCHANGED <<rules, profiles, used, told>>
  BY DEF Delete
<1>2. /\ task[h].pc = "delete" /\ task[h] \in Task /\ TInv
      /\ gw \in [GwIds -> GwRule \union {Foreign, None}]
  BY TaskType, SoloTypes DEF Delete, TypeOK
<1>3. /\ t(v) \in Task /\ t(v).kind = task[h].kind /\ t(v).cover = task[h].cover
      /\ t(v).upd = task[h].upd /\ t(v).cur = task[h].cur /\ t(v).pc = "delete"
      /\ t(v).work = task[h].work /\ t(v).made = task[h].made /\ t(v).prof = task[h].prof
  BY <1>2 DEF Task
<1> HIDE DEF t
<1>4. /\ n(v).kind = task[h].kind /\ n(v).cover = task[h].cover /\ n(v).upd = task[h].upd
      /\ n(v).cur = task[h].cur /\ n(v).work = task[h].work /\ n(v).made = task[h].made
      /\ n(v).prof = task[h].prof
      /\ n(v).pc \in {"delete", IF task[h].kind \in Syncing THEN "create" ELSE "drop"}
  BY <1>3, AfterFields
<1> HIDE DEF n
<1>5. task'[h] = n(v) /\ \A k \in Handlers \ {h} : task'[k] = task[k]
  BY <1>1, <1>2, GotoFields
<1>6. \A u \in GwIds : gw'[u] \in {gw[u], None}
  BY <1>1, <1>2 DEF Gone
<1>7. Aside(h)
  BY <1>1, <1>6, StoredType, SoloTypes DEF Aside
<1>8. RewritesOK(task[h])'
  <2> SUFFICES ASSUME task[h].kind \in Syncing PROVE RewritesOK(task[h])'
    BY <1>4, <1>5 DEF RewritesOK
  <2>1. RewritesOK(task[h]) /\ Replacing(task[h]) /\ Replacing(task[h])' /\ task'[h].pc # "commit"
    BY <1>2, <1>4, <1>5, SoloTypes DEF SoloTask, Replacing
  <2>2. ASSUME NEW f \in task[h].cover \intersect Stored
        PROVE  Pending(task[h], f)' \/ Enforces(IdAfter(task[h], f), BodyAfter(task[h], f),
                                                TargetsOf(Will(task[h]), rules[f].prof))'
    <3>1. CASE Pending(task[h], f)
      BY <1>4, <1>5, <2>1, <3>1 DEF Pending
    <3>2. CASE Enforces(IdAfter(task[h], f), BodyAfter(task[h], f),
                        TargetsOf(Will(task[h]), rules[f].prof))
      BY <1>2, <1>4, <1>5, <1>6, <1>7, <3>2, AfterClaims, EnforcesKept
    <3> QED BY <1>2, <2>1, <3>1, <3>2 DEF RewritesOK
  <2> QED BY <1>4, <1>5, <1>7, <2>1, <2>2, RewritesKept DEF RewritesOK
<1>9. CreatesOK(task[h])'
  BY <1>1, <1>4, <1>5, SoloTypes DEF SoloTask, CreatesOK, Known, Creating, Pausing, Syncing,
     Retargeting
<1> QED BY <1>1, <1>2, <1>4, <1>5, <1>7, <1>8, <1>9, MoveSolo

\* A PUT: the gateway has the rule it sends, or had none and is asked to delete
\* the stale id first.
LEMMA PutFields ==
  ASSUME SoloInv, NEW h \in Handlers, Put(h)
  PROVE  \E item \in task[h].work :
           /\ task'[h].work = task[h].work \ {item} /\ task'[h].cur = item
           /\ task'[h].made = task[h].made /\ task'[h].kind = task[h].kind
           /\ task'[h].cover = task[h].cover /\ task'[h].upd = task[h].upd
           /\ \A k \in Handlers \ {h} : task'[k] = task[k]
           /\ \/ /\ gw[item.rule.gw] # None
                 /\ gw' = [gw EXCEPT ![item.rule.gw] = Translate(item)]
                 /\ task'[h].pc = IF task'[h].work = {} THEN "commit" ELSE "put"
              \/ /\ gw[item.rule.gw] = None /\ gw' = gw
                 /\ task'[h].pc = "delete" /\ task'[h].todo = {item.rule.gw}
<1> DEFINE t(i) == [task[h] EXCEPT !.work = @ \ {i}, !.cur = i]
           d(i) == [t(i) EXCEPT !.pc = "delete", !.todo = {i.rule.gw}]
<1>1. PICK item \in task[h].work :
        \/ /\ gw[item.rule.gw] # None
           /\ gw' = [gw EXCEPT ![item.rule.gw] = Translate(item)] /\ Goto(h, AfterWrite(t(item)))
        \/ gw[item.rule.gw] = None /\ gw' = gw /\ Goto(h, d(item))
  BY DEF Put
<1>2. task[h] \in Task /\ TInv /\ item \in Item
  BY TaskType, WorkClaims, SoloTypes DEF SoloInv
<1>3. /\ t(item) \in Task /\ t(item).work = task[h].work \ {item} /\ t(item).cur = item
      /\ t(item).made = task[h].made /\ t(item).kind = task[h].kind
      /\ t(item).cover = task[h].cover /\ t(item).upd = task[h].upd
  BY <1>2 DEF Task
<1>4. /\ d(item).work = t(item).work /\ d(item).cur = item /\ d(item).made = t(item).made
      /\ d(item).kind = t(item).kind /\ d(item).cover = t(item).cover
      /\ d(item).upd = t(item).upd /\ d(item).pc = "delete" /\ d(item).todo = {item.rule.gw}
  <2> HIDE DEF t
  <2> QED BY <1>3 DEF Task
<1> HIDE DEF t, d
<1>5. CASE /\ gw[item.rule.gw] # None
           /\ gw' = [gw EXCEPT ![item.rule.gw] = Translate(item)] /\ Goto(h, AfterWrite(t(item)))
  <2>1. task'[h] = AfterWrite(t(item)) /\ \A k \in Handlers \ {h} : task'[k] = task[k]
    BY <1>2, <1>5, GotoFields
  <2>2. /\ task'[h].work = task[h].work \ {item} /\ task'[h].cur = item
        /\ task'[h].made = task[h].made /\ task'[h].kind = task[h].kind
        /\ task'[h].cover = task[h].cover /\ task'[h].upd = task[h].upd
        /\ task'[h].pc = IF task'[h].work = {} THEN "commit" ELSE "put"
    BY <1>3, <2>1, AfterFields
  <2> QED BY <1>5, <2>1, <2>2
<1>6. CASE gw[item.rule.gw] = None /\ gw' = gw /\ Goto(h, d(item))
  <2>1. task'[h] = d(item) /\ \A k \in Handlers \ {h} : task'[k] = task[k]
    BY <1>2, <1>6, GotoFields
  <2>2. /\ task'[h].work = task[h].work \ {item} /\ task'[h].cur = item
        /\ task'[h].made = task[h].made /\ task'[h].kind = task[h].kind
        /\ task'[h].cover = task[h].cover /\ task'[h].upd = task[h].upd
        /\ task'[h].pc = "delete" /\ task'[h].todo = {item.rule.gw}
    BY <1>3, <1>4, <2>1
  <2> QED BY <1>6, <2>1, <2>2
<1> QED BY <1>1, <1>5, <1>6

LEMMA PutSolo ==
  ASSUME SoloInv, IdInv', NEW h \in Handlers, Put(h)
  PROVE  SoloOK'
<1> DEFINE Done(i) == /\ gw' = [gw EXCEPT ![i.rule.gw] = Translate(i)]
                      /\ task'[h].pc = IF task'[h].work = {} THEN "commit" ELSE "put"
           Lost(i) == gw' = gw /\ task'[h].pc = "delete"
<1>1. PICK item \in task[h].work :
        /\ task'[h].work = task[h].work \ {item} /\ task'[h].cur = item
        /\ task'[h].made = task[h].made /\ task'[h].kind = task[h].kind
        /\ task'[h].cover = task[h].cover /\ task'[h].upd = task[h].upd
        /\ \A k \in Handlers \ {h} : task'[k] = task[k]
        /\ Done(item) \/ Lost(item)
  BY PutFields
<1>2. /\ task[h].pc = "put" /\ task[h] \in Task /\ TInv /\ task[h].kind \in Syncing
      /\ gw \in [GwIds -> GwRule \union {Foreign, None}]
      /\ UNCHANGED <<rules, profiles, used, told>>
  BY TaskType, SoloTypes DEF Put, TypeOK, Shape
<1>3. /\ item \in Item /\ item.rid \in RuleIds /\ item.rule.gw \in GwIds
      /\ Claim(item.rid, item.rule.gw) /\ item # None
  BY WorkClaims, NoneAssumption DEF SoloInv
<1>4. RewritesOK(task[h]) /\ KindOK(task[h]) /\ ItemOK(task[h], item)
      /\ task[h].made[item.rid] = None
  BY <1>2, SoloTypes DEF SoloTask, RewritesOK
<1>5. item.rid \in task[h].cover
  BY <1>4 DEF ItemOK
<1>8. /\ task'[h].work = task[h].work \ {item} /\ task'[h].cur = item
      /\ task'[h].made = task[h].made /\ task'[h].kind = task[h].kind
      /\ task'[h].cover = task[h].cover /\ task'[h].upd = task[h].upd
      /\ \A k \in Handlers \ {h} : task'[k] = task[k]
  BY <1>1
<1>9. \A f \in Stored, u \in GwIds : Claim(f, u) /\ f # item.rid => gw'[u] = gw[u]
  <2> SUFFICES ASSUME NEW f \in Stored, NEW u \in GwIds, Claim(f, u), f # item.rid
               PROVE  gw'[u] = gw[u]
    OBVIOUS
  <2>1. u # item.rule.gw
    BY <1>3, ClaimUnique DEF SoloInv, Stored
  <2> QED BY <1>1, <1>2, <2>1
<1>10. Aside(h)
  <2>1. \A f \in Stored \ task[h].cover : gw'[rules[f].gw] = gw[rules[f].gw]
    BY <1>5, <1>9, ClaimRules, StoredType, SoloTypes
  <2> QED BY <1>2, <2>1 DEF Aside
<1>11. ASSUME NEW f \in task[h].cover \intersect Stored
       PROVE  Pending(task[h], f)' \/ Enforces(IdAfter(task[h], f), BodyAfter(task[h], f),
                                               TargetsOf(Will(task[h]), rules[f].prof))'
  <2>1. CASE f # item.rid
    <3>1. CASE Pending(task[h], f)
      BY <1>2, <1>8, <2>1, <3>1 DEF Pending, Replacing
    <3>2. CASE Enforces(IdAfter(task[h], f), BodyAfter(task[h], f),
                        TargetsOf(Will(task[h]), rules[f].prof))
      <4>1. task[h].kind # "RuleUpdate"
        BY <1>4, <1>5, <2>1 DEF KindOK
      <4>2. gw'[IdAfter(task[h], f)] = gw[IdAfter(task[h], f)]
        BY <1>2, <1>9, <2>1, AfterClaims
      <4> QED BY <1>8, <1>10, <3>2, <4>1, <4>2, EnforcesKept
    <3> QED BY <1>2, <1>4, <3>1, <3>2 DEF RewritesOK
  <2>2. CASE f = item.rid /\ Done(item)
    <3>1. IdAfter(task[h], f)' = item.rule.gw /\ BodyAfter(task[h], f)' = item.rule.body
      BY <1>2, <1>4, <1>8, <2>2 DEF IdAfter, BodyAfter, ItemOK, Syncing
    <3>2. TargetsOf(Will(task[h]), rules[f].prof)' = item.targets
      <4>1. Will(task[h])' = Will(task[h])
        BY <1>2, <1>8 DEF Will, PersistedProfiles
      <4> QED BY <1>2, <1>4, <2>2, <4>1 DEF ItemOK, TargetsOf
    <3>3. gw'[item.rule.gw] = [body |-> item.rule.body, targets |-> item.targets]
      BY <1>2, <1>3, <2>2 DEF Translate
    <3> QED BY <3>1, <3>2, <3>3 DEF Enforces
  <2>3. CASE f = item.rid /\ Lost(item)
    BY <1>8, <2>3 DEF Pending, Replacing
  <2> QED BY <1>1, <2>1, <2>2, <2>3
<1>12. RewritesOK(task[h])'
  <2>1. \A i \in task'[h].work : i.rid # item.rid /\ task[h].made[i.rid] = None
    BY <1>2, <1>4, <1>8 DEF RewritesOK
  <2>2. task'[h].pc = "commit" => task'[h].work = {}
    BY <1>1, <1>8
  <2>3. \A f \in RuleIds : task'[h].made[f] # None => f \in task[h].cover
    BY <1>2, <1>4, <1>8 DEF RewritesOK
  <2> QED BY <1>2, <1>4, <1>8, <1>10, <1>11, <2>1, <2>2, <2>3, RewritesKept
<1>13. CreatesOK(task[h])'
  BY <1>2, <1>8 DEF CreatesOK, Creating, Pausing, Syncing, Retargeting
<1>14. task'[h].pc \in {"commit", "put", "delete"}
  BY <1>1, <1>8
<1> QED BY <1>2, <1>8, <1>10, <1>12, <1>13, <1>14, MoveSolo

\* A POST: the gateway has the new rule under an id that was never used.
LEMMA CreateFields ==
  ASSUME SoloInv, NEW h \in Handlers, Create(h)
  PROVE  \E v \in GwIds \ used :
           /\ gw' = [gw EXCEPT ![v] = Translate(task[h].cur)] /\ used' = used \union {v}
           /\ task'[h].work = task[h].work /\ task'[h].cur = task[h].cur
           /\ task'[h].made = [task[h].made EXCEPT ![task[h].cur.rid] = v]
           /\ task'[h].kind = task[h].kind /\ task'[h].cover = task[h].cover
           /\ task'[h].upd = task[h].upd /\ task'[h].prof = task[h].prof
           /\ task'[h].pc = IF task[h].work = {} THEN "commit" ELSE "put"
           /\ \A k \in Handlers \ {h} : task'[k] = task[k]
<1> DEFINE t(u) == [task[h] EXCEPT !.made[task[h].cur.rid] = u]
<1>1. PICK v \in GwIds \ used :
        /\ gw' = [gw EXCEPT ![v] = Translate(task[h].cur)]
        /\ used' = used \union {v}
        /\ Goto(h, AfterWrite(t(v)))
  BY DEF Create
<1>2. task[h] \in Task /\ TInv
  BY TaskType, SoloTypes
<1>3. /\ t(v) \in Task /\ t(v).work = task[h].work /\ t(v).cur = task[h].cur
      /\ t(v).made = [task[h].made EXCEPT ![task[h].cur.rid] = v] /\ t(v).kind = task[h].kind
      /\ t(v).cover = task[h].cover /\ t(v).upd = task[h].upd /\ t(v).prof = task[h].prof
  BY <1>2 DEF Task
<1> HIDE DEF t
<1>4. task'[h] = AfterWrite(t(v)) /\ \A k \in Handlers \ {h} : task'[k] = task[k]
  BY <1>1, <1>2, GotoFields
<1> QED BY <1>1, <1>3, <1>4, AfterFields

LEMMA CreateSolo ==
  ASSUME SoloInv, IdInv', NEW h \in Handlers, Create(h)
  PROVE  SoloOK'
<1> DEFINE c == task[h].cur
<1>1. PICK v \in GwIds \ used :
        /\ gw' = [gw EXCEPT ![v] = Translate(c)]
        /\ used' = used \union {v}
        /\ task'[h].work = task[h].work /\ task'[h].cur = c
        /\ task'[h].made = [task[h].made EXCEPT ![c.rid] = v] /\ task'[h].kind = task[h].kind
        /\ task'[h].cover = task[h].cover /\ task'[h].upd = task[h].upd
        /\ task'[h].prof = task[h].prof
        /\ task'[h].pc = IF task[h].work = {} THEN "commit" ELSE "put"
        /\ \A k \in Handlers \ {h} : task'[k] = task[k]
  BY CreateFields
<1>2. /\ task[h].pc = "create" /\ task[h] \in Task /\ TInv
      /\ task[h].kind \in Creating \union Syncing
      /\ gw \in [GwIds -> GwRule \union {Foreign, None}]
      /\ task[h].made \in [RuleIds -> GwIds \union {None}]
      /\ c \in Item /\ c # None /\ c.rid \in RuleIds
      /\ \A i \in task[h].work : i \in Item /\ i.rid \in RuleIds /\ task[h].kind \in Syncing
      /\ UNCHANGED <<rules, profiles, told>>
  <2>1. /\ task[h].pc = "create" /\ Shape(task[h]) /\ task[h].cur \in Item \union {None}
        /\ task[h].work \subseteq Item
    BY TaskType, SoloTypes DEF Create
  <2> QED BY <2>1, TaskType, SoloTypes DEF TypeOK, Shape, Item, Create
<1>4. \A k \in Handlers \ {h} : task'[k] = task[k]
  BY <1>1
<1>5. /\ task'[h].work = task[h].work /\ task'[h].cur = c
      /\ task'[h].made = [task[h].made EXCEPT ![c.rid] = v] /\ task'[h].kind = task[h].kind
      /\ task'[h].cover = task[h].cover /\ task'[h].upd = task[h].upd
      /\ task'[h].prof = task[h].prof
      /\ task'[h].pc = IF task[h].work = {} THEN "commit" ELSE "put"
  BY <1>1
<1>6. \A f \in Stored, u \in GwIds : Claim(f, u) => gw'[u] = gw[u]
  <2> SUFFICES ASSUME NEW f \in Stored, NEW u \in GwIds, Claim(f, u)
               PROVE  gw'[u] = gw[u]
    OBVIOUS
  <2>1. u \in used
    BY ClaimUsed DEF SoloInv, Stored
  <2> QED BY <1>1, <1>2, <2>1
<1>7. gw'[v] = Translate(c)
  BY <1>1, <1>2
<1>8. Aside(h)
  <2>1. \A f \in Stored \ task[h].cover : gw'[rules[f].gw] = gw[rules[f].gw]
    BY <1>6, ClaimRules, StoredType, SoloTypes
  <2> QED BY <1>1, <1>2, <2>1 DEF Aside
<1>9. v # None
  BY NoneAssumption
<1>10. RewritesOK(task[h])'
  <2> SUFFICES ASSUME task[h].kind \in Syncing PROVE RewritesOK(task[h])'
    BY <1>5 DEF RewritesOK
  <2>1. /\ RewritesOK(task[h]) /\ KindOK(task[h]) /\ ItemOK(task[h], c) /\ Replacing(task[h])
        /\ task[h].made[c.rid] = None /\ \A i \in task[h].work : i.rid # c.rid
    BY <1>2, SoloTypes DEF SoloTask, RewritesOK, Replacing
  <2>2. c.rid \in task[h].cover /\ ~Replacing(task[h])'
    BY <1>5, <2>1 DEF ItemOK, Replacing
  <2>3. ASSUME NEW f \in task[h].cover \intersect Stored
        PROVE  Pending(task[h], f)' \/ Enforces(IdAfter(task[h], f), BodyAfter(task[h], f),
                                                TargetsOf(Will(task[h]), rules[f].prof))'
    <3>1. CASE f # c.rid
      <4>1. CASE Pending(task[h], f)
        BY <1>5, <3>1, <4>1 DEF Pending
      <4>2. CASE Enforces(IdAfter(task[h], f), BodyAfter(task[h], f),
                          TargetsOf(Will(task[h]), rules[f].prof))
        <5>1. gw'[IdAfter(task[h], f)] = gw[IdAfter(task[h], f)]
          BY <1>2, <1>6, AfterClaims
        <5>2. task'[h].made[f] = task[h].made[f]
          BY <1>2, <1>5, <3>1 DEF Stored
        <5> QED BY <1>5, <1>8, <4>2, <5>1, <5>2, EnforcesKept
      <4> QED BY <1>2, <2>1, <4>1, <4>2 DEF RewritesOK
    <3>2. CASE f = c.rid
      <4>1. IdAfter(task[h], f)' = v /\ BodyAfter(task[h], f)' = c.rule.body
        BY <1>2, <1>5, <1>9, <2>1, <3>2 DEF IdAfter, BodyAfter, ItemOK, Syncing
      <4>2. TargetsOf(Will(task[h]), rules[f].prof)' = c.targets
        <5>1. Will(task[h])' = Will(task[h])
          BY <1>2, <1>5 DEF Will, PersistedProfiles
        <5> QED BY <1>2, <2>1, <3>2, <5>1 DEF ItemOK, TargetsOf
      <4> QED BY <1>7, <4>1, <4>2 DEF Enforces, Translate
    <3> QED BY <3>1, <3>2
  <2>4. \A i \in task'[h].work : task'[h].made[i.rid] = None
    BY <1>2, <1>5, <2>1 DEF RewritesOK
  <2>5. \A f \in RuleIds : task'[h].made[f] # None => f \in task[h].cover
    BY <1>2, <1>5, <2>1, <2>2 DEF RewritesOK
  <2>6. task'[h].pc = "commit" => task'[h].work = {}
    BY <1>5
  <2> QED BY <1>5, <1>8, <2>1, <2>2, <2>3, <2>4, <2>5, <2>6, RewritesKept
<1>11. CreatesOK(task[h])'
  <2> SUFFICES ASSUME task[h].kind \in Creating PROVE CreatesOK(task[h])'
    BY <1>5 DEF CreatesOK
  <2>1. CreatesOK(task[h])
    BY SoloTypes DEF SoloTask
  <2>2. Known' = Known /\ PausesOf(task[h].prof)' = PausesOf(task[h].prof)
    BY <1>2, <1>5 DEF Known, PausesOf, RulesOf, Stored
  <2>3. Written(task[h])'.gw = v
    <3>1. task'[h] \in Task /\ task'[h].cur # None /\ task'[h].made[c.rid] = v
      BY <1>2, <1>5, TaskType DEF IdInv, TInv, TypeOK
    <3>2. PICK n : n = task'[h]
      OBVIOUS
    <3>3. Written(n).gw = v
      BY <1>5, <1>9, <3>1, <3>2, WrittenType
    <3> QED BY <3>2, <3>3 DEF Written
  <2> QED BY <1>2, <1>5, <1>7, <2>1, <2>2, <2>3 DEF CreatesOK, Enforces, Translate
<1>12. task'[h].pc \in {"commit", "put"}
  BY <1>5
<1> QED BY <1>2, <1>4, <1>5, <1>8, <1>10, <1>11, <1>12, MoveSolo

-----------------------------------------------------------------------------
(* The steps of a request at the store.                                     *)

LEMMA DropState ==
  ASSUME SoloInv, NEW h \in Handlers, Drop(h)
  PROVE  SoloState' /\ task[h].pc = "drop" /\ task[h].kind \notin Syncing /\ task[h].cover = {}
         /\ task[h].upd = NoProfiles
<1>1. /\ task[h].pc = "drop" /\ task[h].kind \notin Syncing
      /\ rules' = Forget(Doomed(task[h])) /\ gw' = gw /\ used' = used
  BY TaskType, SoloTypes DEF Drop, Shape
<1>2. task[h].cover = {} /\ task[h].upd = NoProfiles
  BY <1>1, SoloTypes DEF SoloTask, KindOK, Syncing
<1>3. told' = told
  BY <1>2 DEF Drop, Answer
<1>t. profiles \in [ProfileIds -> Groups] /\ SoloState
  BY SoloTypes DEF TypeOK
<1>4. \A f \in Stored' : f \in Stored /\ rules'[f] = rules[f] /\ f \notin Doomed(task[h])
  BY <1>1 DEF Forget, Stored
<1>5. profiles' = profiles \/ /\ task[h].kind = "ProfileDelete"
                              /\ profiles' = [profiles EXCEPT ![task[h].prof] = None]
  BY DEF Drop
<1>6. \A f \in Stored' : task[h].kind = "ProfileDelete" => rules[f].prof # task[h].prof
  BY <1>4 DEF Doomed, RulesOf
<1>7. \A f \in Stored' : /\ rules[f].prof \in Known'
                         /\ TargetsOf(profiles', rules[f].prof) = TargetsOf(profiles, rules[f].prof)
  BY <1>4, <1>5, <1>6, <1>t DEF SoloState, RulesHaveProfile, Known, TargetsOf
<1>8. Known' \subseteq Known /\ Disjoint(profiles')
  BY <1>5, <1>t DEF Known, SoloState, Disjoint
<1>9. RestInSync'
  <2>1. ASSUME NEW f \in Stored' \ told'
        PROVE  Synced(f)'
    <3>1. Synced(f)
      BY <1>1, <1>2, <1>3, <1>4, Uncovered
    <3> QED BY <1>1, <1>4, <1>7, <3>1 DEF Synced, Enforces
  <2> QED BY <2>1 DEF RestInSync
<1>10. SoloState'
  BY <1>1, <1>4, <1>7, <1>8, <1>9, <1>t
     DEF SoloState, RulesHaveProfile, Peopled, PausesUnique, Disjoint
<1> QED BY <1>1, <1>2, <1>10

LEMMA DropSolo ==
  ASSUME SoloInv, IdInv', NEW h \in Handlers, Drop(h)
  PROVE  SoloOK'
<1>1. /\ SoloState' /\ task[h].pc = "drop" /\ task[h].kind \notin Syncing
      /\ task[h].cover = {} /\ task[h].upd = NoProfiles
  BY DropState
<1>2. CASE Answer(h)
  BY <1>1, <1>2, DoneSolo DEF Answer
<1>3. CASE /\ task[h].kind \in Pausing /\ task[h].cur # None /\ task[h].cur.targets # {}
           /\ Goto(h, [task[h] EXCEPT !.pc = "create"])
  <2>1. task[h] \in Task /\ TInv
    BY TaskType, SoloTypes
  <2>2. /\ task'[h].pc = "create" /\ task'[h].kind = task[h].kind
        /\ task'[h].cover = task[h].cover /\ task'[h].upd = task[h].upd
        /\ task'[h].cur = task[h].cur /\ task'[h].prof = task[h].prof
        /\ \A k \in Handlers \ {h} : task'[k] = task[k]
    BY <1>3, <2>1, GotoFields DEF Task
  <2>3. profiles' = profiles /\ Known' = Known /\ rules' = Forget(PausesOf(task[h].prof))
    BY <1>3 DEF Drop, Known, Doomed, Pausing
  <2>4. PausesOf(task[h].prof)' = {}
    BY <2>2, <2>3 DEF PausesOf, RulesOf, Stored, Forget
  <2>5. KindOK(task[h])'
    BY <1>1, <2>2 DEF KindOK
  <2>6. ProfilesOK(task[h])'
    BY <1>1, <2>2, PlainProfiles DEF IdInv, TInv
  <2>7. RewritesOK(task[h])'
    BY <1>1, <2>2 DEF RewritesOK
  <2>8. CreatesOK(task[h])'
    BY <1>3, <2>2, <2>3, <2>4, SoloTypes DEF SoloTask, CreatesOK
  <2> QED BY <1>1, <2>2, <2>5, <2>6, <2>7, <2>8, OthersIdle, StepSolo DEF SoloTask
<1> QED BY <1>2, <1>3 DEF Drop

\* What the update that ends a retargeting leaves, complete or not: told tells
\* which rules it may have left out of step.
LEMMA PersistState ==
  ASSUME SoloInv, NEW h \in Handlers, task[h].kind \in Retargeting,
         rules' = Persisted(task[h]), profiles' = PersistedProfiles(task[h]),
         gw' = gw, used' = used, Goto(h, Idle),
         \/ /\ task[h].pc = "commit" /\ told' = told \ task[h].cover
         \/ /\ task[h].pc = "partial" /\ told' = told \union task[h].cover
  PROVE  SoloState'
<1>t. /\ SoloState /\ TypeOK /\ SoloTask(task[h]) /\ task[h].kind \in Syncing
      /\ rules \in [RuleIds -> Rule \union {None}] /\ profiles \in [ProfileIds -> Groups]
      /\ task[h].pc # "idle"
  BY SoloTypes DEF TypeOK, Syncing
<1>1. Stored' = Stored /\ Known' = Known /\ profiles' = Will(task[h])
  <2>1. ASSUME NEW f \in RuleIds
        PROVE  Persisted(task[h])[f] # None <=> rules[f] # None
    <3>1. CASE f \in Stored /\ task[h].made[f] # None
      <4>1. rules[f] \in Rule /\ task[h].made[f] \in GwIds
        BY <1>t, <3>1, StoredType, TaskType, SoloTypes
      <4>2. [rules[f] EXCEPT !.gw = task[h].made[f]] \in Rule
        BY <4>1 DEF Rule
      <4> QED BY <3>1, <4>2, NoneAssumption DEF Persisted, Stored
    <3>2. CASE ~(f \in Stored /\ task[h].made[f] # None)
      BY <3>2 DEF Persisted
    <3> QED BY <3>1, <3>2
  <2> QED BY <2>1 DEF Stored, Known, PersistedProfiles, Will
<1>2. ASSUME NEW f \in Stored
      PROVE  /\ rules'[f].prof = rules[f].prof /\ rules'[f].pause = rules[f].pause
             /\ rules'[f].body = rules[f].body /\ rules'[f].gw = IdAfter(task[h], f)
  <2>1. rules[f] \in Rule /\ f \in RuleIds
    BY <1>t, StoredType
  <2>2. rules'[f] = IF task[h].made[f] # None THEN [rules[f] EXCEPT !.gw = task[h].made[f]]
                    ELSE rules[f]
    BY <2>1 DEF Persisted
  <2> QED BY <2>1, <2>2 DEF Rule, IdAfter
<1>3. ASSUME NEW f \in Stored' \ told'
      PROVE  Synced(f)'
  <2>1. CASE f \in task[h].cover
    <3>1. task[h].pc = "commit"
      BY <1>3, <2>1
    <3>2. ~Pending(task[h], f)
      BY <1>t, <3>1 DEF Pending, Replacing, SoloTask, RewritesOK
    <3>3. Enforces(IdAfter(task[h], f), BodyAfter(task[h], f),
                   TargetsOf(Will(task[h]), rules[f].prof))
      BY <1>1, <1>3, <1>t, <2>1, <3>1, <3>2 DEF SoloTask, RewritesOK
    <3>4. BodyAfter(task[h], f) = rules[f].body
      BY DEF BodyAfter, Retargeting
    <3> QED BY <1>1, <1>2, <1>3, <3>3, <3>4 DEF Synced, Enforces
  <2>2. CASE f \notin task[h].cover
    <3>1. f \notin told /\ f \in Stored
      BY <1>1, <1>3, <2>2
    <3>2. Synced(f)
      BY <1>t, <2>2, <3>1, Uncovered
    <3>3. IdAfter(task[h], f) = rules[f].gw
      BY <1>t, <2>2 DEF SoloTask, RewritesOK, IdAfter, Stored, Retargeting
    <3>4. TargetsOf(Will(task[h]), rules[f].prof) = TargetsOf(profiles, rules[f].prof)
      <4>1. rules[f].prof # Everyone => /\ rules[f].prof \in ProfileIds
                                        /\ task[h].upd[rules[f].prof] = None
        BY <1>t, <2>2, <3>1 DEF SoloTask, ProfilesOK, SoloState, RulesHaveProfile, Known
      <4> QED BY <4>1 DEF TargetsOf, Will, PersistedProfiles
    <3> QED BY <1>1, <1>2, <3>1, <3>2, <3>3, <3>4 DEF Synced, Enforces
  <2> QED BY <2>1, <2>2
<1>4. Disjoint(profiles') /\ \A f \in Stored : TargetsOf(profiles', rules[f].prof) # {}
  BY <1>1, <1>t DEF SoloTask, ProfilesOK, Peopled
<1>5. Peopled(profiles)' /\ RulesHaveProfile' /\ PausesUnique' /\ RestInSync'
  BY <1>1, <1>2, <1>3, <1>4, <1>t DEF Peopled, RulesHaveProfile, PausesUnique, RestInSync, SoloState
<1> QED BY <1>1, <1>4, <1>5, <1>t DEF SoloState, Disjoint

LEMMA WrittenFields ==
  ASSUME NEW t \in Task, t.cur # None
  PROVE  /\ Written(t) \in Rule /\ Written(t) # None
         /\ Written(t).prof = t.cur.rule.prof /\ Written(t).body = t.cur.rule.body
         /\ Written(t).pause = t.cur.rule.pause
         /\ Written(t).gw = IF t.made[t.cur.rid] = None THEN t.cur.rule.gw
                                                        ELSE t.made[t.cur.rid]
<1>1. t.cur.rule \in Rule
  BY DEF Task, Item
<1> QED BY <1>1, WrittenType, NoneAssumption DEF Written, Rule

\* What the update that ends an edit leaves.
LEMMA EditState ==
  ASSUME SoloInv, NEW h \in Handlers, task[h].kind = "RuleUpdate", task[h].pc = "commit",
         rules' = Committed(task[h]), profiles' = PersistedProfiles(task[h]),
         gw' = gw, used' = used, Goto(h, Idle), told' = told \ task[h].cover
  PROVE  SoloState'
<1> DEFINE c == task[h].cur
<1>t. /\ SoloState /\ TypeOK /\ task[h].kind \in Syncing \ (Retargeting \union Creating)
      /\ KindOK(task[h]) /\ RewritesOK(task[h])
      /\ rules \in [RuleIds -> Rule \union {None}] /\ profiles \in [ProfileIds -> Groups]
      /\ task[h] \in Task /\ c \in Item /\ c # None /\ c.rid \in RuleIds /\ ItemOK(task[h], c)
  <2>1. Shape(task[h]) /\ task[h].cur \in Item \union {None} /\ SoloTask(task[h])
    BY TaskType, SoloTypes
  <2>2. task[h].kind \in Syncing \ (Retargeting \union Creating)
    BY DEF Syncing, Retargeting, Creating, Pausing
  <2>3. c # None /\ c \in Item /\ c.rid \in RuleIds
    BY <2>1, <2>2 DEF Shape, Item
  <2> QED BY <2>1, <2>2, <2>3, TaskType, SoloTypes DEF TypeOK, SoloTask, RewritesOK
<1>1. task[h].upd = NoProfiles /\ c.rid \in task[h].cover /\ \A f \in task[h].cover : f = c.rid
  BY <1>t DEF KindOK, ItemOK
<1>2. profiles' = profiles /\ Will(task[h]) = profiles
  BY <1>1, <1>t DEF PersistedProfiles, Will, NoProfiles
<1>3. rules' = IF c.rid \in Stored THEN [rules EXCEPT ![c.rid] = Written(task[h])] ELSE rules
  BY <1>t DEF Committed
<1>4. /\ Written(task[h]) # None /\ Written(task[h]).body = c.rule.body
      /\ Written(task[h]).prof = c.rule.prof /\ Written(task[h]).pause = c.rule.pause
      /\ Written(task[h]).gw = IF task[h].made[c.rid] = None THEN c.rule.gw
                                                             ELSE task[h].made[c.rid]
  BY <1>t, WrittenFields
<1> HIDE DEF c
<1>5. Stored' = Stored /\ Known' = Known
  BY <1>2, <1>3, <1>4, <1>t DEF Stored, Known
<1>6. \A f \in Stored : /\ f # c.rid => rules'[f] = rules[f]
                        /\ rules'[f].prof = rules[f].prof /\ rules'[f].pause = rules[f].pause
  BY <1>3, <1>4, <1>t DEF ItemOK, Stored
<1>7. ASSUME NEW f \in Stored' \ told'
      PROVE  Synced(f)'
  <2>1. CASE f # c.rid
    <3>1. Synced(f)
      BY <1>1, <1>5, <1>7, <2>1, Uncovered
    <3> QED BY <1>2, <1>5, <1>6, <2>1, <3>1 DEF Synced, Enforces
  <2>2. CASE f = c.rid
    <3>1. ~Pending(task[h], f)
      BY <1>t DEF Pending, Replacing, RewritesOK
    <3>2. Enforces(IdAfter(task[h], f), BodyAfter(task[h], f),
                   TargetsOf(Will(task[h]), rules[f].prof))
      BY <1>1, <1>5, <1>t, <2>2, <3>1 DEF RewritesOK
    <3>3. rules'[f].gw = IdAfter(task[h], f) /\ rules'[f].body = BodyAfter(task[h], f)
      BY <1>3, <1>4, <1>5, <1>t, <2>2 DEF IdAfter, BodyAfter, ItemOK, c
    <3> QED BY <1>2, <1>5, <1>6, <2>2, <3>2, <3>3 DEF Synced, Enforces
  <2> QED BY <2>1, <2>2
<1> QED BY <1>2, <1>5, <1>6, <1>7, <1>t
    DEF SoloState, RulesHaveProfile, Disjoint, Peopled, PausesUnique, RestInSync

\* What the update that ends a create leaves.
LEMMA MadeState ==
  ASSUME SoloInv, NEW h \in Handlers, task[h].kind \in Creating, task[h].pc = "commit",
         rules' = Committed(task[h]), profiles' = PersistedProfiles(task[h]),
         gw' = gw, used' = used, Goto(h, Idle), told' = told \ task[h].cover
  PROVE  SoloState'
<1> DEFINE c == task[h].cur
<1>t. /\ SoloState /\ TypeOK /\ task[h].kind \notin Syncing
      /\ KindOK(task[h]) /\ CreatesOK(task[h])
      /\ rules \in [RuleIds -> Rule \union {None}] /\ profiles \in [ProfileIds -> Groups]
      /\ task[h] \in Task /\ c # None /\ c.rid \in RuleIds
  <2>1. Shape(task[h]) /\ task[h].cur \in Item \union {None} /\ SoloTask(task[h])
    BY TaskType, SoloTypes
  <2>2. task[h].kind \notin Syncing
    BY DEF Syncing, Retargeting, Creating, Pausing
  <2>3. c # None /\ c.rid \in RuleIds
    BY <2>1, <2>2 DEF Shape, Item, Syncing
  <2> QED BY <2>1, <2>2, <2>3, TaskType, SoloTypes DEF TypeOK, SoloTask
<1>1. task[h].upd = NoProfiles /\ task[h].cover = {}
  BY <1>t DEF KindOK, Syncing
<1>2. profiles' = profiles /\ told' = told
  BY <1>1, <1>t DEF PersistedProfiles, NoProfiles
<1>3. rules' = [rules EXCEPT ![c.rid] = Written(task[h])]
  BY <1>t DEF Committed, Syncing
<1>4. /\ Written(task[h]) # None /\ Written(task[h]).body = c.rule.body
      /\ Written(task[h]).prof = task[h].prof
      /\ Written(task[h]).pause = (task[h].kind \in Pausing)
  BY <1>t, WrittenFields DEF CreatesOK
<1>5. /\ task[h].prof \in Known /\ c.targets = TargetsOf(profiles, task[h].prof) /\ c.targets # {}
      /\ task[h].kind \in Pausing => PausesOf(task[h].prof) = {}
      /\ Enforces(Written(task[h]).gw, c.rule.body, c.targets)
  BY <1>t DEF CreatesOK
<1> HIDE DEF c
<1>6. Stored' = Stored \union {c.rid} /\ Known' = Known /\ c.rid \in Stored'
  BY <1>2, <1>3, <1>4, <1>t DEF Stored, Known
<1>7. /\ \A f \in Stored' \ {c.rid} : f \in Stored /\ rules'[f] = rules[f]
      /\ rules'[c.rid] = Written(task[h])
  BY <1>3, <1>6, <1>t
<1>8. ASSUME NEW f \in Stored' \ told'
      PROVE  Synced(f)'
  <2>1. CASE f # c.rid
    <3>1. Synced(f)
      BY <1>1, <1>2, <1>7, <1>8, <2>1, Uncovered
    <3> QED BY <1>2, <1>7, <1>8, <2>1, <3>1 DEF Synced, Enforces
  <2>2. CASE f = c.rid
    BY <1>2, <1>4, <1>5, <1>7, <2>2 DEF Synced, Enforces
  <2> QED BY <2>1, <2>2
<1>9. PausesUnique'
  <2>1. ASSUME NEW f \in Stored', NEW g \in Stored', rules'[f].pause, rules'[g].pause,
               rules'[f].prof = rules'[g].prof
        PROVE  f = g
    <3>1. CASE f # c.rid /\ g # c.rid
      BY <1>7, <1>t, <2>1, <3>1 DEF SoloState, PausesUnique
    <3>2. ASSUME NEW a \in Stored' \ {c.rid}, rules'[a].pause, rules'[c.rid].pause,
                 rules'[a].prof = rules'[c.rid].prof
          PROVE  FALSE
      <4>1. task[h].kind \in Pausing
        BY <1>4, <1>7, <3>2
      <4>2. a \in PausesOf(task[h].prof)
        BY <1>4, <1>7, <3>2 DEF PausesOf, RulesOf
      <4> QED BY <1>5, <4>1, <4>2
    <3> QED BY <2>1, <3>1, <3>2
  <2> QED BY <2>1 DEF PausesUnique
<1>10. RulesHaveProfile' /\ Peopled(profiles)'
  BY <1>2, <1>4, <1>5, <1>6, <1>7, <1>t DEF SoloState, RulesHaveProfile, Peopled
<1> QED BY <1>2, <1>6, <1>8, <1>9, <1>10, <1>t DEF SoloState, Disjoint, RestInSync

LEMMA CommitSolo ==
  ASSUME SoloInv, IdInv', NEW h \in Handlers, Commit(h)
  PROVE  SoloOK'
<1>1. /\ task[h].pc = "commit" /\ rules' = Committed(task[h])
      /\ profiles' = PersistedProfiles(task[h]) /\ gw' = gw /\ used' = used
      /\ Goto(h, Idle) /\ told' = told \ task[h].cover
  BY DEF Commit, Answer
<1>2. task[h].kind \in Retargeting \union Creating \union {"RuleUpdate"}
  BY <1>1, TaskType, SoloTypes DEF Shape, Syncing
<1>3. task[h].kind \in Retargeting => rules' = Persisted(task[h])
  BY <1>1 DEF Committed
<1>4. SoloState'
  BY <1>1, <1>2, <1>3, PersistState, MadeState, EditState
<1> QED BY <1>1, <1>4, DoneSolo

LEMMA PartialSolo ==
  ASSUME SoloInv, IdInv', NEW h \in Handlers, Partial(h)
  PROVE  SoloOK'
<1>1. /\ task[h].pc = "partial" /\ rules' = Persisted(task[h])
      /\ profiles' = PersistedProfiles(task[h]) /\ gw' = gw /\ used' = used
      /\ Goto(h, Idle) /\ told' = told \union task[h].cover
  BY DEF Partial, AnswerError
<1>2. task[h].kind \in Retargeting
  BY <1>1, SoloTypes DEF SoloTask, KindOK
<1>3. SoloState'
  BY <1>1, <1>2, PersistState
<1> QED BY <1>1, <1>3, DoneSolo

\* A request that fails at the store, or takes back what it made.
LEMMA ErrorSolo ==
  ASSUME SoloInv, IdInv', NEW h \in Handlers, task[h].pc # "idle", Aside(h), AnswerError(h)
  PROVE  SoloOK'
<1>1. SoloState'
  BY AsideState DEF AnswerError
<1> QED BY <1>1, DoneSolo DEF AnswerError

LEMMA CompensateSolo ==
  ASSUME SoloInv, IdInv', NEW h \in Handlers, Compensate(h)
  PROVE  SoloOK'
<1>1. \A u \in GwIds : gw'[u] \in {gw[u], None}
  BY SoloTypes DEF Compensate, Gone, TypeOK
<1>2. Aside(h)
  BY <1>1, StoredType, SoloTypes DEF Aside, Compensate
<1> QED BY <1>2, ErrorSolo DEF Compensate

LEMMA SaveErrorSolo ==
  ASSUME SoloInv, IdInv', NEW h \in Handlers, SaveError(h)
  PROVE  SoloOK'
<1>1. Aside(h) /\ task[h].pc \in {"drop", "commit", "partial"} /\ TInv /\ task[h] \in Task
  BY TaskType, SoloTypes DEF Aside, SaveError
<1>2. CASE AnswerError(h)
  BY <1>1, <1>2, ErrorSolo
<1>3. CASE /\ task[h].kind \in Creating
           /\ Goto(h, [task[h] EXCEPT !.pc = "compensate"]) /\ told' = told
  <2>1. /\ task'[h].pc = "compensate" /\ task'[h].kind = task[h].kind
        /\ task'[h].cover = task[h].cover /\ task'[h].upd = task[h].upd
        /\ task'[h].cur = task[h].cur /\ task'[h].prof = task[h].prof
        /\ \A k \in Handlers \ {h} : task'[k] = task[k]
    BY <1>1, <1>3, GotoFields DEF Task
  <2>2. RewritesOK(task[h])'
    BY <1>3, <2>1 DEF RewritesOK, Creating, Pausing, Syncing, Retargeting
  <2>3. CreatesOK(task[h])'
    BY <1>1, <2>1, SoloTypes DEF Aside, SoloTask, CreatesOK, Known
  <2> QED BY <1>1, <1>3, <2>1, <2>2, <2>3, MoveSolo
<1> QED BY <1>2, <1>3 DEF SaveError

LEMMA ErrSolo ==
  ASSUME SoloInv, IdInv', NEW h \in Handlers, Err(h)
  PROVE  SoloOK'
<1>t. TypeOK /\ gw \in [GwIds -> GwRule \union {Foreign, None}]
  BY SoloTypes DEF TypeOK
<1>1. CASE DeleteError(h)
  <2>1. \A u \in GwIds : gw'[u] \in {gw[u], None}
    BY <1>1, <1>t DEF DeleteError, Gone
  <2>2. Aside(h)
    BY <1>1, <1>t, <2>1, StoredType DEF Aside, DeleteError
  <2> QED BY <1>1, <2>2, FailSolo DEF DeleteError
<1>2. CASE PutError(h)
  <2>1. PICK item \in task[h].work :
          gw' = gw \/ gw' = [gw EXCEPT ![item.rule.gw] = Translate(item)]
    BY <1>2 DEF PutError
  <2>2. /\ item.rid \in RuleIds /\ item.rule.gw \in GwIds /\ Claim(item.rid, item.rule.gw)
        /\ task[h].kind \in Syncing
    BY WorkClaims, TaskType, SoloTypes DEF SoloInv, Shape
  <2>3. item.rid \in task[h].cover
    BY <2>2, SoloTypes DEF SoloTask, RewritesOK, ItemOK
  <2>4. ASSUME NEW f \in Stored \ task[h].cover
        PROVE  gw'[rules[f].gw] = gw[rules[f].gw]
    <3>1. rules[f].gw # item.rule.gw
      BY <2>2, <2>3, ClaimRules, ClaimUnique DEF SoloInv, Stored
    <3> QED BY <1>t, <2>1, <3>1, StoredType
  <2>5. Aside(h)
    BY <1>2, <2>4 DEF Aside, PutError
  <2> QED BY <1>2, <2>5, FailSolo DEF PutError
<1>3. CASE CreateError(h)
  <2>1. /\ rules' = rules /\ profiles' = profiles /\ used \subseteq used'
        /\ \A u \in used \intersect GwIds : gw'[u] = gw[u]
    BY <1>3, <1>t DEF CreateError
  <2>2. \A f \in Stored : rules[f].gw \in used \intersect GwIds
    BY <1>t, StoredType, ClaimRules, ClaimUsed DEF SoloInv
  <2>3. Aside(h)
    BY <2>1, <2>2 DEF Aside
  <2> QED BY <1>3, <2>3, FailSolo DEF CreateError
<1>4. CASE SaveError(h)
  BY <1>4, SaveErrorSolo
<1> QED BY <1>1, <1>2, <1>3, <1>4 DEF Err

LEMMA SucceedSolo ==
  ASSUME SoloInv, IdInv', NEW h \in Handlers, Succeed(h)
  PROVE  SoloOK'
BY ClearSolo, DeleteSolo, PutSolo, CreateSolo, DropSolo, CommitSolo, PartialSolo,
   CompensateSolo DEF Succeed

-----------------------------------------------------------------------------
(* The janitor, the app and time only take away.                            *)

Same(t, n) == /\ n.kind = t.kind /\ n.pc = t.pc /\ n.prof = t.prof /\ n.cur = t.cur
              /\ n.upd = t.upd /\ n.work = t.work /\ n.made = t.made /\ n.cover = t.cover

Takes ==
  /\ profiles' = profiles /\ told' = told /\ used \subseteq used'
  /\ \A f \in RuleIds : rules'[f] \in {rules[f], None}
  /\ \A u \in GwIds \intersect used : gw'[u] \in {gw[u], None}
  /\ \A h \in Handlers : Same(task[h], task'[h])

LEMMA TakesSolo ==
  ASSUME SoloInv, IdInv', Takes
  PROVE  SoloOK'
<1>t. SoloState /\ TInv /\ TypeOK /\ IdInv
  BY SoloTypes DEF SoloInv
<1>1. /\ \A f \in Stored' : f \in Stored /\ rules'[f] = rules[f]
      /\ Known' = Known /\ \A p : PausesOf(p)' \subseteq PausesOf(p)
  BY DEF Takes, Stored, Known, PausesOf, RulesOf
<1>2. \A f \in RuleIds, u \in GwIds : Claim(f, u) => gw'[u] \in {gw[u], None}
  BY <1>t, ClaimUsed DEF Takes
<1>3. ASSUME NEW f \in Stored', Synced(f)
      PROVE  Synced(f)'
  <2>1. gw'[rules[f].gw] \in {gw[rules[f].gw], None}
    BY <1>1, <1>2, <1>t, StoredType, ClaimRules
  <2> QED BY <1>1, <1>3, <2>1 DEF Synced, Enforces, Takes
<1>4. RestInSync'
  BY <1>1, <1>3, <1>t DEF SoloState, RestInSync, Takes, Same
<1>5. SoloState'
  BY <1>1, <1>4, <1>t DEF SoloState, RulesHaveProfile, Disjoint, Peopled, PausesUnique, Takes
<1>6. ASSUME NEW h \in Handlers
      PROVE  SoloTask(task[h])'
  <2>s. Same(task[h], task'[h]) /\ profiles' = profiles
    BY DEF Takes
  <2>t. KindOK(task[h]) /\ ProfilesOK(task[h]) /\ RewritesOK(task[h]) /\ CreatesOK(task[h])
    BY SoloTypes DEF SoloTask
  <2>w. Will(task[h])' = Will(task[h])
    BY <2>s DEF Same, Will, PersistedProfiles
  <2>1. KindOK(task[h])'
    BY <2>s, <2>t DEF KindOK, Same
  <2>2. ProfilesOK(task[h])'
    BY <1>1, <2>s, <2>t, <2>w DEF ProfilesOK, Same, Disjoint, Peopled
  <2>3. ASSUME NEW i, ItemOK(task[h], i)
        PROVE  ItemOK(task[h], i)'
    BY <1>1, <2>3, <2>s, <2>w DEF ItemOK, Same
  <2>4. ASSUME NEW f \in Stored',
               Enforces(IdAfter(task[h], f), BodyAfter(task[h], f),
                        TargetsOf(Will(task[h]), rules[f].prof))
        PROVE  Enforces(IdAfter(task[h], f), BodyAfter(task[h], f),
                        TargetsOf(Will(task[h]), rules[f].prof))'
    <3>1. gw'[IdAfter(task[h], f)] \in {gw[IdAfter(task[h], f)], None}
      BY <1>1, <1>2, <1>t, AfterClaims DEF Stored
    <3>2. /\ IdAfter(task[h], f)' = IdAfter(task[h], f)
          /\ BodyAfter(task[h], f)' = BodyAfter(task[h], f)
      BY <1>1, <2>s DEF IdAfter, BodyAfter, Same
    <3> QED BY <1>1, <2>4, <2>w, <3>1, <3>2 DEF Enforces
  <2>5. \A f : Pending(task[h], f)' <=> Pending(task[h], f)
    BY <2>s DEF Pending, Replacing, Same
  <2>6. task'[h].cur # None => ItemOK(task[h], task[h].cur)' \/ task[h].kind \notin Syncing
    <3> SUFFICES ASSUME task'[h].cur # None, task[h].kind \in Syncing
                 PROVE  ItemOK(task[h], task[h].cur)'
      OBVIOUS
    <3>1. PICK i : i = task'[h].cur
      OBVIOUS
    <3>2. ItemOK(task[h], i)'
      BY <2>3, <2>s, <2>t, <3>1 DEF RewritesOK, Same
    <3> QED BY <3>1, <3>2 DEF ItemOK
  <2>7. RewritesOK(task[h])'
    <3> SUFFICES ASSUME task[h].kind \in Syncing PROVE RewritesOK(task[h])'
      BY <2>s DEF RewritesOK, Same
    <3>1. Replacing(task[h])' <=> Replacing(task[h])
      BY <2>s DEF Replacing, Same
    <3>2. \A f \in task'[h].cover \intersect Stored' : task'[h].pc # "partial" =>
            Pending(task[h], f)' \/ Enforces(IdAfter(task[h], f), BodyAfter(task[h], f),
                                             TargetsOf(Will(task[h]), rules[f].prof))'
      BY <1>1, <2>4, <2>5, <2>s, <2>t DEF RewritesOK, Same
    <3> QED BY <2>3, <2>6, <2>s, <2>t, <3>1, <3>2 DEF RewritesOK, Same
  <2>8. CreatesOK(task[h])'
    <3> SUFFICES ASSUME task[h].kind \in Creating, task[h].cur # None PROVE CreatesOK(task[h])'
      BY <2>s DEF CreatesOK, Same
    <3>1. Written(task[h])' = Written(task[h])
      BY <2>s DEF Written, Same
    <3>2. task[h].pc = "commit" => gw'[Written(task[h]).gw] \in {gw[Written(task[h]).gw], None}
      <4> SUFFICES ASSUME task[h].pc = "commit"
                   PROVE  gw'[Written(task[h]).gw] \in {gw[Written(task[h]).gw], None}
        OBVIOUS
      <4>1. /\ task[h] \in Task /\ task[h].cur # None /\ Written(task[h]).gw \in GwIds
            /\ task[h].cur.rid \in RuleIds
        BY <1>t, TaskType DEF Shape, Creating, Pausing, Retargeting, Item
      <4>2. Claim(task[h].cur.rid, Written(task[h]).gw)
        BY <4>1, WrittenType DEF Claim, Holds
      <4> QED BY <1>2, <4>1, <4>2
    <3> QED BY <1>1, <2>s, <2>t, <3>1, <3>2 DEF CreatesOK, Same, Enforces
  <2> QED BY <2>1, <2>2, <2>7, <2>8 DEF SoloTask
<1>7. Single'
  BY SoloTypes DEF Single, Takes, Same
<1> QED BY <1>5, <1>6, <1>7 DEF SoloOK

LEMMA OthersTake ==
  ASSUME SoloInv, JanitorStep \/ JanitorError \/ World
  PROVE  Takes
<1>t. /\ TypeOK /\ gw \in [GwIds -> GwRule \union {Foreign, None}]
      /\ \A h \in Handlers : task[h] \in Task
  BY TaskType, SoloTypes DEF TypeOK
<1>1. ASSUME NEW u
      PROVE  \A v \in GwIds : Gone(u)[v] \in {gw[v], None}
  BY <1>t DEF Gone
<1>2. \A F : \A f \in RuleIds : Forget(F)[f] \in {rules[f], None}
  BY DEF Forget
<1>3. CASE JanitorList
  BY <1>3 DEF JanitorList, Takes, Same
<1>4. CASE JanitorPlan
  <2>1. ASSUME NEW h \in Handlers
        PROVE  Same(task[h], task'[h])
    <3>1. task'[h] = [task[h] EXCEPT !.old = task[h].pc # "idle"]
      BY <1>4 DEF JanitorPlan
    <3> QED BY <1>t, <3>1 DEF Task, Same
  <2> QED BY <1>4, <2>1 DEF JanitorPlan, Takes
<1>5. CASE JanitorDelete
  BY <1>1, <1>5 DEF JanitorDelete, Takes, Same
<1>6. CASE JanitorDrop
  BY <1>2, <1>6 DEF JanitorDrop, Takes, Same
<1>7. CASE JanitorError
  BY <1>1, <1>7 DEF JanitorError, Takes, Same
<1>8. CASE AppDelete
  BY <1>1, <1>8 DEF AppDelete, Takes, Same
<1>9. CASE AppCreate
  BY <1>t, <1>9 DEF AppCreate, Takes, Same
<1>10. CASE Elapse
  BY <1>10 DEF Elapse, Takes, Same
<1> QED BY <1>3, <1>4, <1>5, <1>6, <1>7, <1>8, <1>9, <1>10 DEF JanitorStep, World

LEMMA CrashSolo ==
  ASSUME SoloInv, IdInv', Crash
  PROVE  SoloOK'
<1>1. /\ UNCHANGED <<profiles, rules, gw, used>> /\ Stored' = Stored /\ Known' = Known
      /\ told' = told \union UNION {task[h].cover : h \in Handlers}
      /\ \A h \in Handlers : task'[h] = Idle
  BY DEF Crash, Stored, Known
<1>2. \A f \in Stored' \ told' : Synced(f)
  BY <1>1, SoloTypes DEF SoloState, RestInSync
<1>3. RestInSync'
  BY <1>1, <1>2 DEF RestInSync, Synced, Enforces
<1>4. SoloState'
  BY <1>1, <1>3, SoloTypes DEF SoloState, RulesHaveProfile, Disjoint, Peopled, PausesUnique
<1>5. ASSUME NEW h \in Handlers
      PROVE  SoloTask(task[h])'
  <2>1. task'[h].pc = "idle" /\ KindOK(task[h])'
    BY <1>1 DEF Idle, Request, KindOK
  <2> QED BY <1>4, <2>1, IdleSolo DEF IdInv, TInv
<1>6. Single'
  BY <1>1 DEF Single, Idle, Request
<1> QED BY <1>4, <1>5, <1>6 DEF SoloOK

-----------------------------------------------------------------------------
(* The theorems.                                                            *)

LEMMA InitSolo == Init => SoloInv
<1> SUFFICES ASSUME Init PROVE SoloInv
  OBVIOUS
<1>1. IdInv /\ TypeOK
  BY InitIds, InitType
<1>2. Stored = {} /\ Disjoint(profiles) /\ profiles \in [ProfileIds -> Groups]
  BY LoadedAssumption DEF Init, Stored, Disjoint
<1>3. SoloState
  BY <1>2 DEF Init, SoloState, Known, RulesHaveProfile, Peopled, PausesUnique, RestInSync
<1>4. ASSUME NEW h \in Handlers
      PROVE  SoloTask(task[h])
  <2>1. /\ task[h].pc = "idle" /\ task[h].kind = "none" /\ task[h].upd = NoProfiles
        /\ task[h].cover = {}
    BY DEF Init, Idle, Request
  <2>2. KindOK(task[h])
    BY <2>1 DEF KindOK
  <2>3. Will(task[h]) = profiles
    BY <1>2, <2>1 DEF Will, PersistedProfiles, NoProfiles
  <2>4. ProfilesOK(task[h])
    BY <1>2, <2>3 DEF ProfilesOK, Peopled
  <2>5. RewritesOK(task[h]) /\ CreatesOK(task[h])
    BY <2>1 DEF RewritesOK, CreatesOK, Syncing, Retargeting, Creating, Pausing
  <2> QED BY <2>2, <2>4, <2>5 DEF SoloTask
<1>5. Single
  BY DEF Init, Single, Idle, Request
<1> QED BY <1>1, <1>3, <1>4, <1>5 DEF SoloInv, SoloOK

LEMMA StutterSolo == SoloInv /\ UNCHANGED vars => SoloInv'
<1> SUFFICES ASSUME SoloInv, UNCHANGED vars PROVE SoloInv'
  OBVIOUS
<1>1. IdInv'
  BY StutterIds DEF SoloInv
<1>2. Takes
  BY DEF vars, Takes, Same
<1> QED BY <1>1, <1>2, TakesSolo DEF SoloInv

LEMMA NextSolo == SoloInv /\ [Next]_vars /\ [Begins => Quiet]_vars => SoloInv'
<1> SUFFICES ASSUME SoloInv, Next, Begins => Quiet PROVE SoloInv'
  BY StutterSolo
<1>1. IdInv'
  BY NextIds DEF SoloInv
<1>2. ASSUME NEW h \in Handlers, Begin(h)
      PROVE  SoloOK'
  BY <1>1, <1>2, BeginSolo DEF Begins
<1>3. SoloOK'
  BY <1>1, <1>2, SucceedSolo, ErrSolo, OthersTake, TakesSolo, CrashSolo DEF Next
<1> QED BY <1>1, <1>3 DEF SoloInv

\* While requests are served one at a time, tapping Pause, again and again, with
\* failures, crashes and the janitor in between, never stacks pauses on a profile.
THEOREM PausesDoNotStack == Spec /\ OneByOne => []OnePause
<1>1. SoloInv => OnePause
  <2> SUFFICES ASSUME SoloInv, NEW p \in Owners PROVE Cardinality(PausesOf(p)) <= 1
    BY DEF OnePause
  <2>1. \A f, g \in PausesOf(p) : f = g
    BY SoloTypes DEF SoloState, PausesUnique, PausesOf, RulesOf
  <2>2. CASE PausesOf(p) = {}
    BY <2>2, FS_EmptySet
  <2>3. CASE PausesOf(p) # {}
    <3>1. PICK f : PausesOf(p) = {f}
      BY <2>1, <2>3
    <3> QED BY <3>1, FS_Singleton
  <2> QED BY <2>2, <2>3
<1> QED BY <1>1, InitSolo, NextSolo, PTL DEF Spec, OneByOne

\* No device gets into two profiles, although update and enroll check snapshots
\* and save later, even partially.
THEOREM DevicesHaveOneProfile == Spec /\ OneByOne => []OneProfilePerDevice
<1>1. SoloInv => OneProfilePerDevice
  BY SoloTypes DEF SoloState, Disjoint, OneProfilePerDevice
<1> QED BY <1>1, InitSolo, NextSolo, PTL DEF Spec, OneByOne

\* No rule outlives its profile, whatever is deleted and whatever fails.
THEOREM RulesKeepProfile == Spec /\ OneByOne => []RulesHaveProfile
<1>1. SoloInv => RulesHaveProfile
  BY SoloTypes DEF SoloState
<1> QED BY <1>1, InitSolo, NextSolo, PTL DEF Spec, OneByOne

\* No profile with rules is ever left without a device.
THEOREM RulesKeepDevices == Spec /\ OneByOne => []RulesHaveDevices
<1>1. SoloInv => RulesHaveDevices
  BY SoloTypes DEF SoloState, Peopled, RulesHaveDevices
<1> QED BY <1>1, InitSolo, NextSolo, PTL DEF Spec, OneByOne

\* Between requests the gateway enforces what the store says, for every rule
\* whose last save was not answered with an error, whatever failed, crashed or
\* was deleted before, and whatever the janitor does.
THEOREM GatewayFollowsStore == Spec /\ OneByOne => []InSync
<1>1. SoloInv => InSync
  <2> SUFFICES ASSUME SoloInv, Quiet, NEW f \in Stored \ told PROVE Synced(f)
    BY NoneAssumption DEF InSync, Synced, Enforces
  <2>1. \A h \in Handlers : f \notin task[h].cover
    BY IdleCover DEF Quiet
  <2> QED BY <2>1, SoloTypes DEF SoloState, RestInSync
<1> QED BY <1>1, InitSolo, NextSolo, PTL DEF Spec, OneByOne

\* With one handler there is nothing to overlap: the hypothesis holds of every
\* behaviour, so the theorems above speak of all of them.
THEOREM OneHandlerIsOneByOne ==
  ASSUME \A h, k \in Handlers : h = k
  PROVE  Spec => OneByOne
<1>1. Begins => Quiet
  <2> SUFFICES ASSUME NEW h \in Handlers, Begin(h) PROVE task[h].pc = "idle"
    BY DEF Begins, Quiet
  <2> QED BY DEF Begin, RuleCreate, RuleUpdate, RuleDelete, ProfileCreate, ProfileUpdate,
             ProfileDelete, Enroll, Pause, Unpause, Grant, Free
<1> QED BY <1>1, PTL DEF OneByOne

=============================================================================

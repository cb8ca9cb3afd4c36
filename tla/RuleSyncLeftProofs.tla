------------------------- MODULE RuleSyncLeftProofs -------------------------
(***************************************************************************)
(* Nothing is left behind.  While requests are served one at a time,        *)
(* nothing fails and no edit or move of rules falls into a pass of the      *)
(* janitor, each traffic rule of this program is recorded in the store or   *)
(* still remembered by the request that made it, and a record is dropped,   *)
(* or its id replaced, only when its traffic rule is gone.                  *)
(***************************************************************************)
EXTENDS RuleSyncSoloProofs

Unmade(t) == \A f \in RuleIds : t.made[f] = None

\* What a request deletes at the gateway before it is dropped from the store.
DeletesOK(t) ==
  t.kind \notin Syncing /\ t.pc \in {"delete", "drop"} =>
    \A f \in Doomed(t) \intersect Stored :
      gw[rules[f].gw] = None \/ (t.pc = "delete" /\ rules[f].gw \in t.todo)

\* A request that recreates a rule has deleted its old traffic rule.
ReplacesOK(t) ==
  t.kind \in Syncing =>
    /\ t.cover \subseteq Stored
    /\ t.pc = "delete" => t.todo = {t.cur.rule.gw}
    /\ t.pc = "create" => gw[t.cur.rule.gw] = None
    /\ \A f \in RuleIds : t.made[f] # None => gw[rules[f].gw] = None

LeftTask(t) ==
  /\ t.kind \in Creating /\ t.cur # None => t.cur.rid \in used \ Stored
  /\ t.kind \in Creating /\ t.pc = "commit" => \A f \in RuleIds : t.made[f] # None => f = t.cur.rid
  /\ t.kind \notin Retargeting /\ t.pc # "commit" => Unmade(t)
  /\ t.pc = "clear" => t.kind \in Clearing
  /\ t.pc # "compensate"
  /\ DeletesOK(t)
  /\ ReplacesOK(t)

\* A request has made u and will record it.
MadeBy(t, u) == t.kind \in Creating \union Syncing /\ \E f \in RuleIds : t.made[f] = u

LeftState ==
  /\ Stored \subseteq used
  /\ \A u \in GwIds : IsFamilyTime(u) => u \in Tracked \/ \E h \in Handlers : MadeBy(task[h], u)

LeftOK  == LeftState /\ \A h \in Handlers : LeftTask(task[h])

\* What a pass acts on.  A record that was missed once and is enforced again was
\* so when the pass listed the gateway; one that the pass will drop has no
\* traffic rule left, or it is among those the pass deletes first.
Seen     == suspects.meta \union janitor.drop
SeenOK(f) ==
  /\ janitor.pc = "plan" /\ f \in suspects.meta =>
       gw[rules[f].gw] = None \/ rules[f].gw \in janitor.on
  /\ janitor.pc \in {"delete", "drop"} /\ f \in janitor.drop =>
       gw[rules[f].gw] = None \/ (janitor.pc = "delete" /\ rules[f].gw \in janitor.del)
PassOK ==
  /\ Seen \subseteq used
  /\ \A h \in Handlers : task[h].kind \in Creating /\ task[h].cur # None =>
                          task[h].cur.rid \notin Seen
  /\ \A f \in Seen \intersect Stored : SeenOK(f)

LeftInv == SoloInv /\ (faults = 0 => LeftOK /\ PassOK)

-----------------------------------------------------------------------------
(* What the invariant says.                                                 *)

LEMMA TrackedBy ==
  ASSUME NEW u
  PROVE  u \in Tracked <=> \E f \in Stored : rules[f].gw = u
BY DEF Tracked, IdsOf

LEMMA StoredUsed ==
  ASSUME SoloInv, NEW f \in Stored
  PROVE  rules[f].gw \in GwIds /\ rules[f].gw \in used
BY StoredType, ClaimRules, ClaimUsed, SoloTypes DEF SoloInv, Stored

\* A slot that is idle has nothing to answer for.
LEMMA IdleLeft ==
  ASSUME NEW k \in Handlers, task'[k] = task[k], task[k].kind = "none", task[k].pc = "idle",
         LeftTask(task[k])
  PROVE  LeftTask(task[k])' /\ \A u : ~MadeBy(task[k], u)
<1>1. "none" \notin Creating \union Syncing
  BY DEF Creating, Pausing, Syncing, Retargeting
<1> QED BY <1>1 DEF LeftTask, DeletesOK, ReplacesOK, Unmade, MadeBy

\* A step of request h, while the other slots are idle.
LEMMA StepLeft ==
  ASSUME SoloInv, LeftOK, NEW h \in Handlers,
         \A k \in Handlers \ {h} : task[k].pc = "idle" /\ task'[k] = task[k],
         LeftState', LeftTask(task[h])'
  PROVE  LeftOK'
<1>1. ASSUME NEW k \in Handlers \ {h}
      PROVE  LeftTask(task[k])'
  BY IdleCover, IdleLeft DEF LeftOK
<1> QED BY <1>1 DEF LeftOK

LEMMA OthersMadeNothing ==
  ASSUME SoloInv, NEW h \in Handlers, task[h].pc # "idle", NEW k \in Handlers \ {h}, NEW u
  PROVE  ~MadeBy(task[k], u)
<1>1. task[k].kind = "none"
  BY OthersIdle, IdleCover
<1> QED BY <1>1 DEF MadeBy, Creating, Pausing, Syncing, Retargeting

\* A slot that a request has left.
LEMMA LeftIdle ==
  ASSUME NEW h \in Handlers, task'[h] = Idle
  PROVE  LeftTask(task[h])'
<1>1. "none" \notin Creating \union Syncing
  BY DEF Creating, Pausing, Syncing, Retargeting
<1> QED BY <1>1 DEF LeftTask, DeletesOK, ReplacesOK, Unmade, Idle, Request, NoneMade

\* The state after a step that moves no id out of the store or out of a request.
LEMMA KeptState ==
  ASSUME SoloInv, LeftState, used \subseteq used', rules' = rules,
         \A u \in GwIds : IsFamilyTime(u)' => \/ IsFamilyTime(u)
                                              \/ \E h \in Handlers : MadeBy(task[h], u)',
         \A u \in GwIds, h \in Handlers : MadeBy(task[h], u) => MadeBy(task[h], u)'
  PROVE  LeftState'
<1>1. Stored' = Stored /\ Tracked' = Tracked
  BY DEF Stored, Tracked, IdsOf
<1> QED BY <1>1 DEF LeftState

-----------------------------------------------------------------------------
(* A request begins.                                                        *)

LEMMA BeginLeft ==
  ASSUME SoloInv, LeftOK, Quiet, NEW h \in Handlers, NEW t, Start(h, t), used \subseteq used',
         t.made = NoneMade, t.pc # "compensate",
         t.kind \in Creating /\ t.cur # None => t.cur.rid \in used' \ used,
         t.pc = "clear" => t.kind \in Clearing,
         t.kind \notin Syncing /\ t.pc \in {"delete", "drop"} =>
           \A f \in Doomed(t) \intersect Stored : t.pc = "delete" /\ rules[f].gw \in t.todo,
         t.kind \in Syncing => t.cover \subseteq Stored /\ t.pc \notin {"delete", "create"}
  PROVE  LeftOK'
<1>1. /\ task' = [task EXCEPT ![h] = t] /\ UNCHANGED <<rules, gw>> /\ Stored' = Stored
      /\ task \in [Handlers -> Task]
  BY SoloTypes DEF Start, TypeOK, Stored
<1>2. task'[h] = t /\ \A k \in Handlers \ {h} : task[k].pc = "idle" /\ task'[k] = task[k]
  BY <1>1 DEF Quiet
<1>3. \A u \in GwIds, k \in Handlers : ~MadeBy(task[k], u)
  BY IdleCover DEF Quiet, MadeBy, Creating, Pausing, Syncing, Retargeting
<1>4. LeftState'
  BY <1>1, <1>3, KeptState DEF LeftOK, IsFamilyTime
<1>5. Doomed(task[h])' = Doomed(t)
  BY <1>1, <1>2 DEF Doomed, RulesOf, PausesOf, Stored
<1>6. DeletesOK(task[h])'
  BY <1>1, <1>2, <1>5 DEF DeletesOK
<1>7. ReplacesOK(task[h])'
  BY <1>1, <1>2 DEF ReplacesOK, NoneMade
<1>8. Stored \subseteq used
  BY DEF LeftOK, LeftState
<1>9. LeftTask(task[h])'
  BY <1>1, <1>2, <1>6, <1>7, <1>8 DEF LeftTask, Unmade, NoneMade
<1> QED BY <1>2, <1>4, <1>9, StepLeft

\* A request that makes a rule takes an id that is used by nothing.
LEMMA MakingLeft ==
  ASSUME SoloInv, LeftOK, Quiet, NEW h \in Handlers, NEW kind \in Creating, NEW p,
         NEW f \in RuleIds \ used, NEW b, NEW pause, NEW pc, used' = used \union {f},
         pc = "create" \/ (pc = "clear" /\ kind \in Clearing),
         Start(h, [Request(kind, pc, p) EXCEPT !.cur = NewItem(f, p, b, pause)])
  PROVE  LeftOK'
<1> DEFINE t == [Request(kind, pc, p) EXCEPT !.cur = NewItem(f, p, b, pause)]
<1>1. /\ t.kind = kind /\ t.pc = pc /\ t.made = NoneMade /\ t.cur = NewItem(f, p, b, pause)
  BY DEF Request
<1>2. Start(h, t)
  OBVIOUS
<1> HIDE DEF t
<1>3. t.cur.rid = f /\ kind \notin Syncing
  BY <1>1 DEF NewItem, Creating, Pausing, Syncing, Retargeting
<1> QED BY <1>1, <1>2, <1>3, BeginLeft

LEMMA RetargetLeft ==
  ASSUME SoloInv, LeftOK, Quiet, NEW h \in Handlers, NEW kind \in Retargeting, NEW p, NEW upd,
         Retarget(h, kind, p, upd)
  PROVE  LeftOK'
<1> DEFINE F == UNION {RulesOf(q) : q \in {q \in ProfileIds : upd[q] # None}}
           pc == IF F = {} THEN "commit" ELSE "put"
           t == [Request(kind, pc, p) EXCEPT !.upd = upd, !.work = WorkOf(F, upd), !.cover = F]
<1>1. Start(h, t) /\ used' = used
  BY DEF Retarget
<1>2. t.kind = kind /\ t.pc = pc /\ t.made = NoneMade /\ t.cover = F
  <2> HIDE DEF F, pc
  <2> QED BY DEF Request
<1>3. pc \in {"put", "commit"} /\ F \subseteq Stored
  BY DEF RulesOf
<1> HIDE DEF t, pc, F
<1>4. kind \in Syncing \ Creating
  BY DEF Creating, Pausing, Syncing, Retargeting
<1> QED BY <1>1, <1>2, <1>3, <1>4, BeginLeft

LEMMA BeginsLeft ==
  ASSUME SoloInv, LeftOK, Quiet, NEW h \in Handlers, Begin(h)
  PROVE  LeftOK'
<1>t. /\ {"RuleCreate", "Pause", "Grant"} \subseteq Creating
      /\ {"Pause", "Grant", "Unpause"} \subseteq Clearing
      /\ {"ProfileUpdate", "Enroll"} = Retargeting
      /\ "RuleUpdate" \in Syncing \ Creating
      /\ {"RuleDelete", "ProfileDelete", "Unpause", "Grant"} \intersect Syncing = {}
      /\ {"RuleDelete", "ProfileDelete", "Unpause"} \intersect Creating = {}
  BY DEF Creating, Pausing, Retargeting, Syncing, Clearing
<1>1. CASE RuleCreate(h)
  BY <1>1, <1>t, MakingLeft DEF RuleCreate
<1>2. CASE RuleUpdate(h)
  <2> DEFINE it(f, b) == [rid |-> f, rule |-> [rules[f] EXCEPT !.body = b],
                          targets |-> TargetsOf(profiles, rules[f].prof)]
             t(f, b) == [Request("RuleUpdate", "put", rules[f].prof)
                           EXCEPT !.work = {it(f, b)}, !.cover = {f}]
  <2>1. PICK f \in Stored, b \in Bodies : Start(h, t(f, b)) /\ used' = used
    BY <1>2 DEF RuleUpdate
  <2>2. /\ t(f, b).kind = "RuleUpdate" /\ t(f, b).pc = "put" /\ t(f, b).made = NoneMade
        /\ t(f, b).cover = {f}
    <3> HIDE DEF it
    <3> QED BY DEF Request
  <2> HIDE DEF t
  <2> QED BY <1>t, <2>1, <2>2, BeginLeft
<1>3. CASE RuleDelete(h)
  <2> DEFINE it(f) == [rid |-> f, rule |-> rules[f], targets |-> {}]
             t(f) == [Request("RuleDelete", "delete", rules[f].prof)
                        EXCEPT !.cur = it(f), !.todo = IdsOf({f})]
  <2>1. PICK f \in Stored : Start(h, t(f)) /\ used' = used
    BY <1>3 DEF RuleDelete
  <2>2. /\ t(f).kind = "RuleDelete" /\ t(f).pc = "delete" /\ t(f).made = NoneMade
        /\ t(f).cur = it(f) /\ t(f).todo = IdsOf({f})
    <3> HIDE DEF it
    <3> QED BY DEF Request
  <2>3. it(f).rid = f
    OBVIOUS
  <2> HIDE DEF t, it
  <2>4. Doomed(t(f)) = {f} /\ rules[f].gw \in t(f).todo
    BY <2>2, <2>3 DEF Doomed, IdsOf
  <2> QED BY <1>t, <2>1, <2>2, <2>4, BeginLeft
<1>4. CASE ProfileCreate(h)
  <2>1. UNCHANGED <<rules, gw, task>> /\ used \subseteq used'
    BY <1>4 DEF ProfileCreate
  <2>2. LeftState'
    BY <2>1, KeptState DEF LeftOK, IsFamilyTime, MadeBy
  <2>3. \A k \in Handlers : LeftTask(task[k])'
    BY <2>1, IdleCover, IdleLeft DEF Quiet, LeftOK
  <2> QED BY <2>2, <2>3 DEF LeftOK
<1>5. CASE ProfileUpdate(h)
  BY <1>5, <1>t, RetargetLeft DEF ProfileUpdate
<1>6. CASE Enroll(h)
  BY <1>6, <1>t, RetargetLeft DEF Enroll
<1>7. CASE ProfileDelete(h)
  <2> DEFINE pc(p) == IF IdsOf(RulesOf(p)) = {} THEN "drop" ELSE "delete"
             t(p) == [Request("ProfileDelete", pc(p), p) EXCEPT !.todo = IdsOf(RulesOf(p))]
  <2>1. PICK p : Start(h, t(p)) /\ used' = used
    BY <1>7 DEF ProfileDelete
  <2>2. pc(p) \in {"drop", "delete"} /\ (pc(p) = "drop" => IdsOf(RulesOf(p)) = {})
    OBVIOUS
  <2> HIDE DEF pc
  <2>3. /\ t(p).kind = "ProfileDelete" /\ t(p).pc = pc(p) /\ t(p).made = NoneMade
        /\ t(p).todo = IdsOf(RulesOf(p)) /\ t(p).prof = p
    BY DEF Request
  <2> HIDE DEF t
  <2>4. \A f \in Doomed(t(p)) : rules[f].gw \in t(p).todo
    BY <2>3 DEF Doomed, IdsOf
  <2> QED BY <1>t, <2>1, <2>2, <2>3, <2>4, BeginLeft
<1>8. CASE Pause(h)
  BY <1>8, <1>t, MakingLeft DEF Pause
<1>9. CASE Unpause(h)
  <2>1. PICK p : Start(h, Request("Unpause", "clear", p)) /\ used' = used
    BY <1>9 DEF Unpause
  <2>2. LET t == Request("Unpause", "clear", p)
        IN  t.kind = "Unpause" /\ t.pc = "clear" /\ t.made = NoneMade
    BY DEF Request
  <2> QED BY <1>t, <2>1, <2>2, BeginLeft
<1>10. CASE Grant(h)
  <2>1. CASE \E p \in Known : Start(h, Request("Grant", "clear", p)) /\ used' = used
    <3>1. PICK p : Start(h, Request("Grant", "clear", p)) /\ used' = used
      BY <2>1
    <3>2. LET t == Request("Grant", "clear", p)
          IN  t.kind = "Grant" /\ t.pc = "clear" /\ t.made = NoneMade /\ t.cur = None
      BY DEF Request
    <3> QED BY <1>t, <3>1, <3>2, BeginLeft
  <2>2. CASE \E p \in Known, b \in Timed, f \in RuleIds \ used :
               /\ used' = used \union {f}
               /\ Start(h, [Request("Grant", "clear", p) EXCEPT !.cur = NewItem(f, p, b, TRUE)])
    BY <1>t, <2>2, MakingLeft
  <2> QED BY <1>10, <2>1, <2>2 DEF Grant
<1> QED BY <1>1, <1>2, <1>3, <1>4, <1>5, <1>6, <1>7, <1>8, <1>9, <1>10 DEF Begin

-----------------------------------------------------------------------------
(* The steps of a request at the gateway.                                   *)

\* A step of a request that goes on.
LEMMA MoveLeft ==
  ASSUME SoloInv, LeftOK, NEW h \in Handlers, task[h].pc # "idle",
         rules' = rules, used \subseteq used',
         \A k \in Handlers \ {h} : task'[k] = task[k],
         task'[h].kind = task[h].kind, task'[h].cover = task[h].cover,
         task[h].kind \in Creating => task'[h].cur = task[h].cur,
         \A f \in RuleIds : task[h].made[f] \in {None, task'[h].made[f]},
         \A u \in GwIds : IsFamilyTime(u)' => IsFamilyTime(u) \/ MadeBy(task[h], u)',
         task[h].kind \in Creating /\ task'[h].pc = "commit" =>
           \A f \in RuleIds : task'[h].made[f] # None => f = task[h].cur.rid,
         task[h].kind \notin Retargeting /\ task'[h].pc # "commit" => Unmade(task'[h]),
         task'[h].pc \notin {"clear", "compensate"},
         DeletesOK(task[h])', ReplacesOK(task[h])'
  PROVE  LeftOK'
<1>t. LeftState /\ LeftTask(task[h]) /\ task[h].made \in [RuleIds -> GwIds \union {None}]
  BY TaskType, SoloTypes DEF LeftOK
<1>1. \A u \in GwIds : MadeBy(task[h], u) => MadeBy(task[h], u)'
  BY NoneAssumption DEF MadeBy
<1>2. \A u \in GwIds, k \in Handlers : MadeBy(task[k], u) => MadeBy(task[k], u)'
  BY <1>1, OthersMadeNothing
<1>3. LeftState'
  BY <1>2, <1>t, KeptState
<1>4. Stored' = Stored
  BY DEF Stored
<1>5. LeftTask(task[h])'
  BY <1>4, <1>t DEF LeftTask, Unmade
<1> QED BY <1>3, <1>5, OthersIdle, StepLeft

LEMMA ClearLeft ==
  ASSUME SoloInv, LeftOK, NEW h \in Handlers, Clear(h)
  PROVE  LeftOK'
<1> DEFINE t == [task[h] EXCEPT !.pc = "delete", !.todo = IdsOf(PausesOf(task[h].prof))]
           n == AfterDelete(t)
<1>1. /\ task[h].pc = "clear" /\ Goto(h, n) /\ UNCHANGED <<gw, used, rules>>
      /\ task[h] \in Task /\ TInv /\ task[h].kind \notin Syncing /\ LeftTask(task[h])
  BY TaskType, SoloTypes DEF Clear, Shape, LeftOK
<1>2. IdsOf(PausesOf(task[h].prof)) \subseteq GwIds
  BY IdsType, SoloTypes DEF PausesOf, RulesOf
<1>3. /\ t \in Task /\ t.kind = task[h].kind /\ t.cover = task[h].cover /\ t.made = task[h].made
      /\ t.cur = task[h].cur /\ t.pc = "delete" /\ t.prof = task[h].prof
      /\ t.todo = IdsOf(PausesOf(task[h].prof))
  BY <1>1, <1>2 DEF Task, Steps
<1> HIDE DEF t
<1>4. /\ n.kind = task[h].kind /\ n.cover = task[h].cover /\ n.made = task[h].made
      /\ n.cur = task[h].cur /\ n.prof = task[h].prof /\ n.todo = t.todo
      /\ n.pc = IF t.todo # {} THEN "delete" ELSE "drop"
  BY <1>1, <1>3, AfterFields
<1> HIDE DEF n
<1>5. task'[h] = n /\ \A k \in Handlers \ {h} : task'[k] = task[k]
  BY <1>1, GotoFields
<1>6. task[h].kind \in Clearing /\ Unmade(task[h])
  BY <1>1 DEF LeftTask, Syncing
<1>7. Doomed(task[h])' = PausesOf(task[h].prof)
  BY <1>1, <1>4, <1>5, <1>6 DEF Doomed, PausesOf, RulesOf, Stored, Clearing, Pausing
<1>8. DeletesOK(task[h])'
  BY <1>1, <1>3, <1>4, <1>5, <1>7 DEF DeletesOK, IdsOf
<1>9. ReplacesOK(task[h])'
  BY <1>1, <1>4, <1>5 DEF ReplacesOK
<1> QED BY <1>1, <1>4, <1>5, <1>6, <1>8, <1>9, MoveLeft DEF IsFamilyTime, Unmade

LEMMA DeleteLeft ==
  ASSUME SoloInv, LeftOK, NEW h \in Handlers, Delete(h)
  PROVE  LeftOK'
<1> DEFINE t(v) == [task[h] EXCEPT !.todo = @ \ {v}]
           n(v) == AfterDelete(t(v))
<1>1. PICK v \in task[h].todo :
        gw' = Gone(v) /\ Goto(h, n(v)) /\ UNCHANGED <<rules, used>>
  BY DEF Delete
<1>2. /\ task[h].pc = "delete" /\ task[h] \in Task /\ TInv /\ LeftTask(task[h])
      /\ gw \in [GwIds -> GwRule \union {Foreign, None}] /\ task[h].todo \subseteq GwIds
  BY TaskType, SoloTypes DEF Delete, TypeOK, LeftOK
<1>3. /\ t(v) \in Task /\ t(v).kind = task[h].kind /\ t(v).cover = task[h].cover
      /\ t(v).cur = task[h].cur /\ t(v).pc = "delete" /\ t(v).made = task[h].made
      /\ t(v).prof = task[h].prof /\ t(v).todo = task[h].todo \ {v}
  BY <1>2 DEF Task
<1> HIDE DEF t
<1>4. /\ n(v).kind = task[h].kind /\ n(v).cover = task[h].cover /\ n(v).cur = task[h].cur
      /\ n(v).made = task[h].made /\ n(v).prof = task[h].prof
      /\ n(v).todo = task[h].todo \ {v}
      /\ n(v).pc = IF n(v).todo # {} THEN "delete"
                   ELSE IF task[h].kind \in Syncing THEN "create" ELSE "drop"
  BY <1>3, AfterFields
<1> HIDE DEF n
<1>5. task'[h] = n(v) /\ \A k \in Handlers \ {h} : task'[k] = task[k]
  BY <1>1, <1>2, GotoFields
<1>6. gw'[v] = None /\ \A u \in GwIds : gw'[u] \in {gw[u], None}
  BY <1>1, <1>2 DEF Gone
<1>7. Stored' = Stored /\ Doomed(task[h])' = Doomed(task[h])
  <2>1. task'[h].kind = task[h].kind /\ task'[h].cur = task[h].cur /\ task'[h].prof = task[h].prof
    BY <1>4, <1>5
  <2>2. Stored' = Stored /\ \A p : RulesOf(p)' = RulesOf(p) /\ PausesOf(p)' = PausesOf(p)
    BY <1>1 DEF PausesOf, RulesOf, Stored
  <2> QED BY <2>1, <2>2 DEF Doomed
<1>8. \A f \in Stored : rules[f].gw \in GwIds
  BY StoredUsed
<1>9. DeletesOK(task[h])'
  <2> SUFFICES ASSUME task[h].kind \notin Syncing, NEW f \in Doomed(task[h]) \intersect Stored
               PROVE  gw'[rules[f].gw] = None
                        \/ (task'[h].pc = "delete" /\ rules[f].gw \in task'[h].todo)
    BY <1>1, <1>4, <1>5, <1>7 DEF DeletesOK
  <2>1. gw[rules[f].gw] = None \/ rules[f].gw \in task[h].todo
    BY <1>2 DEF LeftTask, DeletesOK
  <2> QED BY <1>4, <1>5, <1>6, <1>8, <2>1
<1>10. ReplacesOK(task[h])'
  <2> SUFFICES ASSUME task[h].kind \in Syncing PROVE ReplacesOK(task[h])'
    BY <1>4, <1>5 DEF ReplacesOK
  <2>1. ReplacesOK(task[h]) /\ task[h].todo = {task[h].cur.rule.gw}
    BY <1>2 DEF LeftTask, ReplacesOK
  <2>2. task'[h].pc = "create" /\ gw'[task[h].cur.rule.gw] = None
    BY <1>4, <1>5, <1>6, <2>1
  <2>3. \A f \in RuleIds : task[h].made[f] # None => gw'[rules[f].gw] = None
    <3>1. ASSUME NEW f \in RuleIds, task[h].made[f] # None
          PROVE  gw'[rules[f].gw] = None
      <4>1. f \in task[h].cover
        BY <3>1, SoloTypes DEF SoloTask, RewritesOK
      <4>2. gw[rules[f].gw] = None /\ rules[f].gw \in GwIds
        BY <1>8, <2>1, <3>1, <4>1 DEF ReplacesOK
      <4> QED BY <1>6, <4>2
    <3> QED BY <3>1
  <2> QED BY <1>1, <1>4, <1>5, <1>7, <2>1, <2>2, <2>3 DEF ReplacesOK
<1>11. task[h].kind \notin Retargeting => Unmade(task'[h])
  BY <1>2, <1>4, <1>5 DEF LeftTask, Unmade
<1> QED BY <1>1, <1>2, <1>4, <1>5, <1>6, <1>9, <1>10, <1>11, MoveLeft DEF IsFamilyTime

LEMMA PutLeft ==
  ASSUME SoloInv, LeftOK, NEW h \in Handlers, Put(h)
  PROVE  LeftOK'
<1>1. PICK item \in task[h].work :
        /\ task'[h].cur = item
        /\ task'[h].made = task[h].made /\ task'[h].kind = task[h].kind
        /\ task'[h].cover = task[h].cover
        /\ \A k \in Handlers \ {h} : task'[k] = task[k]
        /\ \/ /\ gw[item.rule.gw] # None
              /\ gw' = [gw EXCEPT ![item.rule.gw] = Translate(item)]
              /\ task'[h].pc \in {"commit", "put"}
           \/ gw' = gw /\ task'[h].pc = "delete" /\ task'[h].todo = {item.rule.gw}
  <2>1. PICK item \in task[h].work :
        /\ task'[h].cur = item
        /\ task'[h].made = task[h].made /\ task'[h].kind = task[h].kind
        /\ task'[h].cover = task[h].cover
        /\ \A k \in Handlers \ {h} : task'[k] = task[k]
        /\ \/ /\ gw[item.rule.gw] # None
              /\ gw' = [gw EXCEPT ![item.rule.gw] = Translate(item)]
              /\ task'[h].pc = IF task'[h].work = {} THEN "commit" ELSE "put"
           \/ gw' = gw /\ task'[h].pc = "delete" /\ task'[h].todo = {item.rule.gw}
    BY PutFields
  <2> QED BY <2>1
<1>2. /\ task[h].pc = "put" /\ task[h] \in Task /\ TInv /\ task[h].kind \in Syncing \ Creating
      /\ gw \in [GwIds -> GwRule \union {Foreign, None}] /\ UNCHANGED <<rules, used>>
      /\ RewritesOK(task[h]) /\ LeftTask(task[h])
  <2>1. Shape(task[h]) /\ SoloTask(task[h]) /\ task[h].pc = "put"
    BY TaskType, SoloTypes DEF Put
  <2>2. task[h].kind \in Syncing \ Creating
    BY <2>1 DEF Shape, Syncing, Retargeting, Creating, Pausing
  <2> QED BY <2>1, <2>2, TaskType, SoloTypes DEF Put, TypeOK, SoloTask, LeftOK
<1>3. /\ item.rid \in RuleIds /\ item.rule.gw \in GwIds /\ Claim(item.rid, item.rule.gw)
      /\ gw[item.rule.gw] # Foreign
  BY WorkClaims DEF SoloInv, IdInv, OwnedOK
<1>4. \A u \in GwIds : IsFamilyTime(u)' => IsFamilyTime(u)
  BY <1>1, <1>2, <1>3 DEF IsFamilyTime
<1>5. ReplacesOK(task[h])'
  <2>1. \A f \in RuleIds : task[h].made[f] # None => gw'[rules[f].gw] = None
    <3>1. ASSUME NEW f \in RuleIds, task[h].made[f] # None
          PROVE  gw'[rules[f].gw] = None
      <4>1. gw[rules[f].gw] = None /\ f \in Stored /\ f # item.rid
        BY <1>2, <3>1 DEF LeftTask, ReplacesOK, RewritesOK
      <4>2. rules[f].gw \in GwIds /\ rules[f].gw # item.rule.gw
        BY <1>3, <4>1, StoredUsed, ClaimRules, ClaimUnique DEF SoloInv
      <4> QED BY <1>1, <1>2, <4>1, <4>2
    <3> QED BY <3>1
  <2>2. Stored' = Stored
    BY <1>2 DEF Stored
  <2>3. task'[h].pc # "create" /\ (task'[h].pc = "delete" => task'[h].todo = {item.rule.gw})
    BY <1>1
  <2> QED BY <1>1, <1>2, <2>1, <2>2, <2>3 DEF ReplacesOK, LeftTask
<1>6. DeletesOK(task[h])'
  BY <1>1, <1>2 DEF DeletesOK
<1>7. task[h].kind \notin Retargeting => Unmade(task'[h])
  BY <1>1, <1>2 DEF LeftTask, Unmade
<1>8. task'[h].pc \notin {"clear", "compensate"}
  BY <1>1
<1> QED BY <1>1, <1>2, <1>4, <1>5, <1>6, <1>7, <1>8, MoveLeft

LEMMA CreateLeft ==
  ASSUME SoloInv, LeftOK, NEW h \in Handlers, Create(h)
  PROVE  LeftOK'
<1> DEFINE c == task[h].cur
<1>1. PICK v \in GwIds \ used :
        /\ gw' = [gw EXCEPT ![v] = Translate(c)] /\ used' = used \union {v}
        /\ task'[h].cur = c
        /\ task'[h].made = [task[h].made EXCEPT ![c.rid] = v]
        /\ task'[h].kind = task[h].kind /\ task'[h].cover = task[h].cover
        /\ task'[h].pc = IF task[h].work = {} THEN "commit" ELSE "put"
        /\ \A k \in Handlers \ {h} : task'[k] = task[k]
  BY CreateFields
<1>2. /\ task[h].pc = "create" /\ task[h] \in Task /\ TInv
      /\ task[h].kind \in Creating \union Syncing
      /\ gw \in [GwIds -> GwRule \union {Foreign, None}]
      /\ task[h].made \in [RuleIds -> GwIds \union {None}]
      /\ c # None /\ c.rid \in RuleIds
      /\ \A i \in task[h].work : i.rid \in RuleIds /\ task[h].kind \in Syncing
      /\ rules' = rules /\ LeftTask(task[h])
  <2>1. /\ task[h].pc = "create" /\ Shape(task[h]) /\ task[h].cur \in Item \union {None}
        /\ task[h].work \subseteq Item
    BY TaskType, SoloTypes DEF Create
  <2> QED BY <2>1, TaskType, SoloTypes DEF TypeOK, Shape, Item, Create, LeftOK
<1>3. v # None /\ Translate(c) \notin {None, Foreign}
  <2>1. c \in Item
    BY <1>2, TaskType, SoloTypes
  <2> QED BY <2>1, TranslateType, NoneAssumption
<1>4. \A u \in GwIds : IsFamilyTime(u)' => IsFamilyTime(u) \/ MadeBy(task[h], u)'
  BY <1>1, <1>2 DEF IsFamilyTime, MadeBy
<1>5. task[h].kind \notin Retargeting => task'[h].pc = "commit"
  <2> SUFFICES ASSUME task[h].kind \notin Retargeting, NEW i \in task[h].work PROVE FALSE
    BY <1>1
  <2>1. /\ KindOK(task[h]) /\ RewritesOK(task[h]) /\ Replacing(task[h])
        /\ task[h].kind \in Syncing
    BY <1>2, SoloTypes DEF SoloTask, Replacing
  <2>2. task[h].kind = "RuleUpdate"
    BY <2>1 DEF Syncing
  <2>3. c.rid \in task[h].cover /\ i.rid \in task[h].cover /\ i.rid # c.rid
    BY <1>2, <2>1 DEF RewritesOK, ItemOK
  <2> QED BY <2>1, <2>2, <2>3 DEF KindOK
<1>6. task[h].kind \in Creating => \A f \in RuleIds : task'[h].made[f] # None => f = c.rid
  <2>1. task[h].kind \in Creating => Unmade(task[h])
    BY <1>2 DEF LeftTask, Creating, Pausing, Retargeting
  <2> QED BY <1>1, <1>2, <2>1 DEF Unmade
<1>7. task[h].kind \in Syncing => task[h].made[c.rid] = None /\ ItemOK(task[h], c)
  BY <1>2, SoloTypes DEF SoloTask, RewritesOK, Replacing
<1>8. ReplacesOK(task[h])'
  <2> SUFFICES ASSUME task[h].kind \in Syncing PROVE ReplacesOK(task[h])'
    BY <1>1 DEF ReplacesOK
  <2>1. /\ task[h].cover \subseteq Stored /\ gw[c.rule.gw] = None
        /\ \A f \in RuleIds : task[h].made[f] # None => gw[rules[f].gw] = None
    BY <1>2 DEF LeftTask, ReplacesOK
  <2>2. c.rid \in Stored /\ gw[rules[c.rid].gw] = None
    BY <1>7, <2>1 DEF ItemOK
  <2>3. ASSUME NEW f \in RuleIds, task'[h].made[f] # None
        PROVE  gw'[rules[f].gw] = None
    <3>1. gw[rules[f].gw] = None
      BY <1>1, <1>2, <2>1, <2>2, <2>3
    <3>2. f \in Stored
      BY <1>1, <1>2, <2>1, <2>2, <2>3, SoloTypes DEF SoloTask, RewritesOK
    <3> QED BY <1>1, <1>2, <3>1, <3>2, StoredUsed
  <2>4. Stored' = Stored /\ task'[h].pc \notin {"delete", "create"}
    BY <1>1, <1>2 DEF Stored
  <2> QED BY <1>1, <1>2, <2>1, <2>3, <2>4 DEF ReplacesOK
<1>9. task'[h].pc \in {"commit", "put"}
  BY <1>1
<1>10. DeletesOK(task[h])'
  BY <1>9 DEF DeletesOK
<1>11. \A f \in RuleIds : task[h].made[f] \in {None, task'[h].made[f]}
  <2>1. task[h].made[c.rid] = None
    BY <1>2, <1>7 DEF LeftTask, Unmade, Creating, Pausing, Retargeting
  <2> QED BY <1>1, <1>2, <2>1
<1> QED BY <1>1, <1>2, <1>4, <1>5, <1>6, <1>8, <1>9, <1>10, <1>11, MoveLeft

-----------------------------------------------------------------------------
(* The steps of a request at the store, and its end.                        *)

\* The end of a request: what the gateway enforces stays recorded, and what the
\* request has made is recorded.
LEMMA EndLeft ==
  ASSUME SoloInv, LeftOK, NEW h \in Handlers, task[h].pc # "idle", Goto(h, Idle),
         gw' = gw, used' = used, Stored' \subseteq used,
         \A f \in Stored : gw[rules[f].gw] # None =>
           f \in Stored' /\ rules'[f].gw = rules[f].gw,
         \A u \in GwIds : MadeBy(task[h], u) => \E f \in Stored' : rules'[f].gw = u
  PROVE  LeftOK'
<1>1. task'[h] = Idle /\ \A k \in Handlers \ {h} : task'[k] = task[k]
  BY GotoFields, SoloTypes
<1>2. ASSUME NEW u \in GwIds, IsFamilyTime(u)'
      PROVE  u \in Tracked'
  <2>1. IsFamilyTime(u) /\ gw[u] # None
    BY <1>2 DEF IsFamilyTime
  <2>2. u \in Tracked \/ MadeBy(task[h], u)
    BY <2>1, OthersMadeNothing DEF LeftOK, LeftState
  <2>3. \E f \in Stored' : rules'[f].gw = u
    BY <2>1, <2>2, TrackedBy
  <2> QED BY <2>3 DEF Tracked, IdsOf
<1>3. LeftState'
  BY <1>2 DEF LeftOK, LeftState
<1> QED BY <1>1, <1>3, LeftIdle, OthersIdle, StepLeft

\* A request that has made nothing is answered, and the store stays as it is.
LEMMA StopLeft ==
  ASSUME SoloInv, LeftOK, NEW h \in Handlers, task[h].pc # "idle", Goto(h, Idle),
         Unmade(task[h]), UNCHANGED <<rules, gw, used>>
  PROVE  LeftOK'
<1>1. \A u \in GwIds : ~MadeBy(task[h], u)
  BY NoneAssumption DEF MadeBy, Unmade
<1>2. Stored' = Stored /\ Stored \subseteq used
  BY DEF Stored, LeftOK, LeftState
<1> QED BY <1>1, <1>2, EndLeft

LEMMA DropLeft ==
  ASSUME SoloInv, LeftOK, NEW h \in Handlers, Drop(h)
  PROVE  LeftOK'
<1>1. /\ task[h].pc = "drop" /\ task[h].kind \notin Syncing /\ task[h] \in Task /\ TInv
      /\ rules' = Forget(Doomed(task[h])) /\ UNCHANGED <<gw, used>>
      /\ LeftTask(task[h]) /\ LeftState
  BY TaskType, SoloTypes DEF Drop, Shape, LeftOK
<1>2. \A f \in Stored : f \in Doomed(task[h]) => gw[rules[f].gw] = None
  BY <1>1 DEF LeftTask, DeletesOK
<1>3. /\ Stored' \subseteq Stored
      /\ \A f \in Stored : gw[rules[f].gw] # None => f \in Stored' /\ rules'[f].gw = rules[f].gw
  BY <1>1, <1>2 DEF Forget, Stored
<1>4. Unmade(task[h]) /\ \A u \in GwIds : ~MadeBy(task[h], u)
  BY <1>1, NoneAssumption DEF LeftTask, Syncing, MadeBy, Unmade
<1>5. CASE Answer(h)
  BY <1>1, <1>3, <1>4, <1>5, EndLeft DEF Answer, LeftState
<1>6. CASE task[h].kind \in Pausing /\ Goto(h, [task[h] EXCEPT !.pc = "create"])
  <2>1. /\ task'[h].pc = "create" /\ task'[h].kind = task[h].kind /\ task'[h].made = task[h].made
        /\ task'[h].cur = task[h].cur /\ \A k \in Handlers \ {h} : task'[k] = task[k]
    BY <1>1, <1>6, GotoFields DEF Task
  <2>2. ASSUME NEW u \in GwIds, IsFamilyTime(u)'
        PROVE  u \in Tracked'
    <3>1. IsFamilyTime(u) /\ gw[u] # None
      BY <1>1, <2>2 DEF IsFamilyTime
    <3>2. u \in Tracked
      BY <1>1, <1>4, <3>1, OthersMadeNothing DEF LeftState
    <3>3. \E f \in Stored' : rules'[f].gw = u
      BY <1>3, <3>1, <3>2, TrackedBy
    <3> QED BY <3>3 DEF Tracked, IdsOf
  <2>3. LeftState'
    BY <1>1, <1>3, <2>2 DEF LeftState
  <2>4. LeftTask(task[h])'
    BY <1>1, <1>3, <1>4, <2>1 DEF LeftTask, DeletesOK, ReplacesOK, Unmade
  <2> QED BY <1>1, <2>1, <2>3, <2>4, OthersIdle, StepLeft
<1> QED BY <1>5, <1>6 DEF Drop

LEMMA PersistedLeft ==
  ASSUME SoloInv, LeftOK, NEW h \in Handlers, task[h].kind \in Retargeting,
         task[h].pc \in {"commit", "partial"}, Goto(h, Idle),
         rules' = Persisted(task[h]), UNCHANGED <<gw, used>>
  PROVE  LeftOK'
<1>1. /\ task[h].kind \in Syncing /\ RewritesOK(task[h]) /\ ReplacesOK(task[h])
      /\ Stored \subseteq used /\ task[h].made \in [RuleIds -> GwIds \union {None}]
  BY TaskType, SoloTypes DEF Syncing, SoloTask, LeftOK, LeftTask, LeftState
<1>2. \A f \in RuleIds : rules'[f] = IF f \in Stored /\ task[h].made[f] # None
                                     THEN [rules[f] EXCEPT !.gw = task[h].made[f]] ELSE rules[f]
  BY DEF Persisted
<1>3. ASSUME NEW f \in Stored
      PROVE  /\ f \in Stored'
             /\ rules'[f].gw = IF task[h].made[f] # None THEN task[h].made[f] ELSE rules[f].gw
  <2>1. rules[f] \in Rule /\ f \in RuleIds
    BY StoredType, SoloTypes
  <2>2. CASE task[h].made[f] # None
    <3>1. rules'[f] = [rules[f] EXCEPT !.gw = task[h].made[f]] /\ task[h].made[f] \in GwIds
      BY <1>1, <1>2, <2>1, <2>2
    <3>2. rules'[f] \in Rule /\ rules'[f].gw = task[h].made[f]
      BY <2>1, <3>1 DEF Rule
    <3> QED BY <2>1, <2>2, <3>2, NoneAssumption DEF Stored
  <2>3. CASE task[h].made[f] = None
    BY <1>2, <2>1, <2>3 DEF Stored
  <2> QED BY <2>2, <2>3
<1>4. Stored' \subseteq Stored
  BY <1>2 DEF Stored
<1>5. \A f \in Stored : gw[rules[f].gw] # None => f \in Stored' /\ rules'[f].gw = rules[f].gw
  BY <1>1, <1>3 DEF ReplacesOK, Stored
<1>6. ASSUME NEW u \in GwIds, MadeBy(task[h], u)
      PROVE  \E f \in Stored' : rules'[f].gw = u
  <2>1. PICK f \in RuleIds : task[h].made[f] = u
    BY <1>6 DEF MadeBy
  <2>2. f \in Stored /\ u # None
    BY <1>1, <2>1, NoneAssumption DEF RewritesOK, ReplacesOK
  <2> QED BY <1>3, <2>1, <2>2
<1> QED BY <1>1, <1>4, <1>5, <1>6, EndLeft

LEMMA CommitLeft ==
  ASSUME SoloInv, LeftOK, NEW h \in Handlers, Commit(h)
  PROVE  LeftOK'
<1> DEFINE c == task[h].cur
<1>1. /\ task[h].pc = "commit" /\ Goto(h, Idle) /\ rules' = Committed(task[h])
      /\ UNCHANGED <<gw, used>> /\ task[h] \in Task
      /\ task[h].kind \in Creating \union Syncing
      /\ task[h].made \in [RuleIds -> GwIds \union {None}]
      /\ rules \in [RuleIds -> Rule \union {None}]
      /\ LeftTask(task[h]) /\ Stored \subseteq used
  BY TaskType, SoloTypes DEF Commit, Answer, Shape, TypeOK, LeftOK, LeftState
<1>2. CASE task[h].kind \in Retargeting
  BY <1>1, <1>2, PersistedLeft DEF Committed
<1>3. CASE task[h].kind \notin Retargeting
  <2>1. c # None /\ c.rid \in RuleIds /\ Written(task[h]).gw \in GwIds
    BY <1>1, <1>3, TaskType, SoloTypes DEF Shape, Item
  <2>2. /\ Written(task[h]) # None
        /\ Written(task[h]).gw = IF task[h].made[c.rid] = None THEN c.rule.gw
                                                               ELSE task[h].made[c.rid]
    BY <1>1, <2>1, WrittenFields
  <2>3. CASE task[h].kind \in Creating
    <3>1. rules' = [rules EXCEPT ![c.rid] = Written(task[h])]
      BY <1>1, <1>3, <2>3 DEF Committed
    <3>2. c.rid \in used \ Stored /\ \A f \in RuleIds : task[h].made[f] # None => f = c.rid
      BY <1>1, <2>1, <2>3 DEF LeftTask
    <3>3. Stored' = Stored \union {c.rid} /\ \A f \in Stored : rules'[f] = rules[f]
      BY <1>1, <2>1, <2>2, <3>1, <3>2 DEF Stored
    <3>4. ASSUME NEW u \in GwIds, MadeBy(task[h], u)
          PROVE  \E f \in Stored' : rules'[f].gw = u
      <4>1. task[h].made[c.rid] = u
        BY <3>2, <3>4, NoneAssumption DEF MadeBy
      <4>2. rules'[c.rid].gw = u
        BY <1>1, <2>1, <2>2, <3>1, <4>1, NoneAssumption
      <4> QED BY <3>3, <4>2
    <3> QED BY <1>1, <3>2, <3>3, <3>4, EndLeft
  <2>4. CASE task[h].kind \notin Creating
    <3>1. /\ task[h].kind = "RuleUpdate" /\ KindOK(task[h]) /\ RewritesOK(task[h])
          /\ ReplacesOK(task[h]) /\ task[h].kind \in Syncing
      BY <1>1, <1>3, <2>4, SoloTypes DEF Syncing, SoloTask, LeftTask
    <3>2. ItemOK(task[h], c) /\ c.rid \in Stored /\ \A f \in task[h].cover : f = c.rid
      BY <2>1, <3>1 DEF RewritesOK, ReplacesOK, ItemOK, KindOK
    <3>3. rules' = [rules EXCEPT ![c.rid] = Written(task[h])]
      BY <1>1, <1>3, <3>2 DEF Committed
    <3>4. /\ Stored' = Stored /\ \A f \in Stored : f # c.rid => rules'[f] = rules[f]
          /\ rules'[c.rid].gw = IF task[h].made[c.rid] = None THEN rules[c.rid].gw
                                                              ELSE task[h].made[c.rid]
      BY <1>1, <2>1, <2>2, <3>2, <3>3 DEF Stored, ItemOK
    <3>5. \A f \in Stored : gw[rules[f].gw] # None => f \in Stored' /\ rules'[f].gw = rules[f].gw
      BY <2>1, <3>1, <3>4 DEF ReplacesOK
    <3>6. ASSUME NEW u \in GwIds, MadeBy(task[h], u)
          PROVE  \E f \in Stored' : rules'[f].gw = u
      <4>1. task[h].made[c.rid] = u
        BY <3>1, <3>2, <3>6, NoneAssumption DEF MadeBy, RewritesOK
      <4> QED BY <3>2, <3>4, <4>1, NoneAssumption
    <3> QED BY <1>1, <3>4, <3>5, <3>6, EndLeft
  <2> QED BY <2>3, <2>4
<1> QED BY <1>2, <1>3

LEMMA PartialLeft ==
  ASSUME SoloInv, LeftOK, NEW h \in Handlers, Partial(h)
  PROVE  LeftOK'
<1>1. /\ task[h].pc = "partial" /\ rules' = Persisted(task[h]) /\ UNCHANGED <<gw, used>>
      /\ Goto(h, Idle)
  BY DEF Partial, AnswerError
<1>2. task[h].kind \in Retargeting
  BY <1>1, SoloTypes DEF SoloTask, KindOK
<1> QED BY <1>1, <1>2, PersistedLeft

\* A gateway that has no id left refuses: no fault, but an error all the same.
LEMMA FullLeft ==
  ASSUME SoloInv, LeftOK, NEW h \in Handlers, task[h].pc = "create", Failed(h),
         UNCHANGED <<rules, gw, used>>
  PROVE  LeftOK'
<1>t. task[h] \in Task /\ TInv /\ LeftTask(task[h])
  BY TaskType, SoloTypes DEF LeftOK
<1>1. CASE task[h].kind \notin Retargeting
  <2>1. Unmade(task[h]) /\ Goto(h, Idle)
    BY <1>1, <1>t DEF LeftTask, Failed, AnswerError
  <2> QED BY <2>1, StopLeft
<1>2. CASE task[h].kind \in Retargeting
  <2>1. Goto(h, [task[h] EXCEPT !.pc = "partial"])
    BY <1>2 DEF Failed
  <2>2. /\ task'[h].pc = "partial" /\ task'[h].kind = task[h].kind /\ task'[h].made = task[h].made
        /\ task'[h].cur = task[h].cur /\ task'[h].cover = task[h].cover
        /\ \A k \in Handlers \ {h} : task'[k] = task[k]
    BY <1>t, <2>1, GotoFields DEF Task
  <2>3. ReplacesOK(task[h])' /\ DeletesOK(task[h])'
    BY <1>t, <2>2 DEF LeftTask, ReplacesOK, DeletesOK, Stored
  <2>4. task[h].kind \notin Creating
    BY <1>2 DEF Retargeting, Creating, Pausing
  <2> QED BY <1>2, <2>2, <2>3, <2>4, MoveLeft DEF IsFamilyTime
<1> QED BY <1>1, <1>2

LEMMA SucceedLeft ==
  ASSUME SoloInv, LeftOK, NEW h \in Handlers, Succeed(h)
  PROVE  LeftOK'
<1>1. ~Compensate(h)
  BY DEF Compensate, LeftOK, LeftTask
<1> QED BY <1>1, ClearLeft, DeleteLeft, PutLeft, CreateLeft, DropLeft, CommitLeft, PartialLeft
    DEF Succeed

LEMMA NoFault ==
  ASSUME TypeOK, faults = 0, faults' = 0
  PROVE  ~Fault
BY DEF TypeOK, Fault

LEMMA ErrLeft ==
  ASSUME SoloInv, LeftOK, faults = 0, faults' = 0, NEW h \in Handlers, Err(h)
  PROVE  LeftOK'
<1>1. ~Fault
  BY NoFault, SoloTypes
<1>2. CreateError(h) /\ UNCHANGED <<gw, used>>
  BY <1>1 DEF Err, DeleteError, PutError, CreateError, SaveError
<1> QED BY <1>2, FullLeft DEF CreateError

-----------------------------------------------------------------------------
(* The world around the server.                                             *)

LEMMA WorldLeft ==
  ASSUME SoloInv, LeftOK, rules' = rules, used \subseteq used',
         \A h \in Handlers : Same(task[h], task'[h]) /\ task'[h].todo = task[h].todo,
         \A u \in GwIds : \/ gw'[u] \in {gw[u], None}
                          \/ u \notin used /\ gw'[u] = Foreign
  PROVE  LeftOK'
<1>1. Stored' = Stored
  BY DEF Stored
<1>2. LeftState'
  BY KeptState DEF LeftOK, IsFamilyTime, MadeBy, Same
<1>3. \A f \in RuleIds, u \in GwIds : Claim(f, u) /\ gw[u] = None => gw'[u] = None
  BY ClaimUsed DEF SoloInv
<1>4. \A f \in Stored : gw[rules[f].gw] = None => gw'[rules[f].gw] = None
  BY StoredUsed
<1>5. ASSUME NEW h \in Handlers
      PROVE  LeftTask(task[h])'
  <2>1. LeftTask(task[h]) /\ RewritesOK(task[h]) /\ TInv /\ Shape(task[h])
        /\ task[h].cur \in Item \union {None}
    BY TaskType, SoloTypes DEF LeftOK, SoloTask
  <2>2. Doomed(task[h])' = Doomed(task[h])
    BY <1>1 DEF Doomed, PausesOf, RulesOf, Same
  <2>3. DeletesOK(task[h])'
    BY <1>1, <1>4, <2>1, <2>2 DEF LeftTask, DeletesOK, Same
  <2>4. ReplacesOK(task[h])'
    <3> SUFFICES ASSUME task[h].kind \in Syncing PROVE ReplacesOK(task[h])'
      BY DEF ReplacesOK, Same
    <3>1. ReplacesOK(task[h]) /\ task[h].cover \subseteq Stored
      BY <2>1 DEF LeftTask, ReplacesOK
    <3>2. task[h].pc = "create" => gw'[task[h].cur.rule.gw] = None
      <4> SUFFICES ASSUME task[h].pc = "create" PROVE gw'[task[h].cur.rule.gw] = None
        OBVIOUS
      <4>1. /\ task[h].cur # None /\ task[h].cur.rule.gw \in GwIds
            /\ task[h].cur.rid \in RuleIds
        BY <2>1 DEF Shape, Item
      <4>2. Claim(task[h].cur.rid, task[h].cur.rule.gw)
        BY <4>1 DEF Claim, Holds
      <4> QED BY <1>3, <3>1, <4>1, <4>2 DEF ReplacesOK
    <3>3. \A f \in RuleIds : task[h].made[f] # None => gw'[rules[f].gw] = None
      BY <1>4, <2>1, <3>1 DEF RewritesOK, ReplacesOK
    <3> QED BY <1>1, <3>1, <3>2, <3>3 DEF ReplacesOK, Same
  <2> QED BY <1>1, <2>1, <2>3, <2>4 DEF LeftTask, Unmade, Same
<1> QED BY <1>2, <1>5 DEF LeftOK

LEMMA WorldsLeft ==
  ASSUME SoloInv, LeftOK, World \/ UNCHANGED vars
  PROVE  LeftOK'
<1>t. gw \in [GwIds -> GwRule \union {Foreign, None}]
  BY SoloTypes DEF TypeOK
<1>1. CASE AppDelete
  BY <1>1, <1>t, WorldLeft DEF AppDelete, Gone, Same
<1>2. CASE AppCreate
  BY <1>2, <1>t, WorldLeft DEF AppCreate, Same
<1>3. CASE Elapse
  BY <1>3, WorldLeft DEF Elapse, Same
<1>4. CASE UNCHANGED vars
  BY <1>4, WorldLeft DEF vars, Same
<1> QED BY <1>1, <1>2, <1>3, <1>4 DEF World

\* The janitor: a pass drops a record only after its traffic rule.
LEMMA JanitorLeft ==
  ASSUME SoloInv, LeftOK, PassOK, PassesApart, JanitorStep
  PROVE  LeftOK'
<1>t. /\ gw \in [GwIds -> GwRule \union {Foreign, None}]
      /\ \A h \in Handlers : task[h] \in Task
  BY TaskType, SoloTypes DEF TypeOK
<1>1. CASE JanitorList
  BY <1>1, WorldLeft DEF JanitorList, Same
<1>2. CASE JanitorPlan
  <2>1. ASSUME NEW h \in Handlers
        PROVE  Same(task[h], task'[h]) /\ task'[h].todo = task[h].todo
    BY <1>2, <1>t DEF JanitorPlan, Task, Same
  <2>2. UNCHANGED <<rules, gw, used>>
    BY <1>2 DEF JanitorPlan
  <2> QED BY <2>1, <2>2, WorldLeft
<1>3. CASE JanitorDelete
  BY <1>3, <1>t, WorldLeft DEF JanitorDelete, Gone, Same
<1>4. CASE JanitorDrop
  <2>1. /\ janitor.pc = "drop" /\ rules' = Forget(janitor.drop) /\ UNCHANGED <<gw, used, task>>
        /\ \A h \in Handlers : task[h].kind \notin Syncing
    BY <1>4 DEF JanitorDrop, PassesApart
  <2>2. \A f \in Stored : f \in janitor.drop => gw[rules[f].gw] = None
    BY <2>1 DEF PassOK, Seen, SeenOK
  <2>3. /\ Stored' \subseteq Stored
        /\ \A f \in Stored : gw[rules[f].gw] # None => f \in Stored' /\ rules'[f] = rules[f]
        /\ \A f \in Stored' : rules'[f] = rules[f]
    BY <2>1, <2>2 DEF Forget, Stored
  <2>4. ASSUME NEW u \in GwIds, u \in Tracked, IsFamilyTime(u)
        PROVE  u \in Tracked'
    <3>1. PICK f \in Stored : rules[f].gw = u
      BY <2>4, TrackedBy
    <3>2. f \in Stored' /\ rules'[f].gw = u
      BY <2>3, <2>4, <3>1 DEF IsFamilyTime
    <3> QED BY <3>2 DEF Tracked, IdsOf
  <2>5. LeftState'
    BY <2>1, <2>3, <2>4 DEF LeftOK, LeftState, IsFamilyTime, MadeBy
  <2>6. ASSUME NEW h \in Handlers
        PROVE  LeftTask(task[h])'
    <3>1. LeftTask(task[h]) /\ task'[h] = task[h] /\ task[h].kind \notin Syncing
      BY <2>1 DEF LeftOK
    <3>2. Doomed(task[h])' \intersect Stored' \subseteq Doomed(task[h]) \intersect Stored
      BY <2>3, <3>1 DEF Doomed, PausesOf, RulesOf
    <3>3. DeletesOK(task[h])'
      BY <2>1, <2>3, <3>1, <3>2 DEF LeftTask, DeletesOK
    <3> QED BY <2>1, <2>3, <3>1, <3>3 DEF LeftTask, Unmade, ReplacesOK
  <2> QED BY <2>5, <2>6 DEF LeftOK
<1> QED BY <1>1, <1>2, <1>3, <1>4 DEF JanitorStep

-----------------------------------------------------------------------------
(* What a pass acts on, while no edit or move of rules falls into it.       *)

\* A step that leaves the pass alone, and changes a rule it has seen only by
\* taking it away.
LEMMA PassKept ==
  ASSUME SoloInv, PassOK, UNCHANGED <<suspects, janitor>>, used \subseteq used',
         \A h \in Handlers : task'[h].kind \in Creating /\ task'[h].cur # None =>
            \/ task[h].kind \in Creating /\ task'[h].cur = task[h].cur
            \/ task'[h].cur.rid \notin used,
         janitor.pc = "rest" \/
           \A f \in Stored' \intersect Seen :
             /\ f \in Stored /\ rules'[f].gw = rules[f].gw
             /\ gw'[rules[f].gw] \in {gw[rules[f].gw], None}
  PROVE  PassOK'
<1>1. Seen' = Seen
  BY DEF Seen
<1>2. ASSUME NEW f \in Seen \intersect Stored'
      PROVE  SeenOK(f)'
  BY <1>2 DEF PassOK, SeenOK
<1> QED BY <1>1, <1>2 DEF PassOK

\* The same for a step of request h.
LEMMA StepPass ==
  ASSUME SoloInv, PassOK, UNCHANGED <<suspects, janitor>>, used \subseteq used',
         NEW h \in Handlers, NEW t, Goto(h, t),
         t.kind \in Creating /\ t.cur # None =>
            (task[h].kind \in Creating /\ t.cur = task[h].cur) \/ t.cur.rid \notin used,
         janitor.pc = "rest" \/
           \A f \in Stored' \intersect Seen :
             /\ f \in Stored /\ rules'[f].gw = rules[f].gw
             /\ gw'[rules[f].gw] \in {gw[rules[f].gw], None}
  PROVE  PassOK'
<1>1. task'[h] = t /\ \A k \in Handlers \ {h} : task'[k] = task[k]
  BY GotoFields, SoloTypes
<1> QED BY <1>1, PassKept

LEMMA StartPass ==
  ASSUME SoloInv, PassOK, NEW h \in Handlers, NEW t, Start(h, t), used \subseteq used',
         t.kind \in Creating => t.cur = None \/ t.cur.rid \notin used
  PROVE  PassOK'
<1>1. /\ Goto(h, t) /\ UNCHANGED <<rules, gw, suspects, janitor>> /\ Stored' = Stored
  BY DEF Start, Goto, Stored
<1> QED BY <1>1, StepPass

LEMMA BeginPass ==
  ASSUME SoloInv, PassOK, NEW h \in Handlers, Begin(h)
  PROVE  PassOK'
<1>t. /\ Retargeting \intersect Creating = {}
      /\ {"RuleUpdate", "RuleDelete", "ProfileDelete", "Unpause"} \intersect Creating = {}
  BY DEF Creating, Pausing, Retargeting
<1>1. ASSUME NEW kind, NEW pc, NEW p, NEW f \in RuleIds \ used, NEW b, NEW pause,
             Start(h, [Request(kind, pc, p) EXCEPT !.cur = NewItem(f, p, b, pause)]),
             used' = used \union {f}
      PROVE  PassOK'
  <2> DEFINE t == [Request(kind, pc, p) EXCEPT !.cur = NewItem(f, p, b, pause)]
  <2>1. t.cur.rid = f
    BY DEF Request, NewItem
  <2>2. Start(h, t)
    BY <1>1
  <2> HIDE DEF t
  <2> QED BY <1>1, <2>1, <2>2, StartPass
<1>2. CASE RuleCreate(h)
  BY <1>1, <1>2 DEF RuleCreate
<1>3. CASE Pause(h)
  BY <1>1, <1>3 DEF Pause
<1>4. CASE Grant(h)
  <2>1. ASSUME NEW p, Start(h, Request("Grant", "clear", p)), used' = used
        PROVE  PassOK'
    <3>1. Request("Grant", "clear", p).cur = None
      BY DEF Request
    <3> QED BY <2>1, <3>1, StartPass
  <2> QED BY <1>1, <1>4, <2>1 DEF Grant
<1>5. ASSUME NEW t, Start(h, t), used' = used, t.kind \notin Creating
      PROVE  PassOK'
  BY <1>5, StartPass
<1>6. CASE RuleUpdate(h)
  <2>1. PICK f \in Stored, b \in Bodies :
          Start(h, [Request("RuleUpdate", "put", rules[f].prof) EXCEPT
                      !.work = {[rid |-> f, rule |-> [rules[f] EXCEPT !.body = b],
                                 targets |-> TargetsOf(profiles, rules[f].prof)]},
                      !.cover = {f}]) /\ used' = used
    BY <1>6 DEF RuleUpdate
  <2> QED BY <1>5, <1>t, <2>1 DEF Request
<1>7. CASE RuleDelete(h)
  BY <1>5, <1>7, <1>t DEF RuleDelete, Request
<1>8. ASSUME NEW kind \in Retargeting, NEW p, NEW upd, Retarget(h, kind, p, upd)
      PROVE  PassOK'
  <2> DEFINE F == UNION {RulesOf(q) : q \in {q \in ProfileIds : upd[q] # None}}
             t(pc) == [Request(kind, pc, p) EXCEPT !.upd = upd, !.work = WorkOf(F, upd), !.cover = F]
  <2>1. Start(h, t(IF F = {} THEN "commit" ELSE "put")) /\ used' = used
    BY <1>8 DEF Retarget
  <2>2. ASSUME NEW pc PROVE t(pc).kind = kind
    BY DEF Request
  <2> HIDE DEF t
  <2> QED BY <1>5, <1>t, <2>1, <2>2
<1>9. CASE ProfileUpdate(h) \/ Enroll(h)
  BY <1>8, <1>9 DEF ProfileUpdate, Enroll, Retargeting
<1>10. CASE ProfileDelete(h)
  BY <1>5, <1>10, <1>t DEF ProfileDelete, Request
<1>11. CASE Unpause(h)
  BY <1>5, <1>11, <1>t DEF Unpause, Request
<1>12. CASE ProfileCreate(h)
  <2>1. /\ UNCHANGED <<rules, gw, task, suspects, janitor>> /\ used \subseteq used'
        /\ Stored' = Stored
    BY <1>12 DEF ProfileCreate, Stored
  <2> QED BY <2>1, PassKept
<1> QED BY <1>2, <1>3, <1>4, <1>6, <1>7, <1>9, <1>10, <1>11, <1>12 DEF Begin

\* A step of a request takes from the gateway, or gives a new id to a new rule.
LEMMA RequestPass ==
  ASSUME SoloInv, LeftOK, PassOK, PassesApart, faults = 0, faults' = 0, NEW h \in Handlers,
         Succeed(h) \/ Err(h)
  PROVE  PassOK'
<1>t. /\ task[h] \in Task /\ Shape(task[h]) /\ LeftTask(task[h]) /\ ~Fault
      /\ task[h].made \in [RuleIds -> GwIds \union {None}]
      /\ task[h].cur \in Item \union {None}
      /\ gw \in [GwIds -> GwRule \union {Foreign, None}]
      /\ rules \in [RuleIds -> Rule \union {None}]
  BY NoFault, TaskType, SoloTypes DEF TypeOK, LeftOK
<1>u. \A f \in Stored : rules[f].gw \in GwIds /\ rules[f].gw \in used
  BY StoredUsed
<1>i. Idle.kind \notin Creating
  BY DEF Idle, Request, Creating, Pausing
<1>s. Retargeting \subseteq Syncing /\ Syncing \intersect Creating = {}
  BY DEF Retargeting, Syncing, Creating, Pausing
<1>1. ~Compensate(h) /\ (Err(h) => CreateError(h) /\ UNCHANGED <<gw, used>>)
  BY <1>t DEF Compensate, LeftTask, Err, DeleteError, PutError, CreateError, SaveError
<1>2. CASE Clear(h)
  <2> DEFINE t == [task[h] EXCEPT !.pc = "delete", !.todo = IdsOf(PausesOf(task[h].prof))]
  <2>1. /\ UNCHANGED <<rules, gw, used, suspects, janitor>> /\ Stored' = Stored
        /\ Goto(h, AfterDelete(t))
    BY <1>2 DEF Clear, Stored
  <2>2. AfterDelete(t).kind = task[h].kind /\ AfterDelete(t).cur = task[h].cur
    BY <1>t DEF AfterDelete, Task
  <2> HIDE DEF t
  <2> QED BY <2>1, <2>2, StepPass
<1>3. CASE Delete(h)
  <2> DEFINE t(v) == [task[h] EXCEPT !.todo = @ \ {v}]
  <2>1. PICK v : /\ gw' = Gone(v) /\ UNCHANGED <<rules, used, suspects, janitor>>
                 /\ Stored' = Stored /\ Goto(h, AfterDelete(t(v)))
    BY <1>3 DEF Delete, Stored
  <2>2. AfterDelete(t(v)).kind = task[h].kind /\ AfterDelete(t(v)).cur = task[h].cur
    BY <1>t DEF AfterDelete, Task
  <2> HIDE DEF t
  <2>3. \A f \in Stored : gw'[rules[f].gw] \in {gw[rules[f].gw], None}
    BY <1>t, <1>u, <2>1 DEF Gone
  <2> QED BY <2>1, <2>2, <2>3, StepPass
<1>4. CASE Put(h)
  <2>1. task[h].kind \in Syncing
    BY <1>4, <1>t DEF Put, Shape
  <2>2. janitor.pc = "rest"
    BY <2>1 DEF PassesApart
  <2>3. task'[h].kind = task[h].kind /\ \A k \in Handlers \ {h} : task'[k] = task[k]
    BY <1>4, PutFields
  <2>4. UNCHANGED <<used, suspects, janitor>>
    BY <1>4 DEF Put
  <2> QED BY <1>s, <2>1, <2>2, <2>3, <2>4, PassKept
<1>5. CASE Create(h)
  <2>1. PICK v \in GwIds \ used :
          /\ gw' = [gw EXCEPT ![v] = Translate(task[h].cur)] /\ used' = used \union {v}
          /\ UNCHANGED <<rules, suspects, janitor>>
          /\ Goto(h, AfterWrite([task[h] EXCEPT !.made[task[h].cur.rid] = v]))
    BY <1>5 DEF Create
  <2>2. LET t == AfterWrite([task[h] EXCEPT !.made[task[h].cur.rid] = v])
        IN  t.kind = task[h].kind /\ t.cur = task[h].cur
    BY <1>t DEF AfterWrite, Task
  <2>3. Stored' = Stored /\ \A f \in Stored : gw'[rules[f].gw] = gw[rules[f].gw]
    BY <1>t, <1>u, <2>1 DEF Stored
  <2> QED BY <2>1, <2>2, <2>3, StepPass
<1>6. CASE Drop(h)
  <2>1. /\ rules' = Forget(Doomed(task[h])) /\ UNCHANGED <<gw, used, suspects, janitor>>
        /\ Goto(h, [task[h] EXCEPT !.pc = "create"]) \/ Goto(h, Idle)
    BY <1>6 DEF Drop, Answer
  <2>2. \A f \in Stored' : f \in Stored /\ rules'[f] = rules[f]
    BY <2>1 DEF Forget, Stored
  <2>3. LET t == [task[h] EXCEPT !.pc = "create"]
        IN  t.kind = task[h].kind /\ t.cur = task[h].cur
    BY <1>t DEF Task
  <2>4. CASE Goto(h, Idle)
    BY <1>i, <2>1, <2>2, <2>4, StepPass
  <2>5. CASE Goto(h, [task[h] EXCEPT !.pc = "create"])
    BY <2>1, <2>2, <2>3, <2>5, StepPass
  <2> QED BY <2>1, <2>4, <2>5
<1>7. CASE Commit(h)
  <2>1. /\ rules' = Committed(task[h]) /\ UNCHANGED <<gw, used, suspects, janitor>>
        /\ Goto(h, Idle) /\ task[h].kind \in Creating \union Syncing
        /\ task[h].kind \notin Retargeting => task[h].cur # None
    BY <1>7, <1>t DEF Commit, Answer, Shape
  <2>2. CASE task[h].kind \in Syncing
    BY <1>i, <2>1, <2>2, StepPass DEF PassesApart
  <2>3. CASE task[h].kind \in Creating
    <3>1. /\ rules' = [rules EXCEPT ![task[h].cur.rid] = Written(task[h])]
          /\ task[h].cur.rid \notin Seen
      BY <1>s, <2>1, <2>3 DEF Committed, PassOK
    <3>2. \A f \in Stored' \intersect Seen : f \in Stored /\ rules'[f] = rules[f]
      BY <1>t, <3>1 DEF Stored
    <3> QED BY <1>i, <2>1, <3>2, StepPass
  <2> QED BY <2>1, <2>2, <2>3
<1>8. CASE Partial(h)
  <2>1. /\ task[h].kind \in Retargeting /\ Goto(h, Idle)
        /\ UNCHANGED <<gw, used, suspects, janitor>>
    BY <1>8, SoloTypes DEF Partial, AnswerError, SoloTask, KindOK
  <2> QED BY <1>i, <1>s, <2>1, StepPass DEF PassesApart
<1>9. CASE Err(h)
  <2>1. UNCHANGED <<rules, gw, used, suspects, janitor>> /\ Stored' = Stored /\ Failed(h)
    BY <1>1, <1>9 DEF CreateError, Stored
  <2>2. PICK t : Goto(h, t) /\ (t = Idle \/ (t.kind = task[h].kind /\ t.cur = task[h].cur))
    BY <1>t, <2>1 DEF Failed, AnswerError, Task
  <2> QED BY <1>i, <2>1, <2>2, StepPass
<1> QED BY <1>1, <1>2, <1>3, <1>4, <1>5, <1>6, <1>7, <1>8, <1>9 DEF Succeed

LEMMA WorldPass ==
  ASSUME SoloInv, PassOK, World \/ UNCHANGED vars
  PROVE  PassOK'
<1>t. gw \in [GwIds -> GwRule \union {Foreign, None}]
  BY SoloTypes DEF TypeOK
<1>u. \A f \in Stored : rules[f].gw \in GwIds /\ rules[f].gw \in used
  BY StoredUsed
<1>1. UNCHANGED <<rules, task, suspects, janitor>> /\ used \subseteq used' /\ Stored' = Stored
  BY DEF World, AppDelete, AppCreate, Elapse, vars, Stored
<1>2. \A u \in GwIds \intersect used : gw'[u] \in {gw[u], None}
  BY <1>t DEF World, AppDelete, AppCreate, Elapse, vars, Gone
<1> QED BY <1>1, <1>2, <1>u, PassKept

\* The pass itself.
LEMMA JanitorPass ==
  ASSUME SoloInv, LeftOK, PassOK, JanitorStep
  PROVE  PassOK'
<1>t. /\ gw \in [GwIds -> GwRule \union {Foreign, None}]
      /\ \A h \in Handlers : task[h] \in Task
      /\ Stored \subseteq used
      /\ \A h \in Handlers : task[h].kind \in Creating /\ task[h].cur # None =>
                               task[h].cur.rid \notin Stored
      /\ \A f \in Stored : rules[f].gw \in GwIds
  BY TaskType, StoredUsed, SoloTypes DEF TypeOK, LeftOK, LeftState, LeftTask
<1>1. CASE JanitorList
  <2>1. /\ UNCHANGED <<rules, gw, used, task, suspects>> /\ Stored' = Stored
        /\ janitor'.pc = "plan" /\ janitor'.drop = {}
        /\ janitor'.on = {u \in GwIds : gw[u] # None}
    BY <1>1 DEF JanitorList, Resting, Stored
  <2>2. Seen' \subseteq Seen
    BY <2>1 DEF Seen
  <2>3. ASSUME NEW f \in Stored PROVE SeenOK(f)'
    BY <1>t, <2>1 DEF SeenOK
  <2> QED BY <2>1, <2>2, <2>3 DEF PassOK
<1>2. CASE JanitorPlan
  <2> DEFINE del  == IdsOf(Spent) \union Again(Untracked, suspects.gw)
             drop == Spent \union Again(Vanished, suspects.meta)
  <2>1. /\ janitor.pc = "plan" /\ UNCHANGED <<rules, gw, used>> /\ Stored' = Stored
        /\ suspects'.meta = Vanished
        /\ \/ janitor'.pc = "delete" /\ janitor'.del = del /\ janitor'.drop = drop
           \/ janitor'.pc = "drop" /\ janitor'.drop = drop /\ del = {}
           \/ janitor'.pc = "rest" /\ janitor'.drop = {}
    <3>1. /\ janitor.pc = "plan" /\ UNCHANGED <<rules, gw, used>>
          /\ suspects' = [meta |-> Vanished, gw |-> Untracked]
          /\ janitor' = IF del # {} THEN [janitor EXCEPT !.pc = "delete", !.del = del, !.drop = drop]
                        ELSE IF drop # {} THEN [janitor EXCEPT !.pc = "drop", !.drop = drop]
                        ELSE Resting
          /\ janitor \in JanitorState
      BY <1>2, SoloTypes DEF JanitorPlan, TypeOK
    <3> HIDE DEF del, drop
    <3>2. Stored' = Stored /\ suspects'.meta = Vanished
      BY <3>1 DEF Stored
    <3>3. CASE del # {}
      BY <3>1, <3>2, <3>3 DEF JanitorState
    <3>4. CASE del = {} /\ drop # {}
      BY <3>1, <3>2, <3>4 DEF JanitorState
    <3>5. CASE del = {} /\ drop = {}
      BY <3>1, <3>2, <3>5 DEF Resting
    <3> QED BY <3>3, <3>4, <3>5
  <2>2. ASSUME NEW h \in Handlers
        PROVE  task'[h].kind = task[h].kind /\ task'[h].cur = task[h].cur
    BY <1>2, <1>t DEF JanitorPlan, Task
  <2>3. Vanished \subseteq Stored /\ drop \subseteq Stored
    BY DEF Vanished, Spent, Again
  <2>4. ASSUME NEW f \in drop
        PROVE  gw[rules[f].gw] = None \/ rules[f].gw \in del
    <3>1. CASE f \in Spent
      BY <3>1 DEF IdsOf
    <3>2. CASE f \in Vanished /\ f \in suspects.meta
      BY <2>1, <3>2 DEF PassOK, Seen, SeenOK, Vanished
    <3> QED BY <2>4, <3>1, <3>2 DEF Again
  <2> HIDE DEF del, drop
  <2>5. Seen' \subseteq Stored
    BY <2>1, <2>3 DEF Seen
  <2>6. ASSUME NEW f \in Stored PROVE SeenOK(f)'
    BY <2>1, <2>4 DEF SeenOK
  <2> QED BY <1>t, <2>1, <2>2, <2>5, <2>6 DEF PassOK
<1>3. CASE JanitorDelete
  <2>1. PICK u \in janitor.del :
          /\ janitor.pc = "delete" /\ gw' = Gone(u)
          /\ UNCHANGED <<rules, used, task, suspects>> /\ Stored' = Stored
          /\ janitor' = IF janitor.del # {u} THEN [janitor EXCEPT !.del = @ \ {u}]
                        ELSE IF janitor.drop # {} THEN [janitor EXCEPT !.del = {}, !.pc = "drop"]
                        ELSE Resting
    BY <1>3 DEF JanitorDelete, Stored
  <2>2. janitor \in JanitorState
    BY SoloTypes DEF TypeOK
  <2>3. \/ /\ janitor'.pc = "delete" /\ janitor'.drop = janitor.drop
           /\ janitor'.del = janitor.del \ {u}
        \/ /\ janitor'.pc = "drop" /\ janitor'.drop = janitor.drop /\ janitor.del = {u}
        \/ janitor'.pc = "rest" /\ janitor'.drop = {}
    <3>1. CASE janitor.del # {u}
      BY <2>1, <2>2, <3>1 DEF JanitorState
    <3>2. CASE janitor.del = {u} /\ janitor.drop # {}
      BY <2>1, <2>2, <3>2 DEF JanitorState
    <3>3. CASE janitor.del = {u} /\ janitor.drop = {}
      BY <2>1, <3>3 DEF Resting
    <3> QED BY <3>1, <3>2, <3>3
  <2>4. Seen' \subseteq Seen
    BY <2>1, <2>3 DEF Seen
  <2>5. \A f \in Stored : gw'[rules[f].gw] = IF rules[f].gw = u THEN None ELSE gw[rules[f].gw]
    BY <1>t, <2>1 DEF Gone
  <2>6. ASSUME NEW f \in Stored, f \in Seen'
        PROVE  SeenOK(f)'
    <3>1. SeenOK(f)
      BY <2>4, <2>6 DEF PassOK
    <3> QED BY <2>1, <2>3, <2>5, <3>1 DEF SeenOK
  <2> QED BY <2>1, <2>4, <2>6 DEF PassOK
<1>4. CASE JanitorDrop
  <2>1. /\ UNCHANGED <<gw, used, task, suspects>> /\ Stored' \subseteq Stored
        /\ janitor'.pc = "rest" /\ janitor'.drop = {}
    BY <1>4 DEF JanitorDrop, Resting, Forget, Stored
  <2>2. Seen' \subseteq Seen
    BY <2>1 DEF Seen
  <2>3. ASSUME NEW f PROVE SeenOK(f)'
    BY <2>1 DEF SeenOK
  <2> QED BY <2>1, <2>2, <2>3 DEF PassOK
<1> QED BY <1>1, <1>2, <1>3, <1>4 DEF JanitorStep

LEMMA InitLeft == Init => LeftInv
<1> SUFFICES ASSUME Init PROVE LeftOK /\ PassOK
  BY InitSolo DEF LeftInv
<1>1. LeftState
  BY DEF Init, LeftState, Stored, IsFamilyTime
<1>2. ASSUME NEW h \in Handlers
      PROVE  LeftTask(task[h])
  <2>1. task[h] = Idle /\ "none" \notin Creating \union Syncing
    BY DEF Init, Creating, Pausing, Syncing, Retargeting
  <2> QED BY <2>1 DEF LeftTask, DeletesOK, ReplacesOK, Unmade, Idle, Request, NoneMade
<1>3. /\ suspects.meta = {} /\ janitor.drop = {} /\ \A h \in Handlers : task[h].cur = None
  BY DEF Init, NoSuspects, Resting, Idle, Request
<1>4. PassOK
  BY <1>3 DEF PassOK, Seen
<1> QED BY <1>1, <1>2, <1>4 DEF LeftOK

LEMMA NextLeft == LeftInv /\ PassesApart /\ [Next]_vars /\ [Begins => Quiet]_vars => LeftInv'
<1> SUFFICES ASSUME LeftInv, PassesApart, [Next]_vars, [Begins => Quiet]_vars, faults' = 0
             PROVE  LeftOK' /\ PassOK'
  BY NextSolo DEF LeftInv
<1>1. SoloInv /\ TypeOK /\ faults = 0 /\ LeftOK /\ PassOK
  <2>1. SoloInv /\ TypeOK
    BY SoloTypes DEF LeftInv
  <2>2. faults' = faults \/ faults' = faults + 1
    <3>1. ASSUME NEW h \in Handlers, Begin(h)
          PROVE  faults' = faults
      BY <3>1 DEF Begin, RuleCreate, RuleUpdate, RuleDelete, ProfileCreate, ProfileUpdate,
         ProfileDelete, Enroll, Retarget, Pause, Unpause, Grant, Start
    <3>2. ASSUME NEW h \in Handlers, Succeed(h)
          PROVE  faults' \in {faults, faults + 1}
      BY <3>2 DEF Succeed, Clear, Delete, Put, Create, Drop, Commit, Partial, Compensate, Fault
    <3>3. ASSUME NEW h \in Handlers, Err(h)
          PROVE  faults' \in {faults, faults + 1}
      BY <3>3 DEF Err, DeleteError, PutError, CreateError, SaveError, Fault
    <3>4. JanitorStep \/ JanitorError \/ World \/ Crash \/ UNCHANGED vars
            => faults' \in {faults, faults + 1}
      BY DEF JanitorStep, JanitorList, JanitorPlan, JanitorDelete, JanitorDrop, JanitorError,
         World, AppDelete, AppCreate, Elapse, Crash, Fault, vars
    <3> QED BY <3>1, <3>2, <3>3, <3>4 DEF Next
  <2>3. faults = 0
    BY <2>1, <2>2 DEF TypeOK
  <2> QED BY <2>1, <2>3 DEF LeftInv
<1>2. ASSUME NEW h \in Handlers, Begin(h)
      PROVE  LeftOK' /\ PassOK'
  <2>1. CASE Quiet
    BY <1>1, <1>2, <2>1, BeginsLeft, BeginPass
  <2>2. CASE ~Quiet
    <3>1. UNCHANGED vars
      BY <1>2, <2>2 DEF Begins
    <3> QED BY <1>1, <3>1, WorldsLeft, WorldPass
  <2> QED BY <2>1, <2>2
<1>3. ASSUME NEW h \in Handlers, Succeed(h) \/ Err(h)
      PROVE  LeftOK' /\ PassOK'
  BY <1>1, <1>3, SucceedLeft, ErrLeft, RequestPass
<1>4. CASE JanitorStep
  BY <1>1, <1>4, JanitorLeft, JanitorPass
<1>5. CASE World \/ UNCHANGED vars
  BY <1>1, <1>5, WorldsLeft, WorldPass
<1>6. ~Crash /\ ~JanitorError
  BY <1>1, NoFault DEF Crash, JanitorError
<1> QED BY <1>1, <1>2, <1>3, <1>4, <1>5, <1>6 DEF Next

\* As long as nothing has failed, between requests that were served one at a
\* time every rule of this program that enforces on the gateway is one the store
\* knows: no create, recreated edit, move or replaced pause loses the id it was
\* given, and no handler and no pass of the janitor drops a record before its
\* traffic rule.  The hypothesis on passes is one the code does not ensure: an
\* edit during a pass recreates a traffic rule whose record the pass then drops
\* (ForgetsOnlyVanished).
THEOREM NothingStays == Spec /\ OneByOne /\ []PassesApart => []NothingLeftBehind
<1>1. LeftInv => NothingLeftBehind
  <2> SUFFICES ASSUME LeftInv, faults = 0, Quiet, NEW u \in GwIds, IsFamilyTime(u)
               PROVE  u \in Tracked
    BY DEF NothingLeftBehind
  <2>1. \A h \in Handlers : ~MadeBy(task[h], u)
    BY IdleCover DEF LeftInv, Quiet, MadeBy, Creating, Pausing, Syncing, Retargeting
  <2> QED BY <2>1 DEF LeftInv, LeftOK, LeftState
<1> QED BY <1>1, InitLeft, NextLeft, PTL DEF Spec, OneByOne

=============================================================================

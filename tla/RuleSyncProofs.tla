--------------------------- MODULE RuleSyncProofs ---------------------------
(* Theorems about RuleSync, for every value of its constants.              *)
EXTENDS RuleSync, TLAPS

(* TypeOK is not inductive: what a commit writes has a gateway id only      *)
(* because of where the request has been.                                   *)
Shape(t) ==
  /\ \A i \in t.work : i.rule.gw \in GwIds /\ t.kind \in Syncing
  /\ t.kind \in Syncing /\ t.cur # None => t.cur.rule.gw \in GwIds
  /\ t.pc \in {"clear", "drop"} => t.kind \notin Syncing
  /\ t.pc = "delete" /\ t.kind \in Syncing => t.cur # None
  /\ t.pc \in {"create", "commit"} => t.kind \in Creating \union Syncing
  /\ t.pc \in {"create", "compensate"} => t.cur # None
  /\ t.pc = "commit" /\ t.kind \notin Retargeting =>
       t.cur # None /\ Written(t).gw \in GwIds

ShapeOK == \A h \in Handlers : Shape(task[h])

TInv == TypeOK /\ ShapeOK

\* A fresh request, and an idle slot, is a well-formed task.
LEMMA RequestType ==
  ASSUME NEW kind \in Requests \union {"none"}, NEW pc \in Steps, NEW prof \in Owners
  PROVE  Request(kind, pc, prof) \in Task
<1>0. None \in Groups
  BY DEF Groups
<1>1. NoProfiles \in [ProfileIds -> Groups]
  BY <1>0 DEF NoProfiles
<1>2. NoneMade \in [RuleIds -> GwIds \union {None}]
  BY DEF NoneMade
<1> QED BY <1>1, <1>2 DEF Request, Task

LEMMA IdleType == Idle \in Task
<1>1. Everyone \in Owners /\ "idle" \in Steps
  BY DEF Owners, Steps
<1> QED BY <1>1, RequestType DEF Idle

LEMMA IdleShape == Shape(Idle)
BY DEF Shape, Idle, Request, Creating, Syncing, Retargeting, Pausing

LEMMA InitType == Init => TypeOK
<1> SUFFICES ASSUME Init PROVE TypeOK
  OBVIOUS
<1>1. profiles \in [ProfileIds -> Groups]
  BY LoadedAssumption DEF Init
<1>2. rules \in [RuleIds -> Rule \union {None}] /\ Stored = {}
  BY DEF Init, Stored
<1>3. gw \in [GwIds -> GwRule \union {Foreign, None}]
  BY DEF Init
<1>4. used \subseteq ProfileIds \union RuleIds \union GwIds
  BY DEF Init
<1>5. task \in [Handlers -> Task]
  BY IdleType DEF Init
<1>6. suspects \in [meta : SUBSET RuleIds, gw : SUBSET GwIds] /\ janitor \in JanitorState
  BY DEF Init, NoSuspects, Resting, JanitorState
<1>7. elapsed \subseteq Timed /\ faults \in 0 .. MaxFaults /\ told \subseteq RuleIds
  BY FaultsAssumption DEF Init
<1> QED BY <1>1, <1>2, <1>3, <1>4, <1>5, <1>6, <1>7 DEF TypeOK

\* What a handler reads of the store is well typed.
LEMMA StoredType ==
  ASSUME TypeOK, NEW f \in Stored
  PROVE  /\ f \in RuleIds
         /\ rules[f] \in Rule
         /\ rules[f].gw \in GwIds
         /\ rules[f].prof \in Owners
         /\ rules[f].pause \in BOOLEAN
         /\ rules[f].body \in Bodies
BY DEF TypeOK, Stored, Rule

LEMMA IdsType ==
  ASSUME TypeOK, NEW F, F \subseteq Stored
  PROVE  IdsOf(F) \subseteq GwIds
<1>1. \A f \in F : rules[f].gw \in GwIds
  BY StoredType
<1> QED BY <1>1 DEF IdsOf

LEMMA TargetsType ==
  ASSUME NEW devs \in [ProfileIds -> Groups], NEW p \in Owners,
         p # Everyone => devs[p] # None
  PROVE  TargetsOf(devs, p) \in Targets
<1>1. CASE p = Everyone
  BY <1>1 DEF TargetsOf, Targets
<1>2. CASE p # Everyone
  <2>1. p \in ProfileIds
    BY <1>2 DEF Owners
  <2>2. devs[p] \in SUBSET Devices
    BY <1>2, <2>1 DEF Groups
  <2> QED BY <1>2, <2>2 DEF TargetsOf, Targets
<1> QED BY <1>1, <1>2

LEMMA KnownType ==
  ASSUME TypeOK, NEW p \in Known
  PROVE  /\ p \in Owners
         /\ p # Everyone => p \in ProfileIds /\ profiles[p] # None
         /\ TargetsOf(profiles, p) \in Targets
BY TargetsType DEF Known, Owners, TypeOK

LEMMA NewItemType ==
  ASSUME TypeOK, NEW f \in RuleIds, NEW p \in Known, NEW body \in Bodies, NEW pause \in BOOLEAN
  PROVE  NewItem(f, p, body, pause) \in Item
BY KnownType DEF NewItem, Item, Rule

LEMMA StartType ==
  ASSUME TInv, NEW h \in Handlers, NEW t \in Task, Shape(t), Start(h, t),
         used' \subseteq ProfileIds \union RuleIds \union GwIds
  PROVE  TInv'
<1>1. TypeOK'
  BY DEF TInv, TypeOK, Start, Stored
<1>2. ShapeOK'
  BY DEF TInv, TypeOK, ShapeOK, Start
<1> QED BY <1>1, <1>2 DEF TInv

LEMMA WorkType ==
  ASSUME TypeOK, NEW upd \in [ProfileIds -> Groups], NEW F, F \subseteq Stored,
         \A f \in F : rules[f].prof # Everyone => upd[rules[f].prof] # None
  PROVE  WorkOf(F, upd) \subseteq Item
<1> SUFFICES ASSUME NEW f \in F
             PROVE  [rid |-> f, rule |-> rules[f],
                     targets |-> TargetsOf(upd, rules[f].prof)] \in Item
  BY DEF WorkOf
<1>1. f \in RuleIds /\ rules[f] \in Rule /\ rules[f].prof \in Owners
  BY StoredType
<1>2. TargetsOf(upd, rules[f].prof) \in Targets
  BY <1>1, TargetsType
<1> QED BY <1>1, <1>2 DEF Item

LEMMA RetargetType ==
  ASSUME TInv, NEW h \in Handlers, NEW kind \in Retargeting, NEW p \in Owners,
         NEW upd \in [ProfileIds -> Groups], Retarget(h, kind, p, upd)
  PROVE  TInv'
<1> DEFINE F == UNION {RulesOf(q) : q \in {q \in ProfileIds : upd[q] # None}}
           pc == IF F = {} THEN "commit" ELSE "put"
           t == [Request(kind, pc, p) EXCEPT !.upd = upd, !.work = WorkOf(F, upd), !.cover = F]
<1>0. TypeOK /\ kind \in Requests
  BY DEF TInv, Requests, Syncing
<1>1. F \subseteq Stored /\ \A f \in F : upd[rules[f].prof] # None
  BY DEF RulesOf
<1>2. WorkOf(F, upd) \subseteq Item
  BY <1>0, <1>1, WorkType
<1>3. F \subseteq RuleIds
  BY <1>1 DEF Stored
<1>4. Request(kind, pc, p) \in Task
  BY <1>0, RequestType DEF Steps
<1>5. t \in Task
  <2> HIDE DEF F, pc
  <2> QED BY <1>2, <1>3, <1>4 DEF Task
<1>6. Shape(t)
  <2>1. \A i \in WorkOf(F, upd) : i.rule.gw \in GwIds
    BY <1>0, <1>1, StoredType DEF WorkOf
  <2>2. t.work = WorkOf(F, upd) /\ t.kind = kind /\ t.cur = None /\ t.pc = pc
    <3> HIDE DEF F, pc
    <3> QED BY DEF Request
  <2>3. pc \in {"put", "commit"}
    OBVIOUS
  <2> HIDE DEF t, pc
  <2> QED BY <2>1, <2>2, <2>3 DEF Shape, Syncing
<1>7. Start(h, t) /\ used' = used
  BY DEF Retarget
<1> HIDE DEF t
<1> QED BY <1>0, <1>5, <1>6, <1>7, StartType DEF TypeOK

LEMMA BeginType ==
  ASSUME TInv, NEW h \in Handlers, Begin(h)
  PROVE  TInv'
<1>0. TypeOK
  BY DEF TInv
<1>u. used \subseteq ProfileIds \union RuleIds \union GwIds
  BY <1>0 DEF TypeOK
<1>k. /\ {"RuleCreate", "RuleUpdate", "RuleDelete", "ProfileUpdate", "ProfileDelete",
          "Enroll", "Pause", "Unpause", "Grant"} \subseteq Requests
      /\ {"create", "put", "delete", "drop", "clear"} \subseteq Steps
  BY DEF Requests, Creating, Clearing, Syncing, Retargeting, Pausing, Steps
<1>1. CASE RuleCreate(h)
  <2>1. PICK p \in Known, b \in Bodies, f \in RuleIds :
          /\ used' = used \union {f}
          /\ Start(h, [Request("RuleCreate", "create", p)
                         EXCEPT !.cur = NewItem(f, p, b, FALSE)])
    BY <1>1 DEF RuleCreate
  <2>2. Request("RuleCreate", "create", p) \in Task
    BY <1>0, <1>k, KnownType, RequestType
  <2>3. NewItem(f, p, b, FALSE) \in Item
    BY <1>0, NewItemType
  <2>4. [Request("RuleCreate", "create", p) EXCEPT !.cur = NewItem(f, p, b, FALSE)] \in Task
    BY <2>2, <2>3 DEF Task
  <2>5. Shape([Request("RuleCreate", "create", p) EXCEPT !.cur = NewItem(f, p, b, FALSE)])
    BY <2>3, NoneAssumption DEF Shape, Request, Syncing, Retargeting, Creating
  <2> QED BY <1>u, <2>1, <2>4, <2>5, StartType
<1>2. CASE RuleUpdate(h)
  <2> DEFINE it(f, b) == [rid |-> f, rule |-> [rules[f] EXCEPT !.body = b],
                          targets |-> TargetsOf(profiles, rules[f].prof)]
             t(f, b) == [Request("RuleUpdate", "put", rules[f].prof)
                           EXCEPT !.work = {it(f, b)}, !.cover = {f}]
  <2>1. PICK f \in Stored, b \in Bodies : rules[f].prof \in Known /\ Start(h, t(f, b))
    BY <1>2 DEF RuleUpdate
  <2>2. Request("RuleUpdate", "put", rules[f].prof) \in Task
    BY <1>0, <1>k, StoredType, RequestType
  <2>3. it(f, b) \in Item
    BY <1>0, <2>1, StoredType, KnownType DEF Item, Rule
  <2>4. t(f, b) \in Task
    <3> HIDE DEF it
    <3> QED BY <1>0, <2>2, <2>3, StoredType DEF Task
  <2>5. used' = used
    BY <1>2 DEF RuleUpdate
  <2>6. Shape(t(f, b))
    <3>1. it(f, b).rule.gw \in GwIds
      BY <1>0, StoredType DEF Rule
    <3> HIDE DEF it
    <3> QED BY <3>1 DEF Shape, Request, Syncing
  <2> HIDE DEF t
  <2> QED BY <1>u, <2>1, <2>4, <2>5, <2>6, StartType
<1>3. CASE RuleDelete(h)
  <2> DEFINE it(f) == [rid |-> f, rule |-> rules[f], targets |-> {}]
             t(f) == [Request("RuleDelete", "delete", rules[f].prof)
                        EXCEPT !.cur = it(f), !.todo = IdsOf({f})]
  <2>1. PICK f \in Stored : Start(h, t(f))
    BY <1>3 DEF RuleDelete
  <2>2. Request("RuleDelete", "delete", rules[f].prof) \in Task
    BY <1>0, <1>k, StoredType, RequestType
  <2>3. it(f) \in Item
    BY <1>0, StoredType DEF Item, Targets
  <2>4. IdsOf({f}) \subseteq GwIds
    BY <1>0, IdsType
  <2>5. t(f) \in Task
    <3> HIDE DEF it
    <3> QED BY <2>2, <2>3, <2>4 DEF Task
  <2>6. used' = used
    BY <1>3 DEF RuleDelete
  <2>7. Shape(t(f))
    BY DEF Shape, Request, Syncing, Retargeting
  <2> HIDE DEF t
  <2> QED BY <1>u, <2>1, <2>5, <2>6, <2>7, StartType
<1>4. CASE ProfileCreate(h)
  BY <1>4 DEF ProfileCreate, TInv, TypeOK, ShapeOK, Groups, Stored
<1>5. CASE ProfileUpdate(h)
  <2>1. PICK p \in Known \ {Everyone}, devs \in SUBSET Devices :
          Retarget(h, "ProfileUpdate", p, [NoProfiles EXCEPT ![p] = devs])
    BY <1>5 DEF ProfileUpdate
  <2>2. NoProfiles \in [ProfileIds -> Groups]
    BY DEF NoProfiles, Groups
  <2>3. [NoProfiles EXCEPT ![p] = devs] \in [ProfileIds -> Groups]
    BY <2>2 DEF Groups
  <2> QED BY <1>0, <2>1, <2>3, KnownType, RetargetType DEF Retargeting
<1>6. CASE Enroll(h)
  <2>1. PICK p \in Known \ {Everyone}, m \in Devices, from \in SUBSET (Known \ {Everyone}) :
          Retarget(h, "Enroll", p, Moved(m, p, from))
    BY <1>6 DEF Enroll, OwnersOf
  <2>2. \A q \in Known \ {Everyone} : q \in ProfileIds /\ profiles[q] \in SUBSET Devices
    BY <1>0, KnownType DEF TypeOK, Groups
  <2>3. Moved(m, p, from) \in [ProfileIds -> Groups]
    BY <2>2 DEF Moved, Groups
  <2> QED BY <1>0, <2>1, <2>3, KnownType, RetargetType DEF Retargeting
<1>7. CASE ProfileDelete(h)
  <2> DEFINE pc(p) == IF IdsOf(RulesOf(p)) = {} THEN "drop" ELSE "delete"
             t(p) == [Request("ProfileDelete", pc(p), p) EXCEPT !.todo = IdsOf(RulesOf(p))]
  <2>1. PICK p \in Known : Start(h, t(p))
    BY <1>7 DEF ProfileDelete
  <2>2. pc(p) \in Steps
    BY <1>k
  <2> HIDE DEF pc
  <2>3. Request("ProfileDelete", pc(p), p) \in Task
    BY <1>0, <1>k, <2>2, KnownType, RequestType
  <2>4. IdsOf(RulesOf(p)) \subseteq GwIds
    BY <1>0, IdsType DEF RulesOf
  <2>5. t(p) \in Task
    BY <2>3, <2>4 DEF Task
  <2>6. used' = used
    BY <1>7 DEF ProfileDelete
  <2>7. Shape(t(p))
    <3>1. pc(p) \in {"drop", "delete"}
      BY DEF pc
    <3> QED BY <3>1 DEF Shape, Request, Syncing, Retargeting
  <2> HIDE DEF t
  <2> QED BY <1>u, <2>1, <2>5, <2>6, <2>7, StartType
<1>8. CASE Pause(h)
  <2>1. PICK p \in Known, b \in Bodies, f \in RuleIds :
          /\ used' = used \union {f}
          /\ Start(h, [Request("Pause", "clear", p) EXCEPT !.cur = NewItem(f, p, b, TRUE)])
    BY <1>8 DEF Pause
  <2>2. Request("Pause", "clear", p) \in Task
    BY <1>0, <1>k, KnownType, RequestType
  <2>3. NewItem(f, p, b, TRUE) \in Item
    BY <1>0, NewItemType
  <2>4. [Request("Pause", "clear", p) EXCEPT !.cur = NewItem(f, p, b, TRUE)] \in Task
    BY <2>2, <2>3 DEF Task
  <2>5. Shape([Request("Pause", "clear", p) EXCEPT !.cur = NewItem(f, p, b, TRUE)])
    BY DEF Shape, Request, Syncing, Retargeting
  <2> QED BY <1>u, <2>1, <2>4, <2>5, StartType
<1>9. CASE Unpause(h)
  <2>1. PICK p \in Owners : Start(h, Request("Unpause", "clear", p))
    BY <1>9 DEF Unpause
  <2>2. Request("Unpause", "clear", p) \in Task
    BY <1>k, RequestType
  <2>3. Shape(Request("Unpause", "clear", p))
    BY DEF Shape, Request, Syncing, Retargeting
  <2> QED BY <1>9, <1>u, <2>1, <2>2, <2>3, StartType DEF Unpause
<1>10. CASE Grant(h)
  <2>1. PICK p \in Known :
          \/ Start(h, Request("Grant", "clear", p)) /\ used' = used
          \/ \E b \in Timed \ elapsed, f \in RuleIds \ used :
               /\ used' = used \union {f}
               /\ Start(h, [Request("Grant", "clear", p) EXCEPT !.cur = NewItem(f, p, b, TRUE)])
    BY <1>10 DEF Grant
  <2>2. Request("Grant", "clear", p) \in Task
    BY <1>0, <1>k, KnownType, RequestType
  <2>3. ASSUME NEW b \in Timed, NEW f \in RuleIds
        PROVE  LET t == [Request("Grant", "clear", p) EXCEPT !.cur = NewItem(f, p, b, TRUE)]
               IN  t \in Task /\ Shape(t)
    <3>1. NewItem(f, p, b, TRUE) \in Item
      BY <1>0, NewItemType, TimedAssumption
    <3>2. Shape([Request("Grant", "clear", p) EXCEPT !.cur = NewItem(f, p, b, TRUE)])
      BY DEF Shape, Request, Syncing, Retargeting
    <3> QED BY <2>2, <3>1, <3>2 DEF Task
  <2>4. Shape(Request("Grant", "clear", p))
    BY DEF Shape, Request, Syncing, Retargeting
  <2> QED BY <1>u, <2>1, <2>2, <2>3, <2>4, StartType
<1> QED BY <1>1, <1>2, <1>3, <1>4, <1>5, <1>6, <1>7, <1>8, <1>9, <1>10 DEF Begin

-----------------------------------------------------------------------------
(* The steps of a request.                                                 *)

\* The fields of a running task.
LEMMA TaskType ==
  ASSUME TInv, NEW h \in Handlers
  PROVE  /\ task[h] \in Task /\ Shape(task[h])
         /\ task[h].cover \subseteq RuleIds
         /\ task[h].todo \subseteq GwIds
         /\ task[h].work \subseteq Item
         /\ task[h].prof \in Owners
         /\ task[h].cur \in Item \union {None}
         /\ task[h].upd \in [ProfileIds -> Groups]
         /\ task[h].made \in [RuleIds -> GwIds \union {None}]
BY DEF TInv, ShapeOK, TypeOK, Task

LEMMA GotoType ==
  ASSUME TInv, NEW h \in Handlers, NEW t \in Task, Shape(t), Goto(h, t)
  PROVE  task' \in [Handlers -> Task] /\ ShapeOK'
BY DEF TInv, TypeOK, ShapeOK, Goto

LEMMA PcType ==
  ASSUME NEW t \in Task, NEW pc \in Steps
  PROVE  [t EXCEPT !.pc = pc] \in Task
BY DEF Task

LEMMA AnswerType ==
  ASSUME TInv, NEW h \in Handlers, Answer(h) \/ AnswerError(h)
  PROVE  task' \in [Handlers -> Task] /\ told' \subseteq RuleIds /\ ShapeOK'
<1>1. Goto(h, Idle)
  BY DEF Answer, AnswerError
<1>2. told' \subseteq told \union task[h].cover
  BY DEF Answer, AnswerError
<1> QED BY <1>1, <1>2, IdleType, IdleShape, GotoType, TaskType DEF TInv, TypeOK

LEMMA FailedType ==
  ASSUME TInv, NEW h \in Handlers, Failed(h)
  PROVE  task' \in [Handlers -> Task] /\ told' \subseteq RuleIds /\ ShapeOK'
<1>1. CASE Goto(h, [task[h] EXCEPT !.pc = "partial"]) /\ UNCHANGED told
  <2>1. [task[h] EXCEPT !.pc = "partial"] \in Task
    BY TaskType, PcType DEF Steps
  <2>2. Shape([task[h] EXCEPT !.pc = "partial"])
    BY TaskType DEF Shape, Task
  <2> QED BY <1>1, <2>1, <2>2, GotoType DEF TInv, TypeOK
<1>2. CASE AnswerError(h)
  BY <1>2, AnswerType
<1> QED BY <1>1, <1>2 DEF Failed

LEMMA FaultType ==
  ASSUME TypeOK, Fault
  PROVE  faults' \in 0 .. MaxFaults
BY FaultsAssumption DEF TypeOK, Fault

LEMMA GoneType ==
  ASSUME TypeOK, NEW u
  PROVE  Gone(u) \in [GwIds -> GwRule \union {Foreign, None}]
BY DEF TypeOK, Gone

LEMMA AfterType ==
  ASSUME NEW t \in Task
  PROVE  AfterDelete(t) \in Task /\ AfterWrite(t) \in Task
<1>1. \A pc \in Steps : [t EXCEPT !.pc = pc] \in Task
  BY PcType
<1>2. {"create", "drop", "commit", "put"} \subseteq Steps
  BY DEF Steps
<1> QED BY <1>1, <1>2 DEF AfterDelete, AfterWrite

\* AfterDelete and AfterWrite move on and change nothing else.
LEMMA AfterFields ==
  ASSUME NEW t \in Task, NEW n, n \in {AfterDelete(t), AfterWrite(t)}
  PROVE  /\ n.kind = t.kind /\ n.prof = t.prof /\ n.cur = t.cur /\ n.todo = t.todo
         /\ n.upd = t.upd /\ n.work = t.work /\ n.made = t.made /\ n.cover = t.cover
         /\ n.old = t.old
         /\ n = AfterDelete(t) =>
              n.pc = IF t.todo # {} THEN t.pc ELSE IF t.kind \in Syncing THEN "create" ELSE "drop"
         /\ n = AfterWrite(t) => n.pc = IF t.work = {} THEN "commit" ELSE "put"
<1>1. CASE n = t /\ t.todo # {}
  <2>1. n = AfterWrite(t) => n.pc = IF t.work = {} THEN "commit" ELSE "put"
    BY <1>1 DEF AfterWrite, Task
  <2> QED BY <1>1, <2>1
<1>2. ASSUME NEW pc, n = [t EXCEPT !.pc = pc]
      PROVE  /\ n.kind = t.kind /\ n.prof = t.prof /\ n.cur = t.cur /\ n.todo = t.todo
             /\ n.upd = t.upd /\ n.work = t.work /\ n.made = t.made /\ n.cover = t.cover
             /\ n.old = t.old /\ n.pc = pc
  BY <1>2 DEF Task
<1>3. CASE n = AfterWrite(t)
  <2> DEFINE pc == IF t.work = {} THEN "commit" ELSE "put"
  <2>1. n = [t EXCEPT !.pc = pc]
    BY <1>3 DEF AfterWrite
  <2>2. n = AfterDelete(t) =>
          n.pc = IF t.todo # {} THEN t.pc ELSE IF t.kind \in Syncing THEN "create" ELSE "drop"
    BY <1>2, <2>1 DEF AfterDelete, Task
  <2> QED BY <1>2, <2>1, <2>2
<1>4. CASE n = AfterDelete(t)
  <2> DEFINE pc == IF t.kind \in Syncing THEN "create" ELSE "drop"
  <2>1. CASE t.todo = {}
    <3>1. n = [t EXCEPT !.pc = pc]
      BY <1>4, <2>1 DEF AfterDelete
    <3> QED BY <1>2, <1>3, <2>1, <3>1
  <2>2. CASE t.todo # {}
    <3>1. n = t
      BY <1>4, <2>2 DEF AfterDelete
    <3> QED BY <1>1, <2>2, <3>1
  <2> QED BY <2>1, <2>2
<1> QED BY <1>3, <1>4

\* A step of a request that goes on, as a change of its locals.
LEMMA GotoFields ==
  ASSUME TInv, NEW h \in Handlers, NEW n, Goto(h, n)
  PROVE  task'[h] = n /\ \A k \in Handlers \ {h} : task'[k] = task[k]
BY DEF Goto, TInv, TypeOK

LEMMA TranslateType ==
  ASSUME NEW item \in Item, NEW u
  PROVE  /\ Translate(item) \in GwRule
         /\ TypeOK => [gw EXCEPT ![u] = Translate(item)] \in [GwIds -> GwRule \union {Foreign, None}]
<1>1. Translate(item) \in GwRule
  BY DEF Item, Rule, GwRule, Translate
<1> QED BY <1>1 DEF TypeOK

\* A request that deletes, or looks at the pauses, keeps its shape.
LEMMA DeleteShape ==
  ASSUME NEW t \in Task, Shape(t), t.pc \in {"clear", "delete"}, NEW ids \in SUBSET GwIds
  PROVE  LET new == AfterDelete([t EXCEPT !.pc = "delete", !.todo = ids])
         IN  new \in Task /\ Shape(new)
<1> DEFINE t1 == [t EXCEPT !.pc = "delete", !.todo = ids]
           t2 == [t1 EXCEPT !.pc = IF t.kind \in Syncing THEN "create" ELSE "drop"]
<1>1. t1 \in Task
  BY DEF Task, Steps
<1>2. Shape(t1)
  BY DEF Task, Shape
<1>3. Shape(t2)
  BY DEF Task, Shape, Written
<1>4. AfterDelete(t1) \in {t1, t2}
  BY DEF AfterDelete, Task
<1> HIDE DEF t1, t2
<1>5. AfterDelete(t1) \in Task /\ Shape(AfterDelete(t1))
  BY <1>1, <1>2, <1>3, <1>4, AfterType
<1> QED BY <1>5 DEF t1

\* What a commit writes for an item has the id the gateway gave it.
LEMMA WrittenType ==
  ASSUME NEW t \in Task, t.cur # None
  PROVE  /\ Written(t) \in Rule
         /\ t.cur.rule.gw \in GwIds \/ t.made[t.cur.rid] # None => Written(t).gw \in GwIds
         /\ Written(t).gw = IF t.made[t.cur.rid] = None THEN t.cur.rule.gw
                                                        ELSE t.made[t.cur.rid]
<1>1. t.cur \in Item /\ t.made \in [RuleIds -> GwIds \union {None}]
  BY DEF Task
<1>2. t.cur.rule \in Rule /\ t.cur.rid \in RuleIds
  BY <1>1 DEF Item
<1>3. t.made[t.cur.rid] \in GwIds \union {None}
  BY <1>1, <1>2
<1> QED BY <1>2, <1>3 DEF Written, Rule

\* A request whose item reached the gateway keeps its shape.
LEMMA WriteShape ==
  ASSUME NEW t \in Task, t.kind \in Creating \union Syncing, t.cur # None,
         \A i \in t.work : i.rule.gw \in GwIds /\ t.kind \in Syncing,
         t.kind \in Syncing => t.cur.rule.gw \in GwIds,
         t.cur.rule.gw \in GwIds \/ t.made[t.cur.rid] # None
  PROVE  AfterWrite(t) \in Task /\ Shape(AfterWrite(t))
<1> DEFINE pc == IF t.work = {} THEN "commit" ELSE "put"
           n == [t EXCEPT !.pc = pc]
<1>1. AfterWrite(t) = n /\ pc \in {"commit", "put"}
  BY DEF AfterWrite
<1> HIDE DEF pc
<1>2. n.kind = t.kind /\ n.work = t.work /\ n.cur = t.cur /\ n.pc = pc /\ n.made = t.made
  BY DEF Task
<1>3. n \in Task
  BY <1>1, AfterType
<1> HIDE DEF n
<1>4. Written(n).gw \in GwIds
  BY <1>2, <1>3, WrittenType
<1> QED BY <1>1, <1>2, <1>3, <1>4 DEF Shape

LEMMA CommitType ==
  ASSUME TInv, NEW h \in Handlers
  PROVE  /\ Persisted(task[h]) \in [RuleIds -> Rule \union {None}]
         /\ \A f \in RuleIds : Persisted(task[h])[f] # None => Persisted(task[h])[f].gw \in GwIds
         /\ PersistedProfiles(task[h]) \in [ProfileIds -> Groups]
         /\ task[h].pc = "commit" =>
              /\ Committed(task[h]) \in [RuleIds -> Rule \union {None}]
              /\ \A f \in RuleIds : Committed(task[h])[f] # None => Committed(task[h])[f].gw \in GwIds
<1> DEFINE t == task[h]
<1>t. /\ TypeOK /\ t \in Task /\ Shape(t)
      /\ t.upd \in [ProfileIds -> Groups] /\ t.made \in [RuleIds -> GwIds \union {None}]
      /\ t.cur \in Item \union {None}
      /\ rules \in [RuleIds -> Rule \union {None}] /\ profiles \in [ProfileIds -> Groups]
  BY TaskType DEF TInv, TypeOK
<1> HIDE DEF t
<1>1. ASSUME NEW f \in RuleIds
      PROVE  /\ Persisted(t)[f] \in Rule \union {None}
             /\ Persisted(t)[f] # None => Persisted(t)[f].gw \in GwIds
  <2>1. CASE f \in Stored /\ t.made[f] # None
    <3>1. rules[f] \in Rule /\ t.made[f] \in GwIds
      BY <1>t, <2>1, StoredType
    <3>2. Persisted(t)[f] = [rules[f] EXCEPT !.gw = t.made[f]]
      BY <2>1 DEF Persisted
    <3> QED BY <3>1, <3>2 DEF Rule
  <2>2. CASE ~(f \in Stored /\ t.made[f] # None)
    <3>1. Persisted(t)[f] = rules[f]
      BY <2>2 DEF Persisted
    <3> QED BY <1>t, <3>1, StoredType DEF Stored
  <2> QED BY <2>1, <2>2
<1>2. Persisted(t) \in [RuleIds -> Rule \union {None}]
  <2>1. Persisted(t) = [f \in RuleIds |-> Persisted(t)[f]]
    BY DEF Persisted
  <2> QED BY <1>1, <2>1
<1>3. PersistedProfiles(t) \in [ProfileIds -> Groups]
  BY <1>t DEF PersistedProfiles
<1>4. ASSUME t.pc = "commit"
      PROVE  /\ Committed(t) \in [RuleIds -> Rule \union {None}]
             /\ \A f \in RuleIds : Committed(t)[f] # None => Committed(t)[f].gw \in GwIds
  <2>1. CASE t.kind \in Retargeting
    BY <1>1, <1>2, <2>1 DEF Committed
  <2>2. CASE t.kind \notin Retargeting
    <3>1. t.cur # None /\ Written(t).gw \in GwIds /\ Written(t) \in Rule
      BY <1>t, <1>4, <2>2, WrittenType DEF Shape
    <3>2. \A f \in RuleIds : rules[f] # None => rules[f].gw \in GwIds
      BY <1>t, StoredType DEF Stored
    <3>3. Committed(t) \in {[rules EXCEPT ![t.cur.rid] = Written(t)], rules}
      BY <2>2 DEF Committed
    <3> QED BY <1>t, <3>1, <3>2, <3>3
  <2> QED BY <2>1, <2>2
<1> QED BY <1>1, <1>2, <1>3, <1>4 DEF t

LEMMA ForgetType ==
  ASSUME TInv, NEW F, rules' = Forget(F)
  PROVE  /\ rules' \in [RuleIds -> Rule \union {None}]
         /\ \A f \in Stored' : rules'[f].gw \in GwIds
BY DEF TInv, TypeOK, Forget, Stored

LEMMA SucceedType ==
  ASSUME TInv, NEW h \in Handlers, Succeed(h)
  PROVE  TInv'
<1> USE DEF TInv
<1>t. /\ TypeOK
      /\ task[h] \in Task /\ Shape(task[h])
      /\ task[h].todo \subseteq GwIds /\ task[h].work \subseteq Item
      /\ task[h].cur \in Item \union {None}
      /\ task[h].made \in [RuleIds -> GwIds \union {None}]
  BY TaskType
<1>1. CASE Clear(h)
  <2>1. IdsOf(PausesOf(task[h].prof)) \subseteq GwIds
    BY <1>t, IdsType DEF PausesOf, RulesOf
  <2>2. task' \in [Handlers -> Task] /\ ShapeOK'
    BY <1>1, <1>t, <2>1, DeleteShape, GotoType DEF Clear
  <2> QED BY <1>1, <2>2 DEF Clear, TypeOK, Stored
<1>2. CASE Delete(h)
  <2>1. PICK u \in task[h].todo :
          /\ gw' = Gone(u)
          /\ Goto(h, AfterDelete([task[h] EXCEPT !.todo = @ \ {u}]))
    BY <1>2 DEF Delete
  <2>2. [task[h] EXCEPT !.todo = @ \ {u}]
          = [task[h] EXCEPT !.pc = "delete", !.todo = task[h].todo \ {u}]
    BY <1>2, <1>t DEF Delete, Task
  <2>3. task' \in [Handlers -> Task] /\ ShapeOK'
    BY <1>2, <1>t, <2>1, <2>2, DeleteShape, GotoType DEF Delete
  <2> QED BY <1>2, <1>t, <2>1, <2>3, GoneType DEF Delete, TypeOK, Stored
<1>3. CASE Put(h)
  <2> DEFINE t(item) == [task[h] EXCEPT !.work = @ \ {item}, !.cur = item]
  <2>1. PICK item \in task[h].work :
          LET u == item.rule.gw IN
          \/ /\ gw' = [gw EXCEPT ![u] = Translate(item)]
             /\ Goto(h, AfterWrite(t(item)))
          \/ /\ Goto(h, [t(item) EXCEPT !.pc = "delete", !.todo = {u}])
             /\ UNCHANGED gw
    BY <1>3 DEF Put
  <2>2. item \in Item /\ item.rule.gw \in GwIds /\ task[h].kind \in Syncing /\ item # None
    BY <1>t, NoneAssumption DEF Shape
  <2>3. t(item) \in Task /\ t(item).cur = item /\ t(item).kind = task[h].kind
        /\ t(item).work \subseteq task[h].work /\ t(item).made = task[h].made
    BY <1>t, <2>2 DEF Task
  <2>4. AfterWrite(t(item)) \in Task /\ Shape(AfterWrite(t(item)))
    <3> HIDE DEF t
    <3> QED BY <1>t, <2>2, <2>3, WriteShape DEF Shape
  <2>5. [t(item) EXCEPT !.pc = "delete", !.todo = {item.rule.gw}] \in Task
    <3> HIDE DEF t
    <3> QED BY <2>2, <2>3 DEF Task, Steps
  <2>6. Shape([t(item) EXCEPT !.pc = "delete", !.todo = {item.rule.gw}])
    <3> HIDE DEF t
    <3> QED BY <1>t, <2>2, <2>3 DEF Shape, Task
  <2>7. task' \in [Handlers -> Task] /\ ShapeOK'
    BY <2>1, <2>4, <2>5, <2>6, GotoType
  <2>8. gw' \in [GwIds -> GwRule \union {Foreign, None}]
    BY <1>t, <2>1, <2>2, TranslateType DEF TypeOK
  <2> QED BY <1>3, <2>7, <2>8 DEF Put, TypeOK, Stored
<1>4. CASE Create(h)
  <2> DEFINE t(u) == [task[h] EXCEPT !.made[task[h].cur.rid] = u]
  <2>1. PICK u \in GwIds :
          /\ gw' = [gw EXCEPT ![u] = Translate(task[h].cur)]
          /\ used' = used \union {u}
          /\ Goto(h, AfterWrite(t(u)))
    BY <1>4 DEF Create
  <2>2. task[h].cur # None /\ task[h].kind \in Creating \union Syncing /\ task[h].cur \in Item
    BY <1>4, <1>t DEF Create, Shape
  <2>3. t(u) \in Task /\ t(u).cur = task[h].cur /\ t(u).kind = task[h].kind
        /\ t(u).work = task[h].work /\ t(u).made[t(u).cur.rid] = u
    BY <1>t, <2>2 DEF Task, Item
  <2>4. AfterWrite(t(u)) \in Task /\ Shape(AfterWrite(t(u)))
    <3> HIDE DEF t
    <3> QED BY <1>t, <2>2, <2>3, NoneAssumption, WriteShape DEF Shape
  <2>5. task' \in [Handlers -> Task] /\ ShapeOK'
    BY <2>1, <2>4, GotoType
  <2>6. gw' \in [GwIds -> GwRule \union {Foreign, None}]
    BY <1>t, <2>1, <2>2, TranslateType DEF TypeOK
  <2> QED BY <1>4, <2>1, <2>5, <2>6 DEF Create, TypeOK, Stored
<1>5. CASE Drop(h)
  <2>1. /\ rules' \in [RuleIds -> Rule \union {None}]
        /\ \A f \in Stored' : rules'[f].gw \in GwIds
    BY <1>5, ForgetType DEF Drop
  <2>2. profiles' \in [ProfileIds -> Groups]
    BY <1>5 DEF Drop, TypeOK, Groups
  <2>3. task' \in [Handlers -> Task] /\ told' \subseteq RuleIds /\ ShapeOK'
    <3>1. CASE /\ task[h].cur # None
               /\ task[h].kind \in Pausing
               /\ Goto(h, [task[h] EXCEPT !.pc = "create"])
               /\ UNCHANGED told
      <4>1. [task[h] EXCEPT !.pc = "create"] \in Task
        BY <1>t, PcType DEF Steps
      <4>2. Shape([task[h] EXCEPT !.pc = "create"])
        BY <1>t, <3>1 DEF Shape, Task, Creating
      <4> QED BY <3>1, <4>1, <4>2, GotoType DEF TypeOK
    <3>2. CASE Answer(h)
      BY <3>2, AnswerType
    <3> QED BY <1>5, <3>1, <3>2 DEF Drop
  <2> QED BY <1>5, <2>1, <2>2, <2>3 DEF Drop, TypeOK
<1>6. CASE Commit(h)
  BY <1>6, AnswerType, CommitType DEF Commit, TypeOK, Stored
<1>7. CASE Partial(h)
  BY <1>7, AnswerType, CommitType DEF Partial, TypeOK, Stored
<1>8. CASE Compensate(h)
  <2>1. gw' \in [GwIds -> GwRule \union {Foreign, None}] /\ faults' \in 0 .. MaxFaults
    BY <1>8, GoneType, FaultType DEF Compensate, TypeOK
  <2> QED BY <1>8, <2>1, AnswerType DEF Compensate, TypeOK, Stored
<1> QED BY <1>1, <1>2, <1>3, <1>4, <1>5, <1>6, <1>7, <1>8 DEF Succeed

LEMMA ErrType ==
  ASSUME TInv, NEW h \in Handlers, Err(h)
  PROVE  TInv'
<1> USE DEF TInv
<1>1. CASE DeleteError(h)
  <2>1. gw' \in [GwIds -> GwRule \union {Foreign, None}] /\ faults' \in 0 .. MaxFaults
    BY <1>1, GoneType, FaultType DEF DeleteError, TypeOK
  <2> QED BY <1>1, <2>1, FailedType DEF DeleteError, TypeOK, Stored
<1>2. CASE PutError(h)
  <2>1. PICK item \in task[h].work :
          gw' = gw \/ gw' = [gw EXCEPT ![item.rule.gw] = Translate(item)]
    BY <1>2 DEF PutError
  <2>2. gw' \in [GwIds -> GwRule \union {Foreign, None}] /\ faults' \in 0 .. MaxFaults
    BY <1>2, <2>1, TaskType, TranslateType, FaultType DEF PutError, TypeOK
  <2> QED BY <1>2, <2>2, FailedType DEF PutError, TypeOK, Stored
<1>3. CASE CreateError(h)
  <2>1. task[h].cur \in Item
    BY <1>3, TaskType DEF CreateError, Shape
  <2>2. /\ gw' \in [GwIds -> GwRule \union {Foreign, None}]
        /\ faults' \in 0 .. MaxFaults
        /\ used' \subseteq ProfileIds \union RuleIds \union GwIds
    BY <1>3, <2>1, TranslateType, FaultType DEF CreateError, TypeOK
  <2> QED BY <1>3, <2>2, FailedType DEF CreateError, TypeOK, Stored
<1>4. CASE SaveError(h)
  <2>1. task' \in [Handlers -> Task] /\ told' \subseteq RuleIds /\ ShapeOK'
    <3>1. CASE /\ task[h].pc = "commit" /\ task[h].kind \in Creating
               /\ Goto(h, [task[h] EXCEPT !.pc = "compensate"])
               /\ UNCHANGED told
      <4>1. [task[h] EXCEPT !.pc = "compensate"] \in Task
        BY TaskType, PcType DEF Steps
      <4>2. task[h].kind \notin Retargeting
        BY <3>1 DEF Creating, Pausing, Retargeting
      <4>3. Shape([task[h] EXCEPT !.pc = "compensate"])
        BY <3>1, <4>2, TaskType DEF Shape, Task
      <4> QED BY <3>1, <4>1, <4>3, GotoType DEF TypeOK
    <3>2. CASE AnswerError(h)
      BY <3>2, AnswerType
    <3> QED BY <1>4, <3>1, <3>2 DEF SaveError
  <2> QED BY <1>4, <2>1, FaultType DEF SaveError, TypeOK, Stored
<1> QED BY <1>1, <1>2, <1>3, <1>4 DEF Err

-----------------------------------------------------------------------------
(* The janitor, the world, and the theorem.                                *)

LEMMA JanitorType ==
  ASSUME TInv, JanitorStep \/ JanitorError
  PROVE  TInv'
<1> USE DEF TInv
<1>r. Resting \in JanitorState
  BY DEF Resting, JanitorState
<1>1. CASE JanitorList
  BY <1>1 DEF JanitorList, Resting, JanitorState, TypeOK, ShapeOK, Stored
<1>2. CASE JanitorPlan
  <2> DEFINE del  == IdsOf(Spent) \union Again(Untracked, suspects.gw)
             drop == Spent \union Again(Vanished, suspects.meta)
  <2>1. Spent \subseteq Stored /\ Vanished \subseteq Stored /\ Stored \subseteq RuleIds
    BY DEF Spent, Vanished, Stored
  <2>2. IdsOf(Spent) \subseteq GwIds
    BY <2>1, IdsType
  <2>3. Untracked \subseteq GwIds
    BY DEF Untracked, TypeOK, JanitorState
  <2>4. del \subseteq GwIds /\ drop \subseteq RuleIds
    BY <2>1, <2>2, <2>3 DEF Again
  <2> HIDE DEF del, drop
  <2>5. janitor' \in {[janitor EXCEPT !.pc = "delete", !.del = del, !.drop = drop],
                      [janitor EXCEPT !.pc = "drop", !.drop = drop], Resting}
    BY <1>2 DEF JanitorPlan, del, drop
  <2>6. janitor' \in JanitorState
    <3>1. janitor \in JanitorState
      BY DEF TypeOK
    <3>2. [janitor EXCEPT !.pc = "delete", !.del = del, !.drop = drop] \in JanitorState
      BY <2>4, <3>1 DEF JanitorState
    <3>3. [janitor EXCEPT !.pc = "drop", !.drop = drop] \in JanitorState
      BY <2>4, <3>1 DEF JanitorState
    <3> QED BY <1>r, <2>5, <3>2, <3>3
  <2>7. suspects' \in [meta : SUBSET RuleIds, gw : SUBSET GwIds]
    BY <1>2, <2>1, <2>3 DEF JanitorPlan
  <2>8. task' \in [Handlers -> Task] /\ ShapeOK'
    <3>1. ASSUME NEW h \in Handlers
          PROVE  task'[h] \in Task /\ Shape(task'[h])
      <4>1. task'[h] = [task[h] EXCEPT !.old = task[h].pc # "idle"]
        BY <1>2 DEF JanitorPlan
      <4>2. (task[h].pc # "idle") \in BOOLEAN
        OBVIOUS
      <4>3. task'[h] \in Task
        BY <4>1, <4>2, TaskType DEF Task
      <4>4. Shape(task'[h])
        BY <4>1, TaskType DEF Task, Shape, Written
      <4> QED BY <4>3, <4>4
    <3>2. task' = [h \in Handlers |-> task'[h]]
      BY <1>2 DEF JanitorPlan
    <3> QED BY <3>1, <3>2 DEF ShapeOK
  <2> QED BY <1>2, <2>6, <2>7, <2>8 DEF JanitorPlan, TypeOK, Stored
<1>3. CASE JanitorDelete
  <2>1. PICK u \in janitor.del :
          /\ gw' = Gone(u)
          /\ janitor' \in {[janitor EXCEPT !.del = @ \ {u}],
                           [janitor EXCEPT !.del = {}, !.pc = "drop"], Resting}
    BY <1>3 DEF JanitorDelete
  <2>2. janitor' \in JanitorState
    <3>1. janitor \in JanitorState
      BY DEF TypeOK
    <3>2. [janitor EXCEPT !.del = @ \ {u}] \in JanitorState
      BY <3>1 DEF JanitorState
    <3>3. [janitor EXCEPT !.del = {}, !.pc = "drop"] \in JanitorState
      BY <3>1 DEF JanitorState
    <3> QED BY <1>r, <2>1, <3>2, <3>3
  <2> QED BY <1>3, <2>1, <2>2, GoneType DEF JanitorDelete, TypeOK, ShapeOK, Stored
<1>4. CASE JanitorDrop
  <2>1. /\ rules' \in [RuleIds -> Rule \union {None}]
        /\ \A f \in Stored' : rules'[f].gw \in GwIds
    BY <1>4, ForgetType DEF JanitorDrop
  <2> QED BY <1>4, <1>r, <2>1 DEF JanitorDrop, TypeOK, ShapeOK
<1>5. CASE JanitorError
  BY <1>5, <1>r, GoneType, FaultType DEF JanitorError, TypeOK, ShapeOK, Stored
<1> QED BY <1>1, <1>2, <1>3, <1>4, <1>5 DEF JanitorStep

LEMMA WorldType ==
  ASSUME TInv, World \/ Crash
  PROVE  TInv'
<1> USE DEF TInv
<1>1. CASE AppDelete
  BY <1>1, GoneType DEF AppDelete, TypeOK, ShapeOK, Stored
<1>2. CASE AppCreate
  BY <1>2 DEF AppCreate, TypeOK, ShapeOK, Stored
<1>3. CASE Elapse
  BY <1>3 DEF Elapse, TypeOK, ShapeOK, Stored
<1>4. CASE Crash
  <2>1. task' \in [Handlers -> Task] /\ ShapeOK'
    BY <1>4, IdleType, IdleShape DEF Crash, ShapeOK
  <2>2. told' \subseteq RuleIds
    BY <1>4, TaskType DEF Crash, TypeOK
  <2>3. /\ suspects' \in [meta : SUBSET RuleIds, gw : SUBSET GwIds]
        /\ janitor' \in JanitorState
    BY <1>4 DEF Crash, NoSuspects, Resting, JanitorState
  <2> QED BY <1>4, <2>1, <2>2, <2>3, FaultType DEF Crash, TypeOK, Stored
<1> QED BY <1>1, <1>2, <1>3, <1>4 DEF World

LEMMA NextType == TInv /\ [Next]_vars => TInv'
<1> SUFFICES ASSUME TInv, [Next]_vars PROVE TInv'
  OBVIOUS
<1>1. CASE Next
  BY <1>1, BeginType, SucceedType, ErrType, JanitorType, WorldType DEF Next
<1>2. CASE UNCHANGED vars
  BY <1>2 DEF vars, TInv, TypeOK, ShapeOK, Stored
<1> QED BY <1>1, <1>2

\* In every state every variable has its type, and no rule is stored without the
\* id of a gateway rule: whatever path a request took to its store.Update, it
\* recorded an id the gateway had given for that rule.
THEOREM TypeCorrect == Spec => []TypeOK
<1>1. Init => TInv
  BY InitType, IdleShape DEF TInv, ShapeOK, Init
<1>2. TInv => TypeOK
  BY DEF TInv
<1> QED BY <1>1, <1>2, NextType, PTL DEF Spec

-----------------------------------------------------------------------------
(***************************************************************************)
(* Gateway ids have one owner.  The handlers and the janitor delete and     *)
(* overwrite gateway rules by ids they remember, from snapshots and         *)
(* listings that may be stale.  The inductive invariant follows an id from  *)
(* the gateway through every local variable that can hold it:               *)
(*   - an id somebody remembers was handed out, and is not a foreign rule's; *)
(*   - the store and the requests never give one id to two family rules.    *)
(***************************************************************************)

\* Request t takes u for the gateway id of family rule f.
Holds(t, f, u) ==
  \/ \E i \in t.work : i.rid = f /\ i.rule.gw = u
  \/ t.cur # None /\ t.cur.rid = f /\ t.cur.rule.gw = u
  \/ t.made[f] = u

Claim(f, u) ==
  \/ f \in Stored /\ rules[f].gw = u
  \/ \E h \in Handlers : Holds(task[h], f, u)

Owned(u) ==
  \/ \E f \in RuleIds : Claim(f, u)
  \/ \E h \in Handlers : u \in task[h].todo
  \/ u \in janitor.fam \union janitor.del

ClaimsOK == \A u \in GwIds : \A f, g \in RuleIds : Claim(f, u) /\ Claim(g, u) => f = g
OwnedOK  == \A u \in GwIds : /\ gw[u] # None => u \in used
                             /\ Owned(u) => u \in used /\ gw[u] # Foreign

IdInv == TInv /\ ClaimsOK /\ OwnedOK

\* What a step may do to ids: an id is handed out once, only its owner changes
\* its gateway rule, and nobody comes to own an id but from an owner, from a
\* listing, or with its creation.
Born(u) == u \notin used /\ u \in used'

Tame ==
  /\ used \subseteq used'
  /\ \A u \in GwIds :
       /\ \A f \in RuleIds : Claim(f, u)' => Claim(f, u) \/ Born(u)
       /\ Born(u) => \A f, g \in RuleIds : Claim(f, u)' /\ Claim(g, u)' => f = g
       /\ Owned(u)' => Owned(u) \/ IsFamilyTime(u) \/ (Born(u) /\ gw'[u] # Foreign)
       /\ gw'[u] # gw[u] => Owned(u) \/ Born(u) \/ AppDelete
       /\ gw'[u] # None => gw[u] # None \/ Owned(u) \/ Born(u)
       /\ gw'[u] = Foreign => gw[u] = Foreign \/ Born(u)

LEMMA TameKeeps ==
  ASSUME ClaimsOK, OwnedOK, Tame
  PROVE  ClaimsOK' /\ OwnedOK'
<1>1. ClaimsOK'
  BY DEF Tame, ClaimsOK
<1>2. ASSUME NEW u \in GwIds
      PROVE  /\ gw'[u] # None => u \in used'
             /\ Owned(u)' => u \in used' /\ gw'[u] # Foreign
  BY DEF Tame, OwnedOK, Born, IsFamilyTime
<1> QED BY <1>1, <1>2 DEF OwnedOK

\* No id changes hands in a step that only moves a request to t.
Narrow == \A u \in GwIds : /\ \A f \in RuleIds : Claim(f, u)' => Claim(f, u)
                           /\ Owned(u)' => Owned(u)

LEMMA GotoNarrow ==
  ASSUME TInv, NEW h \in Handlers, NEW t, Goto(h, t), janitor' = janitor,
         \A u \in GwIds : /\ \A f \in RuleIds : Holds(t, f, u) => Claim(f, u)
                          /\ u \in t.todo => Owned(u),
         \A f \in Stored' : Claim(f, rules'[f].gw)
  PROVE  Narrow
<1>1. task' = [task EXCEPT ![h] = t] /\ task \in [Handlers -> Task]
  BY DEF Goto, TInv, TypeOK
<1>2. ASSUME NEW u \in GwIds, NEW f \in RuleIds, Claim(f, u)'
      PROVE  Claim(f, u)
  <2>1. CASE f \in Stored' /\ rules'[f].gw = u
    BY <2>1
  <2>2. ASSUME NEW k \in Handlers, Holds(task[k], f, u)'
        PROVE  Claim(f, u)
    <3>1. CASE k = h
      <4>1. Holds(t, f, u)
        BY <1>1, <2>2, <3>1 DEF Holds
      <4> QED BY <4>1
    <3>2. CASE k # h
      <4>1. Holds(task[k], f, u)
        BY <1>1, <2>2, <3>2 DEF Holds
      <4> QED BY <4>1 DEF Claim
    <3> QED BY <3>1, <3>2
  <2> QED BY <1>2, <2>1, <2>2 DEF Claim
<1>3. ASSUME NEW u \in GwIds, Owned(u)'
      PROVE  Owned(u)
  <2>1. ASSUME NEW f \in RuleIds, Claim(f, u)'
        PROVE  Owned(u)
    BY <1>2, <2>1 DEF Owned
  <2>2. ASSUME NEW k \in Handlers, u \in task'[k].todo
        PROVE  Owned(u)
    BY <1>1, <2>2 DEF Owned
  <2> QED BY <1>3, <2>1, <2>2 DEF Owned
<1> QED BY <1>2, <1>3 DEF Narrow

\* A narrow step that leaves the gateway alone, or changes the rule of an id
\* that has an owner, is tame.
LEMMA NarrowTame ==
  ASSUME ClaimsOK, Narrow, used \subseteq used',
         \A u \in GwIds : gw'[u] # gw[u] => Owned(u) /\ gw'[u] # Foreign
  PROVE  Tame
<1>1. \A u \in GwIds : \A f, g \in RuleIds : Claim(f, u)' /\ Claim(g, u)' => f = g
  BY DEF Narrow, ClaimsOK
<1> QED BY <1>1 DEF Tame, Narrow

\* Requests that hold no id they did not find in the store.
LEMMA EmptyHolds ==
  ASSUME NEW kind, NEW pc, NEW prof, NEW f \in RuleIds, NEW u \in GwIds
  PROVE  LET t == Request(kind, pc, prof)
         IN  /\ t.work = {} /\ t.cur = None /\ t.made[f] # u /\ t.todo = {}
             /\ ~Holds(t, f, u)
BY NoneAssumption DEF Holds, Request, NoneMade

LEMMA ClaimRules ==
  ASSUME NEW f \in Stored
  PROVE  Claim(f, rules[f].gw)
BY DEF Claim

\* A request claims what it holds, and owns what it is about to delete.
LEMMA TaskClaims ==
  ASSUME NEW h \in Handlers, NEW u \in GwIds
  PROVE  /\ \A f \in RuleIds : Holds(task[h], f, u) => Claim(f, u)
         /\ u \in task[h].todo => Owned(u)
BY DEF Claim, Owned

LEMMA ClaimOwned ==
  ASSUME NEW f \in RuleIds, NEW u \in GwIds, Claim(f, u)
  PROVE  Owned(u)
BY DEF Owned

LEMMA IdsOwned ==
  ASSUME NEW F, F \subseteq Stored, NEW u \in IdsOf(F)
  PROVE  Owned(u)
BY DEF IdsOf, Owned, Claim, Stored

\* A request starts from the store.
LEMMA StartTame ==
  ASSUME IdInv, NEW h \in Handlers, NEW t, Start(h, t), used \subseteq used',
         \A u \in GwIds : /\ \A f \in RuleIds : Holds(t, f, u) => Claim(f, u)
                          /\ u \in t.todo => Owned(u)
  PROVE  Tame
<1>1. Goto(h, t) /\ rules' = rules /\ janitor' = janitor /\ gw' = gw
  BY DEF Start, Goto
<1>2. \A f \in Stored' : Claim(f, rules'[f].gw)
  BY <1>1, ClaimRules DEF Stored
<1> QED BY <1>1, <1>2, GotoNarrow, NarrowTame DEF IdInv

LEMMA NewItemTame ==
  ASSUME IdInv, NEW h \in Handlers, NEW kind, NEW pc, NEW p,
         NEW f \in RuleIds, NEW b, NEW pause, used' = used \union {f},
         Start(h, [Request(kind, pc, p) EXCEPT !.cur = NewItem(f, p, b, pause)])
  PROVE  Tame
<1> DEFINE t == [Request(kind, pc, p) EXCEPT !.cur = NewItem(f, p, b, pause)]
<1>1. ASSUME NEW u \in GwIds, NEW g \in RuleIds
      PROVE  ~Holds(t, g, u) /\ u \notin t.todo
  <2>1. /\ t.work = {} /\ t.made = NoneMade /\ t.todo = {}
        /\ t.cur.rule.gw = None
    BY DEF Request, NewItem
  <2> HIDE DEF t
  <2> QED BY <2>1, NoneAssumption DEF Holds, NoneMade
<1> HIDE DEF t
<1>2. Start(h, t)
  BY DEF t
<1>3. \A u \in GwIds : u \notin t.todo
  BY DEF t, Request
<1> QED BY <1>1, <1>2, <1>3, StartTame

LEMMA RetargetTame ==
  ASSUME IdInv, NEW h \in Handlers, NEW kind, NEW p, NEW upd, Retarget(h, kind, p, upd)
  PROVE  Tame
<1> DEFINE F == UNION {RulesOf(q) : q \in {q \in ProfileIds : upd[q] # None}}
           pc == IF F = {} THEN "commit" ELSE "put"
           t == [Request(kind, pc, p) EXCEPT !.upd = upd, !.work = WorkOf(F, upd), !.cover = F]
<1>1. F \subseteq Stored
  BY DEF RulesOf
<1>2. \A i \in WorkOf(F, upd) : i.rid \in F /\ i.rule = rules[i.rid]
  BY DEF WorkOf
<1>3. t.work = WorkOf(F, upd) /\ t.cur = None /\ t.made = NoneMade /\ t.todo = {}
  <2> HIDE DEF F, pc
  <2> QED BY DEF Request
<1>4. Start(h, t) /\ used' = used
  BY DEF Retarget
<1> HIDE DEF t
<1>5. ASSUME NEW u \in GwIds, NEW f \in RuleIds, Holds(t, f, u)
      PROVE  Claim(f, u)
  <2>1. \E i \in t.work : i.rid = f /\ i.rule.gw = u
    BY <1>3, <1>5, NoneAssumption DEF Holds, NoneMade
  <2> QED BY <1>1, <1>2, <1>3, <2>1, ClaimRules
<1> QED BY <1>3, <1>4, <1>5, StartTame

LEMMA BeginTame ==
  ASSUME IdInv, NEW h \in Handlers, Begin(h)
  PROVE  Tame
<1>1. CASE RuleCreate(h)
  BY <1>1, NewItemTame DEF RuleCreate
<1>2. CASE RuleUpdate(h)
  <2> DEFINE it(f, b) == [rid |-> f, rule |-> [rules[f] EXCEPT !.body = b],
                          targets |-> TargetsOf(profiles, rules[f].prof)]
             t(f, b) == [Request("RuleUpdate", "put", rules[f].prof)
                           EXCEPT !.work = {it(f, b)}, !.cover = {f}]
  <2>1. PICK f \in Stored, b \in Bodies : Start(h, t(f, b))
    BY <1>2 DEF RuleUpdate
  <2>2. it(f, b).rid = f /\ it(f, b).rule.gw = rules[f].gw
    BY StoredType DEF IdInv, TInv, Rule
  <2>3. t(f, b).work = {it(f, b)} /\ t(f, b).cur = None /\ t(f, b).made = NoneMade
        /\ t(f, b).todo = {}
    <3> HIDE DEF it
    <3> QED BY DEF Request
  <2>4. used' = used
    BY <1>2 DEF RuleUpdate
  <2> HIDE DEF t, it
  <2>5. ASSUME NEW u \in GwIds, NEW g \in RuleIds, Holds(t(f, b), g, u)
        PROVE  Claim(g, u)
    BY <2>2, <2>3, <2>5, ClaimRules, NoneAssumption DEF Holds, NoneMade
  <2> QED BY <2>1, <2>3, <2>4, <2>5, StartTame
<1>3. CASE RuleDelete(h)
  <2> DEFINE it(f) == [rid |-> f, rule |-> rules[f], targets |-> {}]
             t(f) == [Request("RuleDelete", "delete", rules[f].prof)
                        EXCEPT !.cur = it(f), !.todo = IdsOf({f})]
  <2>1. PICK f \in Stored : Start(h, t(f))
    BY <1>3 DEF RuleDelete
  <2>2. t(f).work = {} /\ t(f).cur = it(f) /\ t(f).made = NoneMade /\ t(f).todo = IdsOf({f})
    <3> HIDE DEF it
    <3> QED BY DEF Request
  <2>3. it(f).rid = f /\ it(f).rule = rules[f]
    OBVIOUS
  <2>4. used' = used
    BY <1>3 DEF RuleDelete
  <2> HIDE DEF t, it
  <2>5. ASSUME NEW u \in GwIds, NEW g \in RuleIds, Holds(t(f), g, u)
        PROVE  Claim(g, u)
    BY <2>2, <2>3, <2>5, ClaimRules, NoneAssumption DEF Holds, NoneMade
  <2>6. \A u \in t(f).todo : Owned(u)
    BY <2>2, IdsOwned
  <2> QED BY <2>1, <2>4, <2>5, <2>6, StartTame
<1>4. CASE ProfileCreate(h)
  <2>1. Narrow
    BY <1>4 DEF ProfileCreate, Narrow, Claim, Owned, Stored
  <2> QED BY <1>4, <2>1, NarrowTame DEF ProfileCreate, IdInv
<1>5. CASE ProfileUpdate(h)
  BY <1>5, RetargetTame DEF ProfileUpdate
<1>6. CASE Enroll(h)
  BY <1>6, RetargetTame DEF Enroll
<1>7. CASE ProfileDelete(h)
  <2> DEFINE pc(p) == IF IdsOf(RulesOf(p)) = {} THEN "drop" ELSE "delete"
             t(p) == [Request("ProfileDelete", pc(p), p) EXCEPT !.todo = IdsOf(RulesOf(p))]
  <2>1. PICK p : Start(h, t(p))
    BY <1>7 DEF ProfileDelete
  <2>2. used' = used
    BY <1>7 DEF ProfileDelete
  <2> HIDE DEF pc
  <2>3. t(p).work = {} /\ t(p).cur = None /\ t(p).made = NoneMade
        /\ t(p).todo = IdsOf(RulesOf(p))
    BY DEF Request
  <2> HIDE DEF t
  <2>4. \A u \in t(p).todo : Owned(u)
    BY <2>3, IdsOwned DEF RulesOf
  <2>5. \A u \in GwIds, g \in RuleIds : ~Holds(t(p), g, u)
    BY <2>3, NoneAssumption DEF Holds, NoneMade
  <2> QED BY <2>1, <2>2, <2>4, <2>5, StartTame
<1>8. CASE Pause(h)
  BY <1>8, NewItemTame DEF Pause
<1>9. CASE Unpause(h)
  <2>1. PICK p : Start(h, Request("Unpause", "clear", p)) /\ used' = used
    BY <1>9 DEF Unpause
  <2>2. \A u \in GwIds : /\ \A f \in RuleIds : ~Holds(Request("Unpause", "clear", p), f, u)
                         /\ u \notin Request("Unpause", "clear", p).todo
    BY EmptyHolds DEF Request
  <2> QED BY <2>1, <2>2, StartTame
<1>10. CASE Grant(h)
  <2>1. CASE \E p \in Known : Start(h, Request("Grant", "clear", p)) /\ UNCHANGED used
    <3>1. PICK p : Start(h, Request("Grant", "clear", p)) /\ used' = used
      BY <2>1
    <3>2. \A u \in GwIds : /\ \A f \in RuleIds : ~Holds(Request("Grant", "clear", p), f, u)
                           /\ u \notin Request("Grant", "clear", p).todo
      BY EmptyHolds DEF Request
    <3> QED BY <3>1, <3>2, StartTame
  <2>2. CASE \E p \in Known, b \in Timed \ elapsed, f \in RuleIds \ used :
               /\ used' = used \union {f}
               /\ Start(h, [Request("Grant", "clear", p) EXCEPT !.cur = NewItem(f, p, b, TRUE)])
    BY <2>2, NewItemTame
  <2> QED BY <1>10, <2>1, <2>2 DEF Grant
<1> QED BY <1>1, <1>2, <1>3, <1>4, <1>5, <1>6, <1>7, <1>8, <1>9, <1>10 DEF Begin

-----------------------------------------------------------------------------
(* The steps of a request.                                                 *)

\* A step of request h to t that leaves the store's ids alone, or records one
\* the request holds, and changes only gateway rules that have an owner.
LEMMA StepTame ==
  ASSUME IdInv, NEW h \in Handlers, NEW t, Goto(h, t), janitor' = janitor, used' = used,
         \A u \in GwIds : /\ \A f \in RuleIds : Holds(t, f, u) => Claim(f, u)
                          /\ u \in t.todo => Owned(u)
                          /\ gw'[u] # gw[u] => Owned(u) /\ gw'[u] # Foreign,
         \A f \in Stored' : Claim(f, rules'[f].gw)
  PROVE  Tame
BY GotoNarrow, NarrowTame DEF IdInv

LEMMA IdleClaims ==
  ASSUME NEW u \in GwIds
  PROVE  /\ \A f \in RuleIds : Holds(Idle, f, u) => Claim(f, u)
         /\ u \in Idle.todo => Owned(u)
<1>1. \A f \in RuleIds : ~Holds(Idle, f, u)
  BY EmptyHolds DEF Idle
<1>2. Idle.todo = {}
  BY DEF Idle, Request
<1> QED BY <1>1, <1>2

LEMMA SameRules ==
  ASSUME rules' = rules
  PROVE  \A f \in Stored' : Claim(f, rules'[f].gw)
BY ClaimRules DEF Stored

\* Changing pc changes nothing a request holds.
LEMMA PcHolds ==
  ASSUME NEW t \in Task, NEW pc, NEW f, NEW u
  PROVE  LET n == [t EXCEPT !.pc = pc]
         IN  (Holds(n, f, u) <=> Holds(t, f, u)) /\ n.todo = t.todo
BY DEF Task, Holds

LEMMA AfterHolds ==
  ASSUME NEW t \in Task, NEW f, NEW u
  PROVE  /\ Holds(AfterDelete(t), f, u) <=> Holds(t, f, u)
         /\ AfterDelete(t).todo = t.todo
         /\ Holds(AfterWrite(t), f, u) <=> Holds(t, f, u)
         /\ AfterWrite(t).todo = t.todo
<1>1. ASSUME NEW pc
      PROVE  /\ Holds([t EXCEPT !.pc = pc], f, u) <=> Holds(t, f, u)
             /\ [t EXCEPT !.pc = pc].todo = t.todo
  BY PcHolds
<1>2. AfterDelete(t) = t \/ \E pc : AfterDelete(t) = [t EXCEPT !.pc = pc]
  BY DEF AfterDelete
<1>3. PICK pc : AfterWrite(t) = [t EXCEPT !.pc = pc]
  BY DEF AfterWrite
<1>4. /\ Holds(AfterWrite(t), f, u) <=> Holds(t, f, u)
      /\ AfterWrite(t).todo = t.todo
  BY <1>1, <1>3
<1>5. CASE AfterDelete(t) = t
  BY <1>4, <1>5
<1>6. ASSUME NEW q, AfterDelete(t) = [t EXCEPT !.pc = q]
      PROVE  /\ Holds(AfterDelete(t), f, u) <=> Holds(t, f, u)
             /\ AfterDelete(t).todo = t.todo
  BY <1>1, <1>6
<1> QED BY <1>2, <1>4, <1>5, <1>6

\* An answer: the slot is idle, wherever the request failed or ended.
LEMMA AnswerTame ==
  ASSUME IdInv, NEW h \in Handlers, Answer(h) \/ AnswerError(h) \/ Failed(h),
         janitor' = janitor, used' = used,
         \A u \in GwIds : gw'[u] # gw[u] => Owned(u) /\ gw'[u] # Foreign,
         \A f \in Stored' : Claim(f, rules'[f].gw)
  PROVE  Tame
<1>1. CASE Goto(h, Idle)
  BY <1>1, IdleClaims, StepTame
<1>2. CASE Goto(h, [task[h] EXCEPT !.pc = "partial"])
  <2>1. task[h] \in Task
    BY TaskType DEF IdInv
  <2>2. \A u \in GwIds : LET t == [task[h] EXCEPT !.pc = "partial"] IN
          /\ \A f \in RuleIds : Holds(t, f, u) => Claim(f, u)
          /\ u \in t.todo => Owned(u)
    BY <2>1, PcHolds, TaskClaims
  <2> QED BY <1>2, <2>2, StepTame
<1> QED BY <1>1, <1>2 DEF Answer, AnswerError, Failed

LEMMA GoneTame ==
  ASSUME IdInv, NEW v, v \in GwIds => Owned(v), gw' = Gone(v)
  PROVE  \A u \in GwIds : gw'[u] # gw[u] => Owned(u) /\ gw'[u] # Foreign
BY NoneAssumption DEF Gone, IdInv, TInv, TypeOK

LEMMA PutTame ==
  ASSUME IdInv, NEW item \in Item, Owned(item.rule.gw),
         gw' = [gw EXCEPT ![item.rule.gw] = Translate(item)]
  PROVE  \A u \in GwIds : gw'[u] # gw[u] => Owned(u) /\ gw'[u] # Foreign
BY TranslateType, NoneAssumption DEF IdInv, TInv, TypeOK

\* An item of a request's work is a claim of that request.
LEMMA WorkClaims ==
  ASSUME IdInv, NEW h \in Handlers, NEW i \in task[h].work
  PROVE  /\ i \in Item /\ i.rid \in RuleIds /\ i.rule.gw \in GwIds
         /\ Claim(i.rid, i.rule.gw) /\ Owned(i.rule.gw)
<1>1. i \in Item /\ i.rule.gw \in GwIds
  BY TaskType DEF IdInv, Shape
<1>2. i.rid \in RuleIds
  BY <1>1 DEF Item
<1>3. Claim(i.rid, i.rule.gw)
  BY DEF Claim, Holds
<1> QED BY <1>1, <1>2, <1>3, ClaimOwned

\* Create is where an id is born: the request that created it is its one owner.
LEMMA CreateTame ==
  ASSUME IdInv, NEW h \in Handlers, Create(h)
  PROVE  Tame
<1> DEFINE t(u) == [task[h] EXCEPT !.made[task[h].cur.rid] = u]
<1>1. PICK v \in GwIds \ used :
        /\ gw' = [gw EXCEPT ![v] = Translate(task[h].cur)]
        /\ used' = used \union {v}
        /\ Goto(h, AfterWrite(t(v)))
  BY DEF Create
<1>2. /\ task \in [Handlers -> Task] /\ task[h] \in Task
      /\ task[h].cur \in Item /\ task[h].cur.rid \in RuleIds
      /\ task[h].made \in [RuleIds -> GwIds \union {None}]
      /\ gw \in [GwIds -> GwRule \union {Foreign, None}]
  <2>1. task[h].pc = "create" /\ Shape(task[h]) /\ task[h].cur \in Item \union {None}
    BY TaskType DEF Create, IdInv
  <2> QED BY <2>1, TaskType DEF IdInv, TInv, TypeOK, Shape, Item
<1> DEFINE n == AfterWrite(t(v))
<1>3. task' = [task EXCEPT ![h] = n] /\ rules' = rules /\ janitor' = janitor
  BY <1>1 DEF Goto, Create
<1>4. ASSUME NEW f \in RuleIds, NEW u \in GwIds, Holds(n, f, u)
      PROVE  Holds(task[h], f, u) \/ u = v
  <2>1. t(v) \in Task
    BY <1>2 DEF Task
  <2>2. Holds(t(v), f, u)
    <3> HIDE DEF t
    <3> QED BY <1>4, <2>1, AfterHolds
  <2>3. /\ t(v).work = task[h].work /\ t(v).cur = task[h].cur
        /\ t(v).made = [task[h].made EXCEPT ![task[h].cur.rid] = v]
    BY <1>2 DEF Task
  <2> HIDE DEF t
  <2> QED BY <1>2, <2>2, <2>3 DEF Holds
<1>5. n.todo = task[h].todo
  <2>1. t(v) \in Task /\ t(v).todo = task[h].todo
    BY <1>2 DEF Task
  <2> HIDE DEF t
  <2> QED BY <2>1, AfterHolds
<1>6. ASSUME NEW f \in RuleIds, Holds(n, f, v), ~Claim(f, v)
      PROVE  f = task[h].cur.rid
  <2>1. t(v) \in Task
    BY <1>2 DEF Task
  <2>2. Holds(t(v), f, v)
    <3> HIDE DEF t
    <3> QED BY <1>6, <2>1, AfterHolds
  <2>3. /\ t(v).work = task[h].work /\ t(v).cur = task[h].cur
        /\ t(v).made = [task[h].made EXCEPT ![task[h].cur.rid] = v]
    BY <1>2 DEF Task
  <2>4. ~Holds(task[h], f, v)
    BY <1>6, TaskClaims
  <2> HIDE DEF t
  <2> QED BY <1>2, <2>2, <2>3, <2>4 DEF Holds
<1> HIDE DEF n
<1>7. \A f \in RuleIds : ~Claim(f, v)
  BY <1>1 DEF IdInv, OwnedOK, Owned
<1>8. ASSUME NEW f \in RuleIds, NEW u \in GwIds, Claim(f, u)'
      PROVE  Claim(f, u) \/ (u = v /\ f = task[h].cur.rid)
  <2>1. CASE f \in Stored' /\ rules'[f].gw = u
    BY <1>3, <2>1 DEF Claim, Stored
  <2>2. ASSUME NEW k \in Handlers, Holds(task[k], f, u)'
        PROVE  Claim(f, u) \/ (u = v /\ f = task[h].cur.rid)
    <3>1. CASE k = h
      <4>1. Holds(n, f, u)
        BY <1>2, <1>3, <2>2, <3>1 DEF Holds
      <4> QED BY <1>4, <1>6, <1>7, <4>1, TaskClaims
    <3>2. CASE k # h
      <4>1. Holds(task[k], f, u)
        BY <1>2, <1>3, <2>2, <3>2 DEF Holds
      <4> QED BY <4>1 DEF Claim
    <3> QED BY <3>1, <3>2
  <2> QED BY <1>8, <2>1, <2>2 DEF Claim
<1>9. ASSUME NEW u \in GwIds, Owned(u)', u # v
      PROVE  Owned(u)
  <2>1. ASSUME NEW f \in RuleIds, Claim(f, u)'
        PROVE  Owned(u)
    BY <1>8, <1>9, <2>1, ClaimOwned
  <2>2. ASSUME NEW k \in Handlers, u \in task'[k].todo
        PROVE  Owned(u)
    BY <1>2, <1>3, <1>5, <2>2 DEF Owned
  <2> QED BY <1>3, <1>9, <2>1, <2>2 DEF Owned
<1>10. gw'[v] # Foreign /\ Born(v) /\ \A u \in GwIds \ {v} : gw'[u] = gw[u] /\ ~Born(u)
  BY <1>1, <1>2, TranslateType, NoneAssumption DEF Born
<1>11. used \subseteq used'
  BY <1>1
<1> QED BY <1>7, <1>8, <1>9, <1>10, <1>11 DEF Tame

\* What a commit records is what the request holds.
LEMMA PersistedClaims ==
  ASSUME IdInv, NEW h \in Handlers, rules' = Persisted(task[h])
  PROVE  \A f \in Stored' : Claim(f, rules'[f].gw)
<1> SUFFICES ASSUME NEW f \in Stored' PROVE Claim(f, rules'[f].gw)
  OBVIOUS
<1>1. f \in RuleIds /\ rules'[f] = Persisted(task[h])[f]
  BY DEF Stored
<1>2. CASE f \in Stored /\ task[h].made[f] # None
  <2>1. rules'[f].gw = task[h].made[f]
    BY <1>1, <1>2, StoredType DEF Persisted, Rule, IdInv, TInv
  <2> QED BY <1>1, <2>1 DEF Claim, Holds
<1>3. CASE ~(f \in Stored /\ task[h].made[f] # None)
  <2>1. rules'[f] = rules[f]
    BY <1>1, <1>3 DEF Persisted
  <2> QED BY <2>1, ClaimRules DEF Stored
<1> QED BY <1>2, <1>3

LEMMA CommittedClaims ==
  ASSUME IdInv, NEW h \in Handlers, task[h].pc = "commit", rules' = Committed(task[h])
  PROVE  \A f \in Stored' : Claim(f, rules'[f].gw)
<1> DEFINE t == task[h]
<1>1. CASE t.kind \in Retargeting
  BY <1>1, PersistedClaims DEF Committed
<1>2. CASE t.kind \notin Retargeting
  <2>1. t.cur # None /\ t \in Task
    BY <1>2, TaskType DEF Shape, IdInv
  <2>2. rules' = [rules EXCEPT ![t.cur.rid] = Written(t)] \/ rules' = rules
    BY <1>2 DEF Committed
  <2>3. Claim(t.cur.rid, Written(t).gw)
    BY <2>1, WrittenType DEF Claim, Holds
  <2>4. rules \in [RuleIds -> Rule \union {None}]
    BY DEF IdInv, TInv, TypeOK
  <2>5. CASE rules' = [rules EXCEPT ![t.cur.rid] = Written(t)]
    <3> HIDE DEF t
    <3> QED BY <2>3, <2>4, <2>5, ClaimRules DEF Stored
  <2> QED BY <2>2, <2>5, SameRules
<1> QED BY <1>1, <1>2

LEMMA ForgetClaims ==
  ASSUME NEW F, rules' = Forget(F)
  PROVE  /\ \A f \in Stored' : f \in Stored /\ rules'[f] = rules[f]
         /\ \A f \in Stored' : Claim(f, rules'[f].gw)
<1>1. \A f \in Stored' : f \in Stored /\ rules'[f] = rules[f]
  BY DEF Forget, Stored
<1> QED BY <1>1, ClaimRules

LEMMA SucceedTame ==
  ASSUME IdInv, NEW h \in Handlers, Succeed(h)
  PROVE  Tame
<1>t. /\ task[h] \in Task /\ Shape(task[h]) /\ TypeOK
      /\ task[h].todo \subseteq GwIds /\ task[h].work \subseteq Item
      /\ task[h].cur \in Item \union {None}
      /\ task[h].made \in [RuleIds -> GwIds \union {None}]
  BY TaskType DEF IdInv, TInv
<1>1. CASE Clear(h)
  <2> DEFINE t == [task[h] EXCEPT !.pc = "delete", !.todo = IdsOf(PausesOf(task[h].prof))]
  <2>1. Goto(h, AfterDelete(t)) /\ UNCHANGED <<gw, used, rules, janitor>>
    BY <1>1 DEF Clear
  <2>2. IdsOf(PausesOf(task[h].prof)) \subseteq GwIds
    BY <1>t, IdsType DEF PausesOf, RulesOf
  <2>3. /\ t \in Task /\ t.work = task[h].work /\ t.cur = task[h].cur
        /\ t.made = task[h].made /\ t.todo = IdsOf(PausesOf(task[h].prof))
    BY <1>t, <2>2 DEF Task, Steps
  <2> HIDE DEF t
  <2>4. \A u \in GwIds : /\ \A f \in RuleIds : Holds(AfterDelete(t), f, u) => Claim(f, u)
                         /\ u \in AfterDelete(t).todo => Owned(u)
    <3>1. ASSUME NEW u \in GwIds, NEW f \in RuleIds, Holds(AfterDelete(t), f, u)
          PROVE  Claim(f, u)
      <4>1. Holds(t, f, u)
        BY <2>3, <3>1, AfterHolds
      <4>2. Holds(task[h], f, u)
        BY <2>3, <4>1 DEF Holds
      <4> QED BY <4>2, TaskClaims
    <3>2. AfterDelete(t).todo = IdsOf(PausesOf(task[h].prof))
      BY <2>3, AfterHolds
    <3> QED BY <3>1, <3>2, IdsOwned DEF PausesOf, RulesOf
  <2> QED BY <2>1, <2>4, SameRules, StepTame
<1>2. CASE Delete(h)
  <2> DEFINE t(v) == [task[h] EXCEPT !.todo = @ \ {v}]
  <2>1. PICK v \in task[h].todo :
          gw' = Gone(v) /\ Goto(h, AfterDelete(t(v))) /\ UNCHANGED <<used, rules, janitor>>
    BY <1>2 DEF Delete
  <2>2. /\ t(v) \in Task /\ t(v).work = task[h].work /\ t(v).cur = task[h].cur
        /\ t(v).made = task[h].made /\ t(v).todo \subseteq task[h].todo
    BY <1>t DEF Task
  <2> HIDE DEF t
  <2>3. \A u \in GwIds : /\ \A f \in RuleIds : Holds(AfterDelete(t(v)), f, u) => Claim(f, u)
                         /\ u \in AfterDelete(t(v)).todo => Owned(u)
    <3>1. ASSUME NEW u \in GwIds, NEW f \in RuleIds, Holds(AfterDelete(t(v)), f, u)
          PROVE  Claim(f, u)
      <4>1. Holds(t(v), f, u)
        BY <2>2, <3>1, AfterHolds
      <4>2. Holds(task[h], f, u)
        BY <2>2, <4>1 DEF Holds
      <4> QED BY <4>2, TaskClaims
    <3>2. AfterDelete(t(v)).todo \subseteq task[h].todo
      BY <2>2, AfterHolds
    <3> QED BY <3>1, <3>2, TaskClaims
  <2>4. v \in GwIds => Owned(v)
    BY TaskClaims
  <2> QED BY <2>1, <2>3, <2>4, GoneTame, SameRules, StepTame
<1>3. CASE Put(h)
  <2> DEFINE t(item) == [task[h] EXCEPT !.work = @ \ {item}, !.cur = item]
             d(item) == [t(item) EXCEPT !.pc = "delete", !.todo = {item.rule.gw}]
  <2>1. PICK item \in task[h].work :
          \/ /\ gw' = [gw EXCEPT ![item.rule.gw] = Translate(item)]
             /\ Goto(h, AfterWrite(t(item)))
          \/ Goto(h, d(item)) /\ UNCHANGED gw
    BY <1>3 DEF Put
  <2>2. UNCHANGED <<used, rules, janitor>>
    BY <1>3 DEF Put
  <2>3. /\ item \in Item /\ item.rid \in RuleIds /\ item.rule.gw \in GwIds
        /\ Claim(item.rid, item.rule.gw) /\ Owned(item.rule.gw)
    BY WorkClaims
  <2>4. /\ t(item) \in Task /\ t(item).work \subseteq task[h].work /\ t(item).cur = item
        /\ t(item).made = task[h].made /\ t(item).todo = task[h].todo
    BY <1>t, <2>3 DEF Task
  <2>5. /\ d(item).work = t(item).work /\ d(item).cur = item /\ d(item).made = t(item).made
        /\ d(item).todo = {item.rule.gw}
    <3> HIDE DEF t
    <3> QED BY <2>4 DEF Task
  <2> HIDE DEF t, d
  <2>6. ASSUME NEW u \in GwIds, NEW f \in RuleIds,
               Holds(t(item), f, u) \/ Holds(d(item), f, u)
        PROVE  Claim(f, u)
    <3>1. Holds(task[h], f, u)
      BY <2>4, <2>5, <2>6 DEF Holds
    <3> QED BY <3>1, TaskClaims
  <2>7. CASE /\ gw' = [gw EXCEPT ![item.rule.gw] = Translate(item)]
             /\ Goto(h, AfterWrite(t(item)))
    <3>1. \A u \in GwIds : /\ \A f \in RuleIds : Holds(AfterWrite(t(item)), f, u) => Claim(f, u)
                           /\ u \in AfterWrite(t(item)).todo => Owned(u)
      BY <2>4, <2>6, AfterHolds, TaskClaims
    <3>2. \A u \in GwIds : gw'[u] # gw[u] => Owned(u) /\ gw'[u] # Foreign
      BY <2>3, <2>7, PutTame
    <3> QED BY <2>2, <2>7, <3>1, <3>2, SameRules, StepTame
  <2>8. CASE Goto(h, d(item)) /\ UNCHANGED gw
    <3>1. \A u \in GwIds : u \in d(item).todo => Owned(u)
      BY <2>3, <2>5
    <3> QED BY <2>2, <2>6, <2>8, <3>1, SameRules, StepTame
  <2> QED BY <2>1, <2>7, <2>8
<1>4. CASE Create(h)
  BY <1>4, CreateTame
<1>5. CASE Drop(h)
  <2>1. UNCHANGED <<gw, used, janitor>> /\ \A f \in Stored' : Claim(f, rules'[f].gw)
    BY <1>5, ForgetClaims DEF Drop
  <2>2. CASE Answer(h)
    BY <2>1, <2>2, AnswerTame
  <2>3. CASE Goto(h, [task[h] EXCEPT !.pc = "create"])
    <3>1. \A u \in GwIds : LET t == [task[h] EXCEPT !.pc = "create"] IN
            /\ \A f \in RuleIds : Holds(t, f, u) => Claim(f, u)
            /\ u \in t.todo => Owned(u)
      BY <1>t, PcHolds, TaskClaims
    <3> QED BY <2>1, <2>3, <3>1, StepTame
  <2> QED BY <1>5, <2>2, <2>3 DEF Drop
<1>6. CASE Commit(h)
  BY <1>6, CommittedClaims, AnswerTame DEF Commit
<1>7. CASE Partial(h)
  BY <1>7, PersistedClaims, AnswerTame DEF Partial
<1>8. CASE Compensate(h)
  <2> DEFINE v == task[h].made[task[h].cur.rid]
  <2>1. task[h].cur.rid \in RuleIds
    BY <1>8, <1>t DEF Compensate, Shape, Item
  <2>2. v \in GwIds => Owned(v)
    BY <2>1 DEF Owned, Claim, Holds
  <2> QED BY <1>8, <2>2, GoneTame, SameRules, AnswerTame DEF Compensate
<1> QED BY <1>1, <1>2, <1>3, <1>4, <1>5, <1>6, <1>7, <1>8 DEF Succeed


LEMMA ErrTame ==
  ASSUME IdInv, NEW h \in Handlers, Err(h)
  PROVE  Tame
<1>1. CASE DeleteError(h)
  <2>1. PICK v \in task[h].todo : gw' \in {gw, Gone(v)}
    BY <1>1 DEF DeleteError
  <2>2. v \in GwIds => Owned(v)
    BY TaskClaims
  <2>3. \A u \in GwIds : gw'[u] # gw[u] => Owned(u) /\ gw'[u] # Foreign
    BY <2>1, <2>2, GoneTame
  <2> QED BY <1>1, <2>3, SameRules, AnswerTame DEF DeleteError
<1>2. CASE PutError(h)
  <2>1. PICK item \in task[h].work :
          gw' = gw \/ gw' = [gw EXCEPT ![item.rule.gw] = Translate(item)]
    BY <1>2 DEF PutError
  <2>2. item \in Item /\ Owned(item.rule.gw)
    BY WorkClaims
  <2>3. \A u \in GwIds : gw'[u] # gw[u] => Owned(u) /\ gw'[u] # Foreign
    BY <2>1, <2>2, PutTame
  <2> QED BY <1>2, <2>3, SameRules, AnswerTame DEF PutError
<1>3. CASE CreateError(h)
  <2>1. CASE UNCHANGED <<gw, used>>
    BY <1>3, <2>1, SameRules, AnswerTame DEF CreateError
  <2>2. CASE \E u \in GwIds \ used : /\ gw' = [gw EXCEPT ![u] = Translate(task[h].cur)]
                                     /\ used' = used \union {u}
    <3>1. PICK v \in GwIds \ used : /\ gw' = [gw EXCEPT ![v] = Translate(task[h].cur)]
                                    /\ used' = used \union {v}
      BY <2>2
    <3>2. Narrow
      <4>1. \A f \in Stored' : Claim(f, rules'[f].gw)
        BY <1>3, SameRules DEF CreateError
      <4>2. CASE Goto(h, Idle)
        BY <1>3, <4>1, <4>2, IdleClaims, GotoNarrow DEF CreateError, IdInv
      <4>3. CASE Goto(h, [task[h] EXCEPT !.pc = "partial"])
        <5>1. task[h] \in Task
          BY TaskType DEF IdInv
        <5>2. \A u \in GwIds : LET t == [task[h] EXCEPT !.pc = "partial"] IN
                /\ \A f \in RuleIds : Holds(t, f, u) => Claim(f, u)
                /\ u \in t.todo => Owned(u)
          BY <5>1, PcHolds, TaskClaims
        <5> QED BY <1>3, <4>1, <4>3, <5>2, GotoNarrow DEF CreateError, IdInv
      <4> QED BY <1>3, <4>2, <4>3 DEF CreateError, Failed, AnswerError
    <3>3. \A u \in GwIds : \A f, g \in RuleIds : Claim(f, u)' /\ Claim(g, u)' => f = g
      BY <3>2 DEF Narrow, ClaimsOK, IdInv
    <3>4. gw'[v] # Foreign /\ Born(v) /\ \A u \in GwIds \ {v} : gw'[u] = gw[u]
      <4>1. task[h].cur \in Item /\ gw \in [GwIds -> GwRule \union {Foreign, None}]
        BY <1>3, TaskType DEF CreateError, Shape, IdInv, TInv, TypeOK
      <4> QED BY <3>1, <4>1, TranslateType, NoneAssumption DEF Born
    <3> QED BY <3>1, <3>2, <3>3, <3>4 DEF Tame, Narrow
  <2> QED BY <1>3, <2>1, <2>2 DEF CreateError
<1>4. CASE SaveError(h)
  <2>1. CASE AnswerError(h)
    BY <1>4, <2>1, SameRules, AnswerTame DEF SaveError
  <2>2. CASE Goto(h, [task[h] EXCEPT !.pc = "compensate"])
    <3>1. task[h] \in Task
      BY TaskType DEF IdInv
    <3>2. \A u \in GwIds : LET t == [task[h] EXCEPT !.pc = "compensate"] IN
            /\ \A f \in RuleIds : Holds(t, f, u) => Claim(f, u)
            /\ u \in t.todo => Owned(u)
      BY <3>1, PcHolds, TaskClaims
    <3> QED BY <1>4, <2>2, <3>2, SameRules, StepTame DEF SaveError
  <2> QED BY <1>4, <2>1, <2>2 DEF SaveError
<1> QED BY <1>1, <1>2, <1>3, <1>4 DEF Err

-----------------------------------------------------------------------------
(* The janitor and the world.                                              *)

\* A step that leaves the requests and the ids of the store alone.
LEMMA OtherTame ==
  ASSUME IdInv, used' = used,
         \A h \in Handlers, u \in GwIds : /\ \A f \in RuleIds : Holds(task[h], f, u)' => Holds(task[h], f, u)
                                          /\ u \in task'[h].todo => u \in task[h].todo,
         \A f \in Stored' : Claim(f, rules'[f].gw),
         \A u \in GwIds : /\ u \in janitor'.fam \union janitor'.del => Owned(u) \/ IsFamilyTime(u)
                          /\ gw'[u] # gw[u] => gw'[u] = None /\ (Owned(u) \/ AppDelete)
  PROVE  Tame
<1>1. ASSUME NEW u \in GwIds, NEW f \in RuleIds, Claim(f, u)'
      PROVE  Claim(f, u)
  BY <1>1 DEF Claim
<1>2. ASSUME NEW u \in GwIds, Owned(u)'
      PROVE  Owned(u) \/ IsFamilyTime(u)
  BY <1>1, <1>2 DEF Owned
<1>3. \A u \in GwIds : ~Born(u)
  BY DEF Born
<1> QED BY <1>1, <1>2, <1>3, NoneAssumption DEF Tame

LEMMA JanitorTame ==
  ASSUME IdInv, JanitorStep \/ JanitorError
  PROVE  Tame
<1>s. TypeOK /\ janitor \in JanitorState
  BY DEF IdInv, TInv, TypeOK
<1>r. Resting.fam = {} /\ Resting.del = {}
  BY DEF Resting
<1>o. \A u \in janitor.fam \union janitor.del : Owned(u)
  BY DEF Owned
<1>1. CASE JanitorList
  <2>1. janitor'.fam = {u \in GwIds : IsFamilyTime(u)} /\ janitor'.del = {}
    BY <1>1 DEF JanitorList, Resting
  <2>2. UNCHANGED <<rules, gw, used, task>>
    BY <1>1 DEF JanitorList
  <2> QED BY <2>1, <2>2, SameRules, OtherTame DEF Holds
<1>2. CASE JanitorPlan
  <2> DEFINE del  == IdsOf(Spent) \union Again(Untracked, suspects.gw)
             drop == Spent \union Again(Vanished, suspects.meta)
  <2>1. janitor' \in {[janitor EXCEPT !.pc = "delete", !.del = del, !.drop = drop],
                      [janitor EXCEPT !.pc = "drop", !.drop = drop], Resting}
    BY <1>2 DEF JanitorPlan
  <2>2. \A u \in del : Owned(u)
    BY <1>o, IdsOwned DEF Spent, Again, Untracked
  <2> HIDE DEF del, drop
  <2>3. janitor'.fam \subseteq janitor.fam /\ janitor'.del \subseteq janitor.del \union del
    BY <1>s, <1>r, <2>1 DEF JanitorState
  <2>4. UNCHANGED <<rules, gw, used>>
    BY <1>2 DEF JanitorPlan
  <2>5. ASSUME NEW h \in Handlers, NEW u
        PROVE  /\ \A f \in RuleIds : Holds(task[h], f, u)' => Holds(task[h], f, u)
               /\ task'[h].todo = task[h].todo
    <3>1. task[h] \in Task
      BY TaskType DEF IdInv
    <3>2. task'[h] = [task[h] EXCEPT !.old = task[h].pc # "idle"]
      BY <1>2 DEF JanitorPlan
    <3>3. /\ task'[h].work = task[h].work /\ task'[h].cur = task[h].cur
          /\ task'[h].made = task[h].made /\ task'[h].todo = task[h].todo
      BY <3>1, <3>2 DEF Task
    <3> QED BY <3>3 DEF Holds
  <2> QED BY <1>o, <2>2, <2>3, <2>4, <2>5, SameRules, OtherTame
<1>3. CASE JanitorDelete
  <2>1. PICK v \in janitor.del :
          /\ gw' = Gone(v)
          /\ janitor' \in {[janitor EXCEPT !.del = @ \ {v}],
                           [janitor EXCEPT !.del = {}, !.pc = "drop"], Resting}
    BY <1>3 DEF JanitorDelete
  <2>2. janitor'.fam \subseteq janitor.fam /\ janitor'.del \subseteq janitor.del
    BY <1>s, <1>r, <2>1 DEF JanitorState
  <2>3. UNCHANGED <<rules, used, task>>
    BY <1>3 DEF JanitorDelete
  <2>4. \A u \in GwIds : gw'[u] # gw[u] => gw'[u] = None /\ Owned(u)
    BY <1>o, <1>s, <2>1 DEF Gone, TypeOK
  <2> QED BY <1>o, <2>2, <2>3, <2>4, SameRules, OtherTame DEF Holds
<1>4. CASE JanitorDrop
  <2>1. \A f \in Stored' : Claim(f, rules'[f].gw)
    BY <1>4, ForgetClaims DEF JanitorDrop
  <2> QED BY <1>4, <1>r, <2>1, OtherTame DEF JanitorDrop, Holds
<1>5. CASE JanitorError
  <2>1. \A u \in GwIds : gw'[u] # gw[u] => gw'[u] = None /\ Owned(u)
    BY <1>5, <1>o, <1>s DEF JanitorError, Gone, TypeOK
  <2>2. janitor' = Resting /\ UNCHANGED <<rules, used, task>>
    BY <1>5 DEF JanitorError
  <2> QED BY <1>r, <2>1, <2>2, SameRules, OtherTame DEF Holds
<1> QED BY <1>1, <1>2, <1>3, <1>4, <1>5 DEF JanitorStep

LEMMA WorldTame ==
  ASSUME IdInv, World \/ Crash
  PROVE  Tame
<1>o. \A u \in janitor.fam \union janitor.del : Owned(u)
  BY DEF Owned
<1>1. CASE AppDelete
  <2>1. \A u \in GwIds : gw'[u] # gw[u] => gw'[u] = None
    BY <1>1 DEF AppDelete, Gone, IdInv, TInv, TypeOK
  <2>2. UNCHANGED <<rules, used, task, janitor>>
    BY <1>1 DEF AppDelete
  <2> QED BY <1>1, <1>o, <2>1, <2>2, SameRules, OtherTame DEF Holds
<1>2. CASE AppCreate
  <2>1. PICK v \in GwIds \ used : gw' = [gw EXCEPT ![v] = Foreign] /\ used' = used \union {v}
    BY <1>2 DEF AppCreate
  <2>2. UNCHANGED <<rules, task, janitor>>
    BY <1>2 DEF AppCreate
  <2>3. \A u \in GwIds : /\ \A f \in RuleIds : Claim(f, u)' => Claim(f, u)
                         /\ Owned(u)' => Owned(u)
    BY <2>2 DEF Claim, Owned, Stored, Holds
  <2>4. \A u \in GwIds : \A f, g \in RuleIds : Claim(f, u)' /\ Claim(g, u)' => f = g
    BY <2>3 DEF IdInv, ClaimsOK
  <2>5. Born(v) /\ \A u \in GwIds \ {v} : gw'[u] = gw[u]
    BY <2>1 DEF Born, IdInv, TInv, TypeOK
  <2> QED BY <2>1, <2>3, <2>4, <2>5 DEF Tame
<1>3. CASE Elapse
  BY <1>3, <1>o, SameRules, OtherTame DEF Elapse, Holds
<1>4. CASE Crash
  <2>1. janitor'.fam = {} /\ janitor'.del = {} /\ UNCHANGED <<rules, gw, used>>
    BY <1>4 DEF Crash, Resting
  <2>2. ASSUME NEW h \in Handlers, NEW u \in GwIds
        PROVE  /\ \A f \in RuleIds : ~Holds(task[h], f, u)'
               /\ u \notin task'[h].todo
    <3>1. task'[h] = Idle
      BY <1>4 DEF Crash
    <3>2. Idle.work = {} /\ Idle.cur = None /\ Idle.made = NoneMade /\ Idle.todo = {}
      BY DEF Idle, Request
    <3> QED BY <3>1, <3>2, NoneAssumption DEF Holds, NoneMade
  <2> QED BY <2>1, <2>2, SameRules, OtherTame
<1> QED BY <1>1, <1>2, <1>3, <1>4 DEF World


-----------------------------------------------------------------------------
(* The theorems.                                                           *)

LEMMA InitIds == Init => IdInv
<1> SUFFICES ASSUME Init PROVE IdInv
  OBVIOUS
<1>1. TInv
  BY InitType, IdleShape DEF TInv, ShapeOK, Init
<1>2. ASSUME NEW u \in GwIds
      PROVE  /\ gw[u] = None
             /\ \A f \in RuleIds : ~Claim(f, u)
             /\ ~Owned(u)
  <2>1. Idle.work = {} /\ Idle.cur = None /\ Idle.made = NoneMade /\ Idle.todo = {}
    BY DEF Idle, Request
  <2>2. \A f \in RuleIds : ~Claim(f, u)
    BY <2>1, NoneAssumption DEF Init, Claim, Holds, NoneMade, Stored
  <2> QED BY <2>1, <2>2 DEF Init, Owned, Resting
<1> QED BY <1>1, <1>2 DEF IdInv, ClaimsOK, OwnedOK

LEMMA StutterIds == IdInv /\ UNCHANGED vars => IdInv'
BY NextType DEF vars, IdInv, ClaimsOK, OwnedOK, Claim, Owned, Stored, Holds

LEMMA NextTame == IdInv /\ Next => Tame
BY BeginTame, SucceedTame, ErrTame, JanitorTame, WorldTame DEF Next

LEMMA NextIds == IdInv /\ [Next]_vars => IdInv'
<1>1. IdInv /\ Next => IdInv'
  BY NextTame, TameKeeps, NextType DEF IdInv
<1> QED BY <1>1, StutterIds

\* No two family rules ever share a gateway rule, whichever requests race,
\* fail or crash, however often ids are recreated and stale records written
\* back.
THEOREM IdsAreUnique == Spec => []OneRulePerGatewayId
<1>1. IdInv => OneRulePerGatewayId
  BY StoredType DEF IdInv, TInv, ClaimsOK, Claim, OneRulePerGatewayId
<1> QED BY <1>1, InitIds, NextIds, PTL DEF Spec

\* Neither a handler nor the janitor ever overwrites or deletes a rule the user
\* made in the UniFi app.
THEOREM ForeignRulesAreSafe == Spec => ForeignUntouched
<1>1. IdInv /\ [Next]_vars =>
        [\A u \in GwIds : gw[u] = Foreign /\ gw'[u] # Foreign => AppDelete]_vars
  <2> SUFFICES ASSUME IdInv, Next, NEW u \in GwIds, gw[u] = Foreign, gw'[u] # Foreign
               PROVE  AppDelete
    BY DEF vars
  <2>1. ~Owned(u) /\ ~Born(u)
    BY NoneAssumption DEF IdInv, OwnedOK, Born
  <2> QED BY <2>1, NextTame DEF Tame
<1> QED BY <1>1, InitIds, NextIds, PTL DEF Spec, ForeignUntouched

\* A rule or a profile that is gone from the store stays gone: no late
\* store.Update of a request with an old snapshot brings it back.
THEOREM GoneStaysGone == Spec => NoResurrection
<1> DEFINE A ==
      /\ \A f \in RuleIds : rules[f] = None /\ rules'[f] # None =>
           \E h \in Handlers : /\ task[h].pc = "commit" /\ task[h].kind \in Creating
                               /\ task[h].cur.rid = f
      /\ \A p \in ProfileIds : profiles[p] = None /\ profiles'[p] # None => p \notin used
<1>1. TInv /\ [Next]_vars => [A]_vars
  <2> SUFFICES ASSUME TInv, Next PROVE A
    OBVIOUS
  <2>t. /\ rules \in [RuleIds -> Rule \union {None}]
        /\ profiles \in [ProfileIds -> Groups]
    BY DEF TInv, TypeOK
  <2>1. ASSUME NEW F, rules' = Forget(F)
        PROVE  \A f \in RuleIds : rules'[f] # None => rules[f] # None
    BY <2>1 DEF Forget
  <2>2. ASSUME NEW h \in Handlers, rules' = Persisted(task[h])
        PROVE  \A f \in RuleIds : rules'[f] # None => rules[f] # None
    BY <2>2 DEF Persisted, Stored
  <2>3. ASSUME NEW h \in Handlers, profiles' = PersistedProfiles(task[h])
        PROVE  \A p \in ProfileIds : profiles'[p] # None => profiles[p] # None
    BY <2>3 DEF PersistedProfiles
  <2>4. ASSUME NEW h \in Handlers, Begin(h)
        PROVE  A
    BY <2>4, <2>t DEF Begin, RuleCreate, RuleUpdate, RuleDelete, ProfileCreate,
          ProfileUpdate, ProfileDelete, Enroll, Pause, Unpause, Grant, Retarget, Start
  <2>5. ASSUME NEW h \in Handlers, Drop(h)
        PROVE  A
    BY <2>1, <2>5, <2>t DEF Drop
  <2>6. ASSUME NEW h \in Handlers, Commit(h)
        PROVE  A
    <3>1. \A p \in ProfileIds : profiles'[p] # None => profiles[p] # None
      BY <2>3, <2>6 DEF Commit
    <3>2. CASE task[h].kind \in Retargeting
      BY <2>2, <2>6, <3>1, <3>2 DEF Commit, Committed
    <3>3. CASE task[h].kind \notin Retargeting
      <4>1. rules' = rules \/ /\ rules' = [rules EXCEPT ![task[h].cur.rid] = Written(task[h])]
                              /\ task[h].kind \in Creating \/ task[h].cur.rid \in Stored
        BY <2>6, <3>3 DEF Commit, Committed
      <4> QED BY <2>6, <2>t, <3>1, <4>1 DEF Commit, Stored
    <3> QED BY <3>2, <3>3
  <2>7. ASSUME NEW h \in Handlers, Partial(h)
        PROVE  A
    BY <2>2, <2>3, <2>7 DEF Partial
  <2>8. ASSUME NEW h \in Handlers,
               Clear(h) \/ Delete(h) \/ Put(h) \/ Create(h) \/ Compensate(h) \/ Err(h)
        PROVE  A
    BY <2>8 DEF Clear, Delete, Put, Create, Compensate, Err, DeleteError, PutError,
          CreateError, SaveError
  <2>9. ASSUME JanitorStep \/ JanitorError \/ World \/ Crash
        PROVE  A
    BY <2>1, <2>9 DEF JanitorStep, JanitorList, JanitorPlan, JanitorDelete, JanitorDrop,
          JanitorError, World, AppDelete, AppCreate, Elapse, Crash
  <2> QED BY <2>4, <2>5, <2>6, <2>7, <2>8, <2>9 DEF Next, Succeed
<1>2. Init => TInv
  BY InitType, IdleShape DEF TInv, ShapeOK, Init
<1> QED BY <1>1, <1>2, NextType, PTL DEF Spec, NoResurrection
=============================================================================

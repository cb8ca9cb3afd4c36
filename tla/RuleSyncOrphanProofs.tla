------------------------ MODULE RuleSyncOrphanProofs ------------------------
(***************************************************************************)
(* The janitor's second sighting.  A gateway rule that no record knows may  *)
(* be one that a request has made and is about to record.  The janitor      *)
(* deletes it only when two passes in a row have seen it so; passes are     *)
(* further apart than a request is long, so a request that could record it  *)
(* at the first has been answered before the second begins, and ids are     *)
(* never handed out again.                                                  *)
(***************************************************************************)
EXTENDS RuleSyncProofs

\* An edit writes the gateway id of its snapshot back.  No other request that
\* rewrites the same rule runs at the same time.
EditsApart ==
  \A h, k \in Handlers :
    h # k /\ task[h].kind = "RuleUpdate" => task[h].cover \intersect task[k].cover = {}

\* Request t will record a rule that is not stored yet.
Makes(t) == t.kind \in Creating /\ t.cur # None

\* The rule an item rewrites still has the gateway id the item remembers.
Current(t, i) ==
  i.rid \in t.cover /\ (t.kind = "RuleUpdate" /\ i.rid \in Stored => i.rule.gw = rules[i.rid].gw)

\* What request t remembers of the rules it writes.
Recalls(t) ==
  /\ t.pc = "idle" => t.made = NoneMade
  /\ t.pc = "partial" => t.kind \in Retargeting
  /\ t.kind \in Syncing =>
       /\ \A i \in t.work : Current(t, i)
       /\ t.cur # None => Current(t, t.cur)
       /\ \A f \in RuleIds : t.made[f] # None => f \in t.cover
  /\ Makes(t) => t.cur.rule.gw = None

\* A rule that is being made is known to the request that makes it alone.
NewOK ==
  \A h \in Handlers : Makes(task[h]) =>
    /\ task[h].cur.rid \in used \ Stored
    /\ \A k \in Handlers :
         /\ task[h].cur.rid \notin task[k].cover
         /\ k # h /\ Makes(task[k]) => task[k].cur.rid # task[h].cur.rid

KnownOK == Stored \subseteq used /\ \A h \in Handlers : task[h].cover \subseteq used

\* A request that has made a suspect was running when it became one, and none
\* such is left when the next pass has its listing.
SuspectsOK ==
  /\ suspects.gw \subseteq used
  /\ \A h \in Handlers, f \in RuleIds : task[h].made[f] \in suspects.gw => task[h].old

PassOK ==
  /\ janitor.pc = "plan" => ShortRequests
  /\ janitor.pc # "delete" => janitor.del = {}

\* Nobody records, and nobody will record, what is deleted as an orphan.
OrphansOK ==
  \A u \in janitor.del \intersect suspects.gw :
    u \notin Tracked /\ \A h \in Handlers, f \in RuleIds : task[h].made[f] # u

OrphanOK  == /\ \A h \in Handlers : Recalls(task[h])
             /\ NewOK /\ KnownOK /\ SuspectsOK /\ PassOK /\ OrphansOK
OrphanInv == IdInv /\ OrphanOK

-----------------------------------------------------------------------------
(* What a step does to requests, and to what is recorded.                   *)

LEMMA OrphanTypes ==
  ASSUME OrphanInv
  PROVE  /\ IdInv /\ TInv /\ TypeOK /\ NewOK /\ KnownOK /\ SuspectsOK /\ PassOK /\ OrphansOK
         /\ \A h \in Handlers : /\ task[h] \in Task /\ Shape(task[h]) /\ Recalls(task[h])
                                /\ task[h].made \in [RuleIds -> GwIds \union {None}]
         /\ suspects.gw \subseteq GwIds /\ janitor.del \subseteq GwIds
BY TaskType DEF OrphanInv, OrphanOK, IdInv, TInv, TypeOK, JanitorState

\* What a step makes of request t: it ends, or goes on with what it knows and at
\* most one new gateway id.
Goes(t, n) ==
  \/ n = Idle
  \/ /\ n.kind = t.kind /\ n.cover = t.cover /\ n.old = t.old /\ n.pc # "idle"
     /\ n.pc = "partial" => t.kind \in Retargeting
     /\ n.work \subseteq t.work
     /\ n.cur = t.cur \/ (t.kind \in Syncing /\ n.cur \in t.work)
     /\ n.made \in [RuleIds -> GwIds \union {None}]
     /\ \A f \in RuleIds : n.made[f] # t.made[f] =>
          n.made[f] \notin used /\ t.cur # None /\ f = t.cur.rid

\* What a step of request h records: ids the request made, when it ends.
Records(h) ==
  \A f \in Stored' :
    \/ f \in Stored /\ rules'[f].gw = rules[f].gw
    \/ /\ task'[h] = Idle /\ task[h].made[f] # None /\ rules'[f].gw = task[h].made[f]
       /\ \/ f \in Stored \intersect task[h].cover
          \/ Makes(task[h]) /\ f = task[h].cur.rid

LEMMA IdleMakes == ~Makes(Idle) /\ Idle.made = NoneMade /\ Idle.cover = {} /\ Recalls(Idle)'
<1>1. "none" \notin Creating \union Syncing
  BY DEF Creating, Pausing, Syncing, Retargeting
<1> QED BY <1>1 DEF Makes, Recalls, Idle, Request

LEMMA StepOrphan ==
  ASSUME OrphanInv, EditsApart, NEW h \in Handlers, task[h].pc # "idle",
         Goes(task[h], task'[h]), \A k \in Handlers \ {h} : task'[k] = task[k],
         Records(h), used \subseteq used', UNCHANGED <<suspects, janitor>>
  PROVE  OrphanOK'
<1>t. /\ NewOK /\ KnownOK /\ SuspectsOK /\ PassOK /\ OrphansOK /\ TypeOK
      /\ \A k \in Handlers : /\ task[k] \in Task /\ Recalls(task[k])
                             /\ task[k].cur # None => task[k].cur.rid \in RuleIds
                             /\ task[k].made \in [RuleIds -> GwIds \union {None}]
                             /\ \A i \in task[k].work : i.rid \in RuleIds
      /\ suspects.gw \subseteq GwIds
  <2>1. \A k \in Handlers : task[k] \in Task
    BY OrphanTypes
  <2> QED BY <2>1, OrphanTypes DEF Task, Item
<1>1. ASSUME NEW k \in Handlers
      PROVE  /\ task'[k].cover \subseteq task[k].cover
             /\ Makes(task'[k]) => Makes(task[k]) /\ task'[k].cur = task[k].cur
             /\ \A f \in RuleIds : task'[k].made[f] # None =>
                  \/ task'[k].made[f] = task[k].made[f] /\ task'[k].old = task[k].old
                  \/ task'[k].made[f] \notin used
             /\ task'[k].old => task[k].old
  <2>1. CASE k # h
    BY <2>1
  <2>2. CASE k = h /\ task'[h] = Idle
    BY <2>2, IdleMakes DEF Idle, Request, NoneMade
  <2>3. CASE k = h /\ task'[h] # Idle
    <3>1. task[h].kind \in Syncing => task[h].kind \notin Creating
      BY DEF Creating, Pausing, Syncing, Retargeting
    <3> QED BY <2>3, <3>1 DEF Goes, Makes
  <2> QED BY <2>1, <2>2, <2>3
<1>2. \A f \in Stored' : f \in Stored \/ (/\ task'[h] = Idle /\ Makes(task[h])
                                          /\ f = task[h].cur.rid)
  BY DEF Records
<1>3. NewOK'
  <2> SUFFICES ASSUME NEW k \in Handlers, Makes(task'[k])
               PROVE  /\ task'[k].cur.rid \in used' \ Stored'
                      /\ \A j \in Handlers :
                           /\ task'[k].cur.rid \notin task'[j].cover
                           /\ j # k /\ Makes(task'[j]) => task'[j].cur.rid # task'[k].cur.rid
    BY DEF NewOK, Makes
  <2>1. Makes(task[k]) /\ task'[k].cur = task[k].cur
    BY <1>1
  <2>2. task[k].cur.rid \notin Stored'
    <3>1. k # h \/ task'[h] # Idle
      BY IdleMakes
    <3> QED BY <1>2, <1>t, <2>1, <3>1 DEF NewOK
  <2> QED BY <1>1, <1>t, <2>1, <2>2 DEF NewOK
<1>4. KnownOK'
  BY <1>1, <1>2, <1>t DEF KnownOK, NewOK
<1>5. SuspectsOK'
  BY <1>1, <1>t, NoneAssumption DEF SuspectsOK
<1>6. PassOK'
  BY <1>1, <1>t DEF PassOK, ShortRequests
<1>7. ASSUME NEW u \in janitor.del \intersect suspects.gw
      PROVE  u \notin Tracked' /\ \A k \in Handlers, f \in RuleIds : task'[k].made[f] # u
  <2>1. u \in used /\ u # None /\ u \notin Tracked
        /\ \A k \in Handlers, f \in RuleIds : task[k].made[f] # u
    BY <1>t, NoneAssumption DEF SuspectsOK, OrphansOK
  <2>2. \A f \in Stored' : rules'[f].gw # u
    BY <2>1 DEF Records, Tracked, IdsOf, Stored
  <2> QED BY <1>1, <2>1, <2>2 DEF Tracked, IdsOf
<1>8. OrphansOK'
  BY <1>7 DEF OrphansOK
<1>9. ASSUME NEW k \in Handlers \ {h}
      PROVE  Recalls(task[k])'
  <2>1. ASSUME NEW i, i.rid \in RuleIds, Current(task[k], i)
        PROVE  Current(task[k], i)'
    <3> SUFFICES ASSUME task[k].kind = "RuleUpdate", i.rid \in Stored'
                 PROVE  i.rule.gw = rules'[i.rid].gw
      BY <2>1 DEF Current
    <3>1. i.rid \in task[k].cover /\ i.rid \notin task[h].cover
      BY <2>1 DEF Current, EditsApart
    <3>2. ~(Makes(task[h]) /\ i.rid = task[h].cur.rid)
      BY <1>t, <3>1 DEF NewOK
    <3>3. i.rid \in Stored /\ rules'[i.rid].gw = rules[i.rid].gw
      BY <3>1, <3>2 DEF Records
    <3> QED BY <2>1, <3>3 DEF Current
  <2>2. Recalls(task[k]) /\ task'[k] = task[k]
    BY <1>t
  <2>3. task[k].kind \in Syncing /\ task[k].cur # None => Current(task[k], task[k].cur)'
    <3> SUFFICES ASSUME task[k].kind \in Syncing, task[k].cur # None
                 PROVE  Current(task[k], task[k].cur)'
      OBVIOUS
    <3>1. PICK i : i = task[k].cur
      OBVIOUS
    <3>2. Current(task[k], i)'
      BY <1>t, <2>1, <2>2, <3>1 DEF Recalls
    <3> QED BY <2>2, <3>1, <3>2 DEF Current
  <2> QED BY <1>t, <2>1, <2>2, <2>3 DEF Recalls, Makes
<1>10. Recalls(task[h])'
  <2>1. CASE task'[h] = Idle
    BY <2>1, IdleMakes DEF Recalls, Makes
  <2>2. CASE task'[h] # Idle
    <3>1. \A f \in Stored' : f \in Stored /\ rules'[f].gw = rules[f].gw
      BY <2>2 DEF Records
    <3>2. /\ task'[h].kind = task[h].kind /\ task'[h].cover = task[h].cover
          /\ task'[h].pc # "idle" /\ (task'[h].pc = "partial" => task[h].kind \in Retargeting)
          /\ task'[h].work \subseteq task[h].work
          /\ task'[h].cur = task[h].cur \/ (task[h].kind \in Syncing /\ task'[h].cur \in task[h].work)
          /\ \A f \in RuleIds : task'[h].made[f] # task[h].made[f] =>
               task[h].cur # None /\ f = task[h].cur.rid
      BY <2>2 DEF Goes
    <3>3. ASSUME NEW i, Current(task[h], i)
          PROVE  Current(task[h], i)'
      BY <3>1, <3>2, <3>3 DEF Current
    <3>4. task[h].kind \in Syncing /\ task'[h].cur # None => Current(task[h], task[h].cur)'
      <4> SUFFICES ASSUME task[h].kind \in Syncing, task'[h].cur # None
                   PROVE  Current(task[h], task[h].cur)'
        OBVIOUS
      <4>1. PICK i : i = task'[h].cur
        OBVIOUS
      <4>2. Current(task[h], i)
        BY <1>t, <3>2, <4>1 DEF Recalls
      <4>3. Current(task[h], i)'
        BY <3>3, <4>2
      <4> QED BY <4>1, <4>3 DEF Current
    <3>5. task[h].kind \in Syncing => \A f \in RuleIds : task'[h].made[f] # None => f \in task[h].cover
      BY <1>t, <3>2 DEF Recalls, Current
    <3>6. Makes(task'[h]) => task'[h].cur.rule.gw = None
      BY <1>1, <1>t DEF Recalls
    <3> QED BY <1>t, <3>2, <3>3, <3>4, <3>5, <3>6 DEF Recalls, Makes
  <2> QED BY <2>1, <2>2
<1> QED BY <1>3, <1>4, <1>5, <1>6, <1>8, <1>9, <1>10 DEF OrphanOK

-----------------------------------------------------------------------------
(* Every step of a request is such a step.                                  *)

LEMMA AfterGoes ==
  ASSUME NEW t, NEW m \in Task, Goes(t, m), m.pc # "idle"
  PROVE  Goes(t, AfterDelete(m)) /\ Goes(t, AfterWrite(m))
<1>1. ASSUME NEW n, n \in {AfterDelete(m), AfterWrite(m)}
      PROVE  Goes(t, n)
  <2>1. /\ n.kind = m.kind /\ n.cover = m.cover /\ n.old = m.old /\ n.work = m.work
        /\ n.cur = m.cur /\ n.made = m.made /\ n.pc # "idle"
        /\ n.pc = "partial" => m.pc = "partial"
    BY <1>1, AfterFields
  <2>2. m # Idle
    BY DEF Idle, Request
  <2> QED BY <2>1, <2>2 DEF Goes
<1> QED BY <1>1

LEMMA PcGoes ==
  ASSUME NEW t \in Task, NEW pc, pc # "idle", pc = "partial" => t.kind \in Retargeting
  PROVE  Goes(t, [t EXCEPT !.pc = pc])
BY DEF Task, Goes

\* A step of request h to n that leaves the store as it is.
LEMMA GoOrphan ==
  ASSUME OrphanInv, EditsApart, NEW h \in Handlers, task[h].pc # "idle", NEW n, Goto(h, n),
         Goes(task[h], n), rules' = rules, used \subseteq used', UNCHANGED <<suspects, janitor>>
  PROVE  OrphanOK'
<1>1. task'[h] = n /\ \A k \in Handlers \ {h} : task'[k] = task[k]
  BY GotoFields, OrphanTypes
<1>2. Goes(task[h], task'[h])
  BY <1>1
<1>3. Records(h)
  BY DEF Records, Stored
<1> QED BY <1>1, <1>2, <1>3, StepOrphan

\* A step that answers request h.
LEMMA AnswerOrphan ==
  ASSUME OrphanInv, EditsApart, NEW h \in Handlers, task[h].pc # "idle", Goto(h, Idle),
         \A f \in Stored' :
           \/ f \in Stored /\ rules'[f].gw = rules[f].gw
           \/ /\ task[h].made[f] # None /\ rules'[f].gw = task[h].made[f]
              /\ f \in Stored \intersect task[h].cover \/ (Makes(task[h]) /\ f = task[h].cur.rid),
         used' = used, UNCHANGED <<suspects, janitor>>
  PROVE  OrphanOK'
<1>1. task'[h] = Idle /\ \A k \in Handlers \ {h} : task'[k] = task[k]
  BY GotoFields, OrphanTypes
<1>2. Goes(task[h], task'[h]) /\ Records(h)
  BY <1>1 DEF Goes, Records
<1> QED BY <1>1, <1>2, StepOrphan

LEMMA ErrorOrphan ==
  ASSUME OrphanInv, EditsApart, NEW h \in Handlers, task[h].pc # "idle", AnswerError(h) \/ Failed(h),
         rules' = rules, used \subseteq used', UNCHANGED <<suspects, janitor>>
  PROVE  OrphanOK'
<1>1. CASE Goto(h, Idle)
  BY <1>1, GoOrphan DEF Goes
<1>2. CASE task[h].kind \in Retargeting /\ Goto(h, [task[h] EXCEPT !.pc = "partial"])
  BY <1>2, OrphanTypes, PcGoes, GoOrphan
<1> QED BY <1>1, <1>2 DEF AnswerError, Failed

LEMMA GatewayOrphan ==
  ASSUME OrphanInv, EditsApart, NEW h \in Handlers,
         Clear(h) \/ Delete(h) \/ Put(h) \/ Create(h)
  PROVE  OrphanOK'
<1>t. /\ TInv /\ TypeOK /\ task[h] \in Task /\ Shape(task[h])
      /\ task[h].made \in [RuleIds -> GwIds \union {None}]
      /\ task[h].work \subseteq Item /\ task[h].todo \subseteq GwIds
      /\ task[h].pc = "create" => task[h].cur # None /\ task[h].cur.rid \in RuleIds
  <2>1. TInv /\ TypeOK /\ task[h] \in Task /\ Shape(task[h])
    BY OrphanTypes
  <2> QED BY <2>1, TaskType DEF Shape, Item, Task
<1>w. rules' = rules /\ used \subseteq used' /\ UNCHANGED <<suspects, janitor>>
  BY DEF Clear, Delete, Put, Create
<1>1. CASE Clear(h)
  <2> DEFINE m == [task[h] EXCEPT !.pc = "delete", !.todo = IdsOf(PausesOf(task[h].prof))]
  <2>1. task[h].pc = "clear" /\ Goto(h, AfterDelete(m))
    BY <1>1 DEF Clear
  <2>2. IdsOf(PausesOf(task[h].prof)) \subseteq GwIds
    BY <1>t, IdsType DEF PausesOf, RulesOf
  <2>3. m \in Task /\ m.pc = "delete" /\ Goes(task[h], m)
    BY <1>t, <2>2 DEF Task, Steps, Goes
  <2> HIDE DEF m
  <2>4. Goes(task[h], AfterDelete(m))
    BY <2>3, AfterGoes
  <2> QED BY <1>w, <2>1, <2>4, GoOrphan
<1>2. CASE Delete(h)
  <2> DEFINE m(v) == [task[h] EXCEPT !.todo = @ \ {v}]
  <2>1. PICK v \in task[h].todo : task[h].pc = "delete" /\ Goto(h, AfterDelete(m(v)))
    BY <1>2 DEF Delete
  <2>2. m(v) \in Task /\ m(v).pc = "delete" /\ Goes(task[h], m(v))
    BY <1>t, <2>1 DEF Task, Goes
  <2> HIDE DEF m
  <2>3. Goes(task[h], AfterDelete(m(v)))
    BY <2>2, AfterGoes
  <2> QED BY <1>w, <2>1, <2>3, GoOrphan
<1>3. CASE Put(h)
  <2> DEFINE m(i) == [task[h] EXCEPT !.work = @ \ {i}, !.cur = i]
             d(i) == [m(i) EXCEPT !.pc = "delete", !.todo = {i.rule.gw}]
  <2>1. PICK item \in task[h].work :
          task[h].pc = "put" /\ (Goto(h, AfterWrite(m(item))) \/ Goto(h, d(item)))
    BY <1>3 DEF Put
  <2>2. task[h].kind \in Syncing /\ item \in Item
    BY <1>t, <2>1 DEF Shape
  <2>3. m(item) \in Task /\ m(item).pc = "put" /\ Goes(task[h], m(item))
    BY <1>t, <2>1, <2>2 DEF Task, Goes
  <2>4. Goes(task[h], d(item))
    BY <1>t, <2>1, <2>2 DEF Task, Goes
  <2> HIDE DEF m, d
  <2>5. Goes(task[h], AfterWrite(m(item)))
    BY <2>3, AfterGoes
  <2> QED BY <1>w, <2>1, <2>4, <2>5, GoOrphan
<1>4. CASE Create(h)
  <2> DEFINE m(u) == [task[h] EXCEPT !.made[task[h].cur.rid] = u]
  <2>1. PICK u \in GwIds \ used : task[h].pc = "create" /\ Goto(h, AfterWrite(m(u)))
    BY <1>4 DEF Create
  <2>2. m(u) \in Task /\ m(u).pc = "create" /\ Goes(task[h], m(u))
    BY <1>t, <2>1 DEF Task, Goes
  <2> HIDE DEF m
  <2>3. Goes(task[h], AfterWrite(m(u)))
    BY <2>2, AfterGoes
  <2> QED BY <1>w, <2>1, <2>3, GoOrphan
<1> QED BY <1>1, <1>2, <1>3, <1>4

LEMMA DropOrphan ==
  ASSUME OrphanInv, EditsApart, NEW h \in Handlers, Drop(h)
  PROVE  OrphanOK'
<1>1. /\ task[h].pc = "drop" /\ task[h] \in Task /\ TInv /\ used' = used
      /\ UNCHANGED <<suspects, janitor>>
      /\ Goto(h, [task[h] EXCEPT !.pc = "create"]) \/ Goto(h, Idle)
  BY OrphanTypes DEF Drop, Answer
<1>2. \A f \in Stored' : f \in Stored /\ rules'[f].gw = rules[f].gw
  BY DEF Drop, Forget, Stored
<1>3. CASE Goto(h, Idle)
  BY <1>1, <1>2, <1>3, AnswerOrphan
<1>4. CASE Goto(h, [task[h] EXCEPT !.pc = "create"])
  <2>1. /\ task'[h] = [task[h] EXCEPT !.pc = "create"]
        /\ \A k \in Handlers \ {h} : task'[k] = task[k]
    BY <1>1, <1>4, GotoFields
  <2>2. Goes(task[h], task'[h]) /\ Records(h)
    BY <1>1, <1>2, <2>1, PcGoes DEF Records
  <2> QED BY <1>1, <2>1, <2>2, StepOrphan
<1> QED BY <1>1, <1>3, <1>4

LEMMA PersistOrphan ==
  ASSUME OrphanInv, EditsApart, NEW h \in Handlers, task[h].pc # "idle", Goto(h, Idle),
         task[h].kind \in Retargeting, rules' = Persisted(task[h]), used' = used,
         UNCHANGED <<suspects, janitor>>
  PROVE  OrphanOK'
<1>1. task[h].kind \in Syncing /\ Recalls(task[h])
  BY OrphanTypes DEF Syncing
<1>2. ASSUME NEW f \in Stored'
      PROVE  \/ f \in Stored /\ rules'[f].gw = rules[f].gw
             \/ /\ task[h].made[f] # None /\ rules'[f].gw = task[h].made[f]
                /\ f \in Stored \intersect task[h].cover
  <2>1. rules'[f] # None /\ f \in RuleIds
    BY DEF Stored
  <2>2. CASE f \in Stored /\ task[h].made[f] # None
    <3>1. rules'[f] = [rules[f] EXCEPT !.gw = task[h].made[f]] /\ rules[f] \in Rule
      BY <2>1, <2>2, StoredType, OrphanTypes DEF Persisted
    <3>2. rules'[f].gw = task[h].made[f]
      BY <3>1 DEF Rule
    <3> QED BY <1>1, <2>1, <2>2, <3>2 DEF Recalls
  <2>3. CASE ~(f \in Stored /\ task[h].made[f] # None)
    BY <2>1, <2>3 DEF Persisted, Stored
  <2> QED BY <2>2, <2>3
<1> QED BY <1>2, AnswerOrphan

LEMMA CommitOrphan ==
  ASSUME OrphanInv, EditsApart, NEW h \in Handlers, Commit(h)
  PROVE  OrphanOK'
<1>1. /\ task[h].pc = "commit" /\ Goto(h, Idle) /\ rules' = Committed(task[h])
      /\ used' = used /\ UNCHANGED <<suspects, janitor>> /\ task[h] \in Task /\ Shape(task[h])
      /\ task[h].kind \in Creating \union Syncing /\ Recalls(task[h])
      /\ rules \in [RuleIds -> Rule \union {None}]
  BY OrphanTypes DEF Commit, Answer, Shape, TypeOK
<1>2. CASE task[h].kind \in Retargeting
  BY <1>1, <1>2, PersistOrphan DEF Committed
<1>3. CASE task[h].kind \notin Retargeting
  <2> DEFINE c == task[h].cur
  <2>1. /\ c # None /\ c.rid \in RuleIds /\ Written(task[h]).gw \in GwIds
        /\ Written(task[h]).gw = IF task[h].made[c.rid] = None THEN c.rule.gw
                                                               ELSE task[h].made[c.rid]
    <3>1. c # None /\ Written(task[h]).gw \in GwIds /\ c \in Item \union {None}
      BY <1>1, <1>3 DEF Shape, Task
    <3> QED BY <1>1, <3>1, WrittenType DEF Item
  <2>2. \A f \in Stored' : rules'[f] = rules[f] \/ (f = c.rid /\ rules'[f] = Written(task[h]))
    BY <1>1, <1>3, <2>1 DEF Committed, Stored
  <2>3. CASE task[h].kind \in Creating
    <3>1. Makes(task[h]) /\ c.rule.gw = None
      BY <1>1, <2>1, <2>3 DEF Makes, Recalls
    <3>2. task[h].made[c.rid] # None /\ Written(task[h]).gw = task[h].made[c.rid]
      BY <2>1, <3>1, NoneAssumption
    <3> QED BY <1>1, <2>2, <3>1, <3>2, AnswerOrphan DEF Stored
  <2>4. CASE task[h].kind \notin Creating
    <3>1. task[h].kind = "RuleUpdate" /\ task[h].kind \in Syncing
      BY <1>1, <1>3, <2>4 DEF Syncing
    <3>2. Current(task[h], c)
      BY <1>1, <2>1, <3>1 DEF Recalls
    <3>3. \A f \in Stored' : f \in Stored
      BY <1>1, <1>3, <2>1, <2>4 DEF Committed, Stored
    <3>4. \A f \in Stored' : \/ f \in Stored /\ rules'[f].gw = rules[f].gw
                             \/ /\ task[h].made[f] # None /\ rules'[f].gw = task[h].made[f]
                                /\ f \in Stored \intersect task[h].cover
      BY <2>1, <2>2, <3>1, <3>2, <3>3 DEF Current
    <3>5. task[h].pc # "idle"
      BY <1>1
    <3> QED BY <1>1, <3>4, <3>5, AnswerOrphan
  <2> QED BY <2>3, <2>4
<1> QED BY <1>2, <1>3

LEMMA SucceedOrphan ==
  ASSUME OrphanInv, EditsApart, NEW h \in Handlers, Succeed(h)
  PROVE  OrphanOK'
<1>1. CASE Partial(h)
  <2>1. task[h].pc = "partial" /\ rules' = Persisted(task[h]) /\ Goto(h, Idle) /\ used' = used
        /\ UNCHANGED <<suspects, janitor>>
    BY <1>1 DEF Partial, AnswerError
  <2>2. task[h].kind \in Retargeting
    BY <2>1, OrphanTypes DEF Recalls
  <2> QED BY <2>1, <2>2, PersistOrphan
<1>2. CASE Compensate(h)
  <2>1. task[h].pc = "compensate" /\ AnswerError(h) /\ rules' = rules /\ used' = used
        /\ UNCHANGED <<suspects, janitor>>
    BY <1>2 DEF Compensate
  <2> QED BY <2>1, ErrorOrphan
<1> QED BY <1>1, <1>2, GatewayOrphan, DropOrphan, CommitOrphan DEF Succeed

LEMMA ErrOrphan ==
  ASSUME OrphanInv, EditsApart, NEW h \in Handlers, Err(h)
  PROVE  OrphanOK'
<1>1. CASE DeleteError(h) \/ PutError(h) \/ CreateError(h)
  <2>1. task[h].pc # "idle" /\ Failed(h) /\ rules' = rules /\ used \subseteq used'
        /\ UNCHANGED <<suspects, janitor>>
    BY <1>1 DEF DeleteError, PutError, CreateError
  <2> QED BY <2>1, ErrorOrphan
<1>2. CASE SaveError(h)
  <2>1. /\ task[h].pc # "idle" /\ rules' = rules /\ used \subseteq used'
        /\ UNCHANGED <<suspects, janitor>> /\ task[h] \in Task
        /\ AnswerError(h) \/ Goto(h, [task[h] EXCEPT !.pc = "compensate"])
    BY <1>2, OrphanTypes DEF SaveError
  <2> QED BY <2>1, PcGoes, GoOrphan, ErrorOrphan
<1> QED BY <1>1, <1>2 DEF Err

-----------------------------------------------------------------------------
(* A request begins.                                                        *)

LEMMA BeginOrphan ==
  ASSUME OrphanInv, NEW h \in Handlers, task[h].pc = "idle", NEW t, Start(h, t), used \subseteq used',
         t.made = NoneMade, t.old = FALSE, t.pc \notin {"idle", "partial"}, t.cover \subseteq Stored,
         t.kind \in Syncing => /\ t.cur = None
                               /\ \A i \in t.work : /\ i.rid \in t.cover
                                                    /\ i.rule.gw = rules[i.rid].gw,
         Makes(t) => t.cur.rule.gw = None /\ t.cur.rid \in used' \ used
  PROVE  OrphanOK'
<1>t. /\ NewOK /\ KnownOK /\ SuspectsOK /\ PassOK /\ OrphansOK
      /\ \A k \in Handlers : Recalls(task[k])
      /\ suspects.gw \subseteq GwIds
  BY OrphanTypes
<1>1. /\ UNCHANGED <<rules, gw, suspects, janitor>> /\ Stored' = Stored /\ Tracked' = Tracked
      /\ task'[h] = t /\ \A k \in Handlers \ {h} : task'[k] = task[k]
  <2>1. UNCHANGED <<rules, gw, suspects, janitor>> /\ Goto(h, t)
    BY DEF Start, Goto
  <2>2. task'[h] = t /\ \A k \in Handlers \ {h} : task'[k] = task[k]
    BY <2>1, GotoFields, OrphanTypes
  <2> QED BY <2>1, <2>2 DEF Stored, Tracked, IdsOf
<1>2. ASSUME NEW k \in Handlers \ {h}
      PROVE  Recalls(task[k])'
  <2>1. \A i : Current(task[k], i) => Current(task[k], i)'
    BY <1>1 DEF Current
  <2>2. Current(task[k], task[k].cur) => Current(task[k], task[k].cur)'
    BY <1>1 DEF Current
  <2> QED BY <1>1, <1>t, <2>1, <2>2 DEF Recalls, Makes
<1>3. Recalls(task[h])'
  <2>1. \A i \in t.work : t.kind \in Syncing => Current(t, i)
    BY DEF Current
  <2>2. \A i \in task'[h].work : t.kind \in Syncing => Current(task[h], i)'
    BY <1>1, <2>1 DEF Current
  <2> QED BY <1>1, <2>2 DEF Recalls, Makes, NoneMade
<1>4. NewOK'
  <2> SUFFICES ASSUME NEW k \in Handlers, Makes(task'[k])
               PROVE  /\ task'[k].cur.rid \in used' \ Stored
                      /\ \A j \in Handlers :
                           /\ task'[k].cur.rid \notin task'[j].cover
                           /\ j # k /\ Makes(task'[j]) => task'[j].cur.rid # task'[k].cur.rid
    BY <1>1 DEF NewOK, Makes
  <2>1. CASE k = h
    BY <1>1, <1>t, <2>1 DEF NewOK, KnownOK
  <2>2. CASE k # h
    BY <1>1, <1>t, <2>2 DEF NewOK
  <2> QED BY <2>1, <2>2
<1>5. KnownOK' /\ PassOK'
  BY <1>1, <1>t DEF KnownOK, PassOK, ShortRequests
<1>6. SuspectsOK' /\ OrphansOK'
  BY <1>1, <1>t, NoneAssumption DEF SuspectsOK, OrphansOK, NoneMade
<1> QED BY <1>2, <1>3, <1>4, <1>5, <1>6 DEF OrphanOK

LEMMA MakingOrphan ==
  ASSUME OrphanInv, NEW h \in Handlers, task[h].pc = "idle", NEW kind \in Creating, NEW p,
         NEW f \in RuleIds \ used, NEW b, NEW pause, NEW pc, used' = used \union {f},
         pc \in {"create", "clear"},
         Start(h, [Request(kind, pc, p) EXCEPT !.cur = NewItem(f, p, b, pause)])
  PROVE  OrphanOK'
<1> DEFINE t == [Request(kind, pc, p) EXCEPT !.cur = NewItem(f, p, b, pause)]
<1>1. /\ t.kind = kind /\ t.pc = pc /\ t.made = NoneMade /\ t.cur = NewItem(f, p, b, pause)
      /\ t.cover = {} /\ t.old = FALSE /\ t.work = {}
  BY DEF Request
<1>2. Start(h, t)
  OBVIOUS
<1> HIDE DEF t
<1>3. t.cur.rid = f /\ t.cur.rule.gw = None /\ kind \notin Syncing
  BY <1>1 DEF NewItem, Creating, Pausing, Syncing, Retargeting
<1> QED BY <1>1, <1>2, <1>3, BeginOrphan

LEMMA RetargetOrphan ==
  ASSUME OrphanInv, NEW h \in Handlers, task[h].pc = "idle", NEW kind \in Retargeting, NEW p, NEW upd,
         Retarget(h, kind, p, upd)
  PROVE  OrphanOK'
<1> DEFINE F == UNION {RulesOf(q) : q \in {q \in ProfileIds : upd[q] # None}}
           pc == IF F = {} THEN "commit" ELSE "put"
           t == [Request(kind, pc, p) EXCEPT !.upd = upd, !.work = WorkOf(F, upd), !.cover = F]
<1>1. Start(h, t) /\ used' = used
  BY DEF Retarget
<1>2. /\ t.kind = kind /\ t.pc = pc /\ t.made = NoneMade /\ t.cover = F /\ t.old = FALSE
      /\ t.cur = None /\ t.work = WorkOf(F, upd)
  <2> HIDE DEF F, pc
  <2> QED BY DEF Request
<1>3. pc \in {"put", "commit"} /\ F \subseteq Stored
  BY DEF RulesOf
<1> HIDE DEF t, pc, F
<1>4. kind \notin Creating
  BY DEF Creating, Pausing, Retargeting
<1>5. \A i \in WorkOf(F, upd) : i.rid \in F /\ i.rule.gw = rules[i.rid].gw
  BY DEF WorkOf
<1> QED BY <1>1, <1>2, <1>3, <1>4, <1>5, BeginOrphan DEF Makes

LEMMA BeginsOrphan ==
  ASSUME OrphanInv, NEW h \in Handlers, Begin(h)
  PROVE  OrphanOK'
<1>t. /\ {"RuleCreate", "Pause", "Grant"} \subseteq Creating
      /\ {"ProfileUpdate", "Enroll"} = Retargeting
      /\ "RuleUpdate" \notin Creating
      /\ {"RuleDelete", "ProfileDelete", "Unpause", "Grant"} \intersect Syncing = {}
      /\ {"RuleDelete", "ProfileDelete", "Unpause"} \intersect Creating = {}
  BY DEF Creating, Pausing, Retargeting, Syncing
<1>1. CASE RuleCreate(h)
  BY <1>1, <1>t, MakingOrphan DEF RuleCreate, Free
<1>2. CASE RuleUpdate(h)
  <2> DEFINE it(f, b) == [rid |-> f, rule |-> [rules[f] EXCEPT !.body = b],
                          targets |-> TargetsOf(profiles, rules[f].prof)]
             t(f, b) == [Request("RuleUpdate", "put", rules[f].prof)
                           EXCEPT !.work = {it(f, b)}, !.cover = {f}]
  <2>1. PICK f \in Stored, b \in Bodies : Start(h, t(f, b)) /\ used' = used /\ task[h].pc = "idle"
    BY <1>2 DEF RuleUpdate, Free
  <2>2. it(f, b).rid = f /\ it(f, b).rule.gw = rules[f].gw
    BY <2>1, StoredType, OrphanTypes DEF Rule
  <2>3. /\ t(f, b).kind = "RuleUpdate" /\ t(f, b).pc = "put" /\ t(f, b).made = NoneMade
        /\ t(f, b).cover = {f} /\ t(f, b).cur = None /\ t(f, b).work = {it(f, b)}
        /\ t(f, b).old = FALSE
    <3> HIDE DEF it
    <3> QED BY DEF Request
  <2> HIDE DEF t, it
  <2> QED BY <1>t, <2>1, <2>2, <2>3, BeginOrphan DEF Makes
<1>3. CASE RuleDelete(h)
  <2> DEFINE it(f) == [rid |-> f, rule |-> rules[f], targets |-> {}]
             t(f) == [Request("RuleDelete", "delete", rules[f].prof)
                        EXCEPT !.cur = it(f), !.todo = IdsOf({f})]
  <2>1. PICK f \in Stored : Start(h, t(f)) /\ used' = used /\ task[h].pc = "idle"
    BY <1>3 DEF RuleDelete, Free
  <2>2. /\ t(f).kind = "RuleDelete" /\ t(f).pc = "delete" /\ t(f).made = NoneMade
        /\ t(f).cover = {} /\ t(f).old = FALSE
    <3> HIDE DEF it
    <3> QED BY DEF Request
  <2> HIDE DEF t
  <2> QED BY <1>t, <2>1, <2>2, BeginOrphan DEF Makes
<1>4. CASE ProfileCreate(h)
  <2>1. UNCHANGED <<rules, task, janitor, suspects>> /\ used \subseteq used'
    BY <1>4 DEF ProfileCreate
  <2>2. \A k \in Handlers : Recalls(task[k])'
    BY <2>1, OrphanTypes DEF Recalls, Current, Makes, Stored
  <2>3. NewOK' /\ KnownOK' /\ SuspectsOK' /\ PassOK' /\ OrphansOK'
    BY <2>1, OrphanTypes DEF NewOK, KnownOK, SuspectsOK, PassOK, OrphansOK, ShortRequests, Makes,
       Stored, Tracked, IdsOf
  <2> QED BY <2>2, <2>3 DEF OrphanOK
<1>5. CASE ProfileUpdate(h)
  BY <1>5, <1>t, RetargetOrphan DEF ProfileUpdate, Free
<1>6. CASE Enroll(h)
  BY <1>6, <1>t, RetargetOrphan DEF Enroll, Free
<1>7. CASE ProfileDelete(h)
  <2> DEFINE pc(p) == IF IdsOf(RulesOf(p)) = {} THEN "drop" ELSE "delete"
             t(p) == [Request("ProfileDelete", pc(p), p) EXCEPT !.todo = IdsOf(RulesOf(p))]
  <2>1. PICK p : Start(h, t(p)) /\ used' = used /\ task[h].pc = "idle"
    BY <1>7 DEF ProfileDelete, Free
  <2>2. pc(p) \in {"drop", "delete"}
    OBVIOUS
  <2> HIDE DEF pc
  <2>3. /\ t(p).kind = "ProfileDelete" /\ t(p).pc = pc(p) /\ t(p).made = NoneMade
        /\ t(p).cover = {} /\ t(p).old = FALSE
    BY DEF Request
  <2> HIDE DEF t
  <2> QED BY <1>t, <2>1, <2>2, <2>3, BeginOrphan DEF Makes
<1>8. CASE Pause(h)
  BY <1>8, <1>t, MakingOrphan DEF Pause, Free
<1>9. CASE Unpause(h)
  <2>1. PICK p : Start(h, Request("Unpause", "clear", p)) /\ used' = used /\ task[h].pc = "idle"
    BY <1>9 DEF Unpause, Free
  <2>2. LET t == Request("Unpause", "clear", p)
        IN  /\ t.kind = "Unpause" /\ t.pc = "clear" /\ t.made = NoneMade /\ t.cover = {}
            /\ t.old = FALSE
    BY DEF Request
  <2> QED BY <1>t, <2>1, <2>2, BeginOrphan DEF Makes
<1>10. CASE Grant(h)
  <2>1. CASE \E p \in Known : Start(h, Request("Grant", "clear", p)) /\ used' = used
    <3>1. PICK p : Start(h, Request("Grant", "clear", p)) /\ used' = used
      BY <2>1
    <3>2. LET t == Request("Grant", "clear", p)
          IN  /\ t.kind = "Grant" /\ t.pc = "clear" /\ t.made = NoneMade /\ t.cover = {}
              /\ t.old = FALSE /\ t.cur = None
      BY DEF Request
    <3>3. task[h].pc = "idle"
      BY <1>10 DEF Grant, Free
    <3> QED BY <1>t, <3>1, <3>2, <3>3, BeginOrphan DEF Makes
  <2>2. CASE \E p \in Known, b \in Timed, f \in RuleIds \ used :
               /\ used' = used \union {f}
               /\ Start(h, [Request("Grant", "clear", p) EXCEPT !.cur = NewItem(f, p, b, TRUE)])
    <3>1. task[h].pc = "idle"
      BY <1>10 DEF Grant, Free
    <3> QED BY <1>t, <2>2, <3>1, MakingOrphan
  <2> QED BY <1>10, <2>1, <2>2 DEF Grant
<1> QED BY <1>1, <1>2, <1>3, <1>4, <1>5, <1>6, <1>7, <1>8, <1>9, <1>10 DEF Begin

-----------------------------------------------------------------------------
(* The janitor, the world and a crash.                                      *)

\* Steps that only take records away, and go on with the pass or end it.
LEMMA TakesOrphan ==
  ASSUME OrphanInv, UNCHANGED <<task, suspects>>, used \subseteq used',
         \A f \in RuleIds : rules'[f] \in {rules[f], None},
         PassOK', janitor'.del \subseteq janitor.del
  PROVE  OrphanOK'
<1>t. /\ NewOK /\ KnownOK /\ SuspectsOK /\ PassOK /\ OrphansOK
      /\ \A k \in Handlers : Recalls(task[k])
  BY OrphanTypes
<1>1. \A f \in Stored' : f \in Stored /\ rules'[f] = rules[f]
  BY DEF Stored
<1>2. ASSUME NEW k \in Handlers
      PROVE  Recalls(task[k])'
  <2>1. \A i : Current(task[k], i) => Current(task[k], i)'
    BY <1>1 DEF Current
  <2>2. Current(task[k], task[k].cur) => Current(task[k], task[k].cur)'
    BY <1>1 DEF Current
  <2> QED BY <1>t, <2>1, <2>2 DEF Recalls, Makes
<1>3. NewOK' /\ KnownOK' /\ SuspectsOK'
  BY <1>1, <1>t DEF NewOK, KnownOK, SuspectsOK, Makes
<1>4. \A u \in Tracked' : u \in Tracked
  BY <1>1 DEF Tracked, IdsOf
<1>5. OrphansOK'
  BY <1>4, <1>t DEF OrphansOK
<1> QED BY <1>2, <1>3, <1>5 DEF OrphanOK

\* A pass looks at the store: what it will delete as an orphan is in nobody's
\* hands, and whoever runs now is marked.
LEMMA PlanOrphan ==
  ASSUME OrphanInv, JanitorPlan
  PROVE  OrphanOK'
<1>t. /\ NewOK /\ KnownOK /\ SuspectsOK /\ PassOK /\ OrphansOK /\ OwnedOK
      /\ \A k \in Handlers : /\ Recalls(task[k]) /\ task[k] \in Task
                             /\ task[k].made \in [RuleIds -> GwIds \union {None}]
      /\ suspects.gw \subseteq GwIds /\ janitor.fam \subseteq GwIds
  BY OrphanTypes DEF IdInv, TypeOK, JanitorState
<1>1. /\ UNCHANGED <<rules, used, gw>> /\ Stored' = Stored /\ Tracked' = Tracked
      /\ janitor.pc = "plan" /\ suspects'.gw = Untracked /\ janitor'.pc # "plan"
      /\ \A k \in Handlers : task'[k] = [task[k] EXCEPT !.old = task[k].pc # "idle"]
  BY DEF JanitorPlan, Stored, Tracked, IdsOf, Resting
<1>2. ASSUME NEW k \in Handlers
      PROVE  /\ task'[k].kind = task[k].kind /\ task'[k].pc = task[k].pc /\ task'[k].cur = task[k].cur
             /\ task'[k].work = task[k].work /\ task'[k].made = task[k].made
             /\ task'[k].cover = task[k].cover /\ task'[k].old = (task[k].pc # "idle")
  BY <1>1, <1>t DEF Task
<1>3. ASSUME NEW k \in Handlers
      PROVE  Recalls(task[k])'
  <2>1. \A i : Current(task[k], i) => Current(task[k], i)'
    BY <1>1, <1>2 DEF Current
  <2>2. Current(task[k], task[k].cur) => Current(task[k], task[k].cur)'
    BY <1>1, <1>2 DEF Current
  <2> QED BY <1>2, <1>t, <2>1, <2>2 DEF Recalls, Makes
<1>4. NewOK' /\ KnownOK'
  BY <1>1, <1>2, <1>t DEF NewOK, KnownOK, Makes
<1>5. Untracked \subseteq used
  BY <1>t DEF Untracked, OwnedOK, Owned
<1>6. SuspectsOK'
  <2> SUFFICES ASSUME NEW k \in Handlers, NEW f \in RuleIds, task'[k].made[f] \in Untracked
               PROVE  task'[k].old
    BY <1>1, <1>5 DEF SuspectsOK
  <2>1. task[k].made[f] # None
    BY <1>2, <1>t, NoneAssumption DEF Untracked
  <2> QED BY <1>2, <1>t, <2>1 DEF Recalls, NoneMade
<1>7. PassOK'
  BY <1>1, <1>t DEF JanitorPlan, PassOK, Resting
<1>8. janitor'.del \subseteq IdsOf(Spent) \union (Untracked \intersect suspects.gw)
  BY <1>1, <1>t DEF JanitorPlan, PassOK, Resting, Again
<1>9. ASSUME NEW u \in janitor'.del \intersect suspects'.gw
      PROVE  u \notin Tracked' /\ \A k \in Handlers, f \in RuleIds : task'[k].made[f] # u
  <2>1. u \notin Tracked /\ u \in suspects.gw
    BY <1>1, <1>8 DEF Untracked, Tracked, IdsOf, Spent
  <2>2. \A k \in Handlers, f \in RuleIds : task[k].made[f] # u
    BY <1>1, <1>t, <2>1 DEF PassOK, ShortRequests, SuspectsOK
  <2> QED BY <1>1, <1>2, <2>1, <2>2
<1>10. OrphansOK'
  BY <1>9 DEF OrphansOK
<1> QED BY <1>3, <1>4, <1>6, <1>7, <1>10 DEF OrphanOK

LEMMA OthersOrphan ==
  ASSUME OrphanInv, JanitorStep \/ JanitorError \/ World \/ UNCHANGED vars
  PROVE  OrphanOK'
<1>t. PassOK /\ TypeOK /\ janitor \in JanitorState
  BY OrphanTypes DEF TypeOK
<1>1. CASE JanitorList
  <2>1. PassOK' /\ janitor'.del = {}
    BY <1>1 DEF JanitorList, PassOK, ShortRequests, Resting
  <2> QED BY <1>1, <2>1, TakesOrphan DEF JanitorList
<1>2. CASE JanitorDelete
  <2>1. PassOK' /\ janitor'.del \subseteq janitor.del
    BY <1>2, <1>t DEF JanitorDelete, PassOK, Resting, JanitorState
  <2> QED BY <1>2, <2>1, TakesOrphan DEF JanitorDelete
<1>3. CASE JanitorDrop \/ JanitorError
  <2>1. janitor' = Resting /\ UNCHANGED <<task, suspects, used>>
    BY <1>3 DEF JanitorDrop, JanitorError
  <2>2. PassOK' /\ janitor'.del = {}
    BY <2>1 DEF PassOK, Resting
  <2>3. \A f \in RuleIds : rules'[f] \in {rules[f], None}
    BY <1>3 DEF JanitorDrop, JanitorError, Forget
  <2> QED BY <2>1, <2>2, <2>3, TakesOrphan
<1>4. CASE World \/ UNCHANGED vars
  <2>1. UNCHANGED <<rules, task, suspects, janitor>> /\ used \subseteq used'
    BY <1>4 DEF World, AppDelete, AppCreate, Elapse, vars
  <2>2. PassOK'
    BY <1>t, <2>1 DEF PassOK, ShortRequests
  <2> QED BY <2>1, <2>2, TakesOrphan
<1> QED BY <1>1, <1>2, <1>3, <1>4, PlanOrphan DEF JanitorStep

\* Nobody runs, and nobody is suspect.
Fresh ==
  /\ \A h \in Handlers : task[h] = Idle
  /\ suspects = NoSuspects /\ janitor = Resting /\ Stored \subseteq used

LEMMA FreshOrphan == Fresh /\ TypeOK => OrphanOK
<1> SUFFICES ASSUME Fresh, TypeOK PROVE OrphanOK
  OBVIOUS
<1>1. \A h \in Handlers : /\ task[h].kind \notin Creating \union Syncing /\ task[h].made = NoneMade
                          /\ task[h].cover = {} /\ task[h].pc = "idle"
  BY DEF Fresh, Idle, Request, Creating, Pausing, Syncing, Retargeting
<1> QED BY <1>1 DEF Fresh, OrphanOK, Recalls, Makes, NewOK, KnownOK, SuspectsOK, PassOK, OrphansOK,
       NoSuspects, Resting

LEMMA CrashOrphan ==
  ASSUME OrphanInv, IdInv', Crash
  PROVE  OrphanOK'
<1>1. Fresh'
  BY OrphanTypes DEF Crash, Fresh, KnownOK, Stored
<1>2. TypeOK'
  BY DEF IdInv, TInv
<1>3. (Fresh /\ TypeOK)' => OrphanOK'
  BY FreshOrphan, PTL
<1> QED BY <1>1, <1>2, <1>3

LEMMA InitOrphan == Init => OrphanInv
<1> SUFFICES ASSUME Init PROVE OrphanInv
  OBVIOUS
<1>1. /\ \A h \in Handlers : task[h] = Idle
      /\ suspects = NoSuspects /\ janitor = Resting /\ Stored = {}
  BY DEF Init, Stored
<1>2. Fresh
  BY <1>1 DEF Fresh
<1> QED BY <1>2, InitIds, InitType, FreshOrphan DEF OrphanInv

LEMMA NextOrphan == OrphanInv /\ EditsApart /\ [Next]_vars => OrphanInv'
<1> SUFFICES ASSUME OrphanInv, EditsApart, [Next]_vars PROVE OrphanInv'
  OBVIOUS
<1>1. IdInv'
  BY NextIds, OrphanTypes
<1>2. OrphanOK'
  BY <1>1, BeginsOrphan, SucceedOrphan, ErrOrphan, OthersOrphan, CrashOrphan DEF Next
<1> QED BY <1>1, <1>2 DEF OrphanInv

\* Whatever requests, failures, crashes and the app interleave with a pass, a
\* gateway rule the janitor deletes as an orphan belongs to no stored rule and to
\* no request that will record it, if no edit overlaps a request that rewrites
\* the same rule.  Without that hypothesis it does not hold.
THEOREM OrphansAreOrphans == Spec /\ []EditsApart => []OrphanOnly
<1>1. OrphanInv => OrphanOnly
  <2> SUFFICES ASSUME OrphanInv, NEW u \in janitor.del \intersect suspects.gw
               PROVE  u \notin Tracked \union Moving
    BY DEF OrphanOnly
  <2>1. u \notin Tracked /\ \A h \in Handlers, f \in RuleIds : task[h].made[f] # u
    BY OrphanTypes DEF OrphansOK
  <2> QED BY <2>1 DEF Moving, InFlight, Awaited
<1> QED BY <1>1, InitOrphan, NextOrphan, PTL DEF Spec

-----------------------------------------------------------------------------
(* A home where no rule is edited.                                          *)

NoEdits == \A h \in Handlers : task[h].kind # "RuleUpdate"

\* A request goes on under its own kind, or is answered.
LEMMA StepsKeepKind ==
  ASSUME TInv, NEW h \in Handlers, Succeed(h) \/ Err(h)
  PROVE  /\ \A k \in Handlers \ {h} : task'[k] = task[k]
         /\ task'[h].kind \in {task[h].kind, "none"}
<1> DEFINE t == task[h]
<1>t. t \in Task /\ Idle.kind = "none"
  BY DEF TInv, TypeOK, Idle, Request
<1>s. \A s \in Task : AfterDelete(s).kind = s.kind /\ AfterWrite(s).kind = s.kind
  BY AfterFields
<1>g. ASSUME NEW n, Goto(h, n), n.kind \in {t.kind, "none"}
      PROVE  /\ \A k \in Handlers \ {h} : task'[k] = task[k]
             /\ task'[h].kind \in {task[h].kind, "none"}
  BY <1>g, GotoFields
<1>1. CASE AnswerError(h) \/ Failed(h) \/ Goto(h, Idle)
  <2>1. CASE Goto(h, Idle)
    BY <2>1, <1>t, <1>g
  <2>2. CASE Goto(h, [t EXCEPT !.pc = "partial"])
    <3>1. [t EXCEPT !.pc = "partial"].kind = t.kind
      BY <1>t DEF Task
    <3> QED BY <3>1, <2>2, <1>g
  <2> QED BY <1>1, <2>1, <2>2 DEF AnswerError, Failed
<1>2. CASE Clear(h)
  <2> DEFINE s == [t EXCEPT !.pc = "delete", !.todo = IdsOf(PausesOf(t.prof))]
  <2>1. s \in Task /\ s.kind = t.kind /\ Goto(h, AfterDelete(s))
    BY <1>2, <1>t, IdsType DEF Clear, Task, Steps, TInv, PausesOf, RulesOf
  <2> HIDE DEF s
  <2> QED BY <2>1, <1>s, <1>g
<1>3. CASE Delete(h)
  <2>1. PICK u \in t.todo : Goto(h, AfterDelete([t EXCEPT !.todo = @ \ {u}]))
    BY <1>3 DEF Delete
  <2>2. [t EXCEPT !.todo = @ \ {u}] \in Task /\ [t EXCEPT !.todo = @ \ {u}].kind = t.kind
    BY <1>t DEF Task
  <2> QED BY <2>1, <2>2, <1>s, <1>g
<1>4. CASE Put(h)
  <2> DEFINE s(i) == [t EXCEPT !.work = @ \ {i}, !.cur = i]
  <2>1. PICK i \in t.work : \/ Goto(h, AfterWrite(s(i)))
                            \/ Goto(h, [s(i) EXCEPT !.pc = "delete", !.todo = {i.rule.gw}])
    BY <1>4 DEF Put
  <2>2. s(i) \in Task /\ s(i).kind = t.kind
    BY <1>t DEF Task
  <2>3. [s(i) EXCEPT !.pc = "delete", !.todo = {i.rule.gw}].kind = t.kind
    BY <2>2 DEF Task
  <2> HIDE DEF s
  <2> QED BY <2>1, <2>2, <2>3, <1>s, <1>g
<1>5. CASE Create(h)
  <2> DEFINE s(u) == [t EXCEPT !.made[t.cur.rid] = u]
  <2>1. PICK u \in GwIds : Goto(h, AfterWrite(s(u)))
    BY <1>5 DEF Create
  <2>2. s(u) \in Task /\ s(u).kind = t.kind
    BY <1>t DEF Task
  <2> HIDE DEF s
  <2> QED BY <2>1, <2>2, <1>s, <1>g
<1>6. CASE Drop(h)
  <2>1. Goto(h, Idle) \/ Goto(h, [t EXCEPT !.pc = "create"])
    BY <1>6 DEF Drop, Answer
  <2>2. [t EXCEPT !.pc = "create"].kind = t.kind
    BY <1>t DEF Task
  <2> QED BY <2>1, <2>2, <1>1, <1>g
<1>7. CASE SaveError(h)
  <2>1. AnswerError(h) \/ Goto(h, [t EXCEPT !.pc = "compensate"])
    BY <1>7 DEF SaveError
  <2>2. [t EXCEPT !.pc = "compensate"].kind = t.kind
    BY <1>t DEF Task
  <2> QED BY <2>1, <2>2, <1>1, <1>g
<1>8. CASE Commit(h) \/ Partial(h) \/ Compensate(h)
  BY <1>8, <1>1 DEF Commit, Partial, Compensate, Answer
<1>9. CASE DeleteError(h) \/ PutError(h) \/ CreateError(h)
  BY <1>9, <1>1 DEF DeleteError, PutError, CreateError
<1> QED BY <1>2, <1>3, <1>4, <1>5, <1>6, <1>7, <1>8, <1>9 DEF Succeed, Err

LEMMA BeginsNoEdit ==
  ASSUME TInv, NoEdits, "RuleUpdate" \notin Kinds, NEW h \in Handlers, Begin(h)
  PROVE  NoEdits'
<1>1. \A n : Start(h, n) /\ n.kind # "RuleUpdate" => NoEdits'
  <2> SUFFICES ASSUME NEW n, Start(h, n), n.kind # "RuleUpdate" PROVE NoEdits'
    OBVIOUS
  <2>1. task'[h] = n /\ \A k \in Handlers \ {h} : task'[k] = task[k]
    BY GotoFields DEF Start, Goto
  <2> QED BY <2>1 DEF NoEdits
<1>2. ~RuleUpdate(h)
  BY DEF RuleUpdate, Free
<1>3. CASE ProfileCreate(h)
  BY <1>3 DEF ProfileCreate, NoEdits
<1>r. ASSUME NEW kind, NEW p, NEW upd, Retarget(h, kind, p, upd), kind # "RuleUpdate"
      PROVE  NoEdits'
  BY <1>1, <1>r DEF Retarget, Request
<1>4. CASE ProfileUpdate(h) \/ Enroll(h)
  BY <1>4, <1>r DEF ProfileUpdate, Enroll
<1>5. CASE RuleCreate(h) \/ Pause(h)
  BY <1>1, <1>5 DEF RuleCreate, Pause, Request
<1>6. CASE RuleDelete(h)
  BY <1>1, <1>6 DEF RuleDelete, Request
<1>7. CASE ProfileDelete(h)
  BY <1>1, <1>7 DEF ProfileDelete, Request
<1>8. CASE Unpause(h) \/ Grant(h)
  BY <1>1, <1>8 DEF Unpause, Grant, Request
<1> QED BY <1>2, <1>3, <1>4, <1>5, <1>6, <1>7, <1>8 DEF Begin

LEMMA NextNoEdits ==
  ASSUME "RuleUpdate" \notin Kinds
  PROVE  TInv /\ NoEdits /\ [Next]_vars => NoEdits'
<1> SUFFICES ASSUME TInv, NoEdits, [Next]_vars PROVE NoEdits'
  OBVIOUS
<1>1. CASE \E h \in Handlers : Begin(h)
  BY <1>1, BeginsNoEdit
<1>2. CASE \E h \in Handlers : Succeed(h) \/ Err(h)
  BY <1>2, StepsKeepKind DEF NoEdits
<1>3. CASE JanitorPlan
  <2>1. \A k \in Handlers : task'[k] = [task[k] EXCEPT !.old = task[k].pc # "idle"]
    BY <1>3 DEF JanitorPlan
  <2> QED BY <2>1 DEF NoEdits, TInv, TypeOK, Task
<1>4. CASE JanitorList \/ JanitorDelete \/ JanitorDrop \/ JanitorError \/ World \/ UNCHANGED vars
  <2>1. task' = task
    BY <1>4 DEF JanitorList, JanitorDelete, JanitorDrop, JanitorError, World, AppDelete,
       AppCreate, Elapse, vars
  <2> QED BY <2>1 DEF NoEdits
<1>5. CASE Crash
  BY <1>5 DEF Crash, NoEdits, Idle, Request
<1> QED BY <1>1, <1>2, <1>3, <1>4, <1>5 DEF Next, JanitorStep

\* Where rules are made, retargeted, paused and deleted but never edited, no
\* hypothesis on what overlaps is left: the second sighting is enough.
THEOREM OrphansWithoutEdits ==
  ASSUME "RuleUpdate" \notin Kinds
  PROVE  Spec => []OrphanOnly
<1>1. Init => TInv /\ NoEdits
  BY InitIds DEF IdInv, Init, NoEdits, Idle, Request
<1>2. TInv /\ NoEdits /\ [Next]_vars => (TInv /\ NoEdits)'
  BY NextType, NextNoEdits
<1>3. NoEdits => EditsApart
  BY DEF NoEdits, EditsApart
<1> QED BY <1>1, <1>2, <1>3, OrphansAreOrphans, PTL DEF Spec

=============================================================================

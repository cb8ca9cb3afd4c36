------------------------------ MODULE RuleSync ------------------------------
(***************************************************************************)
(* The core of Family Time (internal/server): request handlers, the        *)
(* janitor, the store and the UniFi gateway.  A family rule lives twice,   *)
(* as a record in the store and as a traffic rule on the gateway; every    *)
(* handler takes a snapshot of the store, calls the gateway several times  *)
(* and only then updates the store.  Nothing serialises two handlers, or a *)
(* handler and the janitor: one action below is one store access or one    *)
(* gateway call, and they interleave freely.                               *)
(*                                                                         *)
(* Lists of rules and ids are sets here: where the code runs down a list   *)
(* the model takes the members in any order.                               *)
(***************************************************************************)
EXTENDS Naturals, FiniteSets

CONSTANTS
  ProfileIds,   \* ids of the groups ("profiles") a family creates
  Everyone,     \* the id of the virtual profile that covers every device
  RuleIds,      \* ids store.NewID can hand out for family rules
  GwIds,        \* ids the gateway can hand out for traffic rules
  Devices,      \* devices of the home, by MAC address
  AllClients,   \* the target the gateway understands as every device
  Bodies,       \* the contents of a rule: what is blocked, when, enabled or not
  Timed,        \* the contents that are one-time windows
  Handlers,     \* slots for requests that are being served at the same time
  Kinds,        \* the requests and outside events of an instance
  Loaded,       \* the profiles the store's file may hold when the server starts
  MaxFaults,    \* bound on failed calls, failed saves and crashes
  None, Foreign

AllKinds == {"RuleCreate", "RuleUpdate", "RuleDelete", "ProfileCreate",
             "ProfileUpdate", "ProfileDelete", "Enroll", "Pause", "Unpause",
             "Grant", "Janitor", "AppDelete", "AppCreate", "Elapse", "Crash"}

Owners   == ProfileIds \union {Everyone}
Targets  == SUBSET (Devices \union {AllClients})
Groups   == (SUBSET Devices) \union {None}

\* A stored rule.  UnifiRuleIDs always holds exactly one id once the rule is
\* stored, so the list is that id; None until the gateway has answered.
Rule     == [prof : Owners, body : Bodies, pause : BOOLEAN,
             gw : GwIds \union {None}]
\* A traffic rule of this program on the gateway.  A rule the user made in the
\* UniFi app is the opaque Foreign.
GwRule   == [body : Bodies, targets : Targets]
\* A rule a handler is about to write, with the devices it translates to.
Item     == [rid : RuleIds, rule : Rule, targets : Targets]

ASSUME KindsAssumption   == Kinds \subseteq AllKinds
ASSUME OwnersAssumption  == Everyone \notin ProfileIds
ASSUME TargetsAssumption == AllClients \notin Devices
ASSUME TimedAssumption   == Timed \subseteq Bodies
ASSUME FaultsAssumption  == MaxFaults \in Nat
ASSUME NoneAssumption ==
  /\ None \notin Rule
  /\ None \notin GwRule \union {Foreign}
  /\ \A devs \in SUBSET Devices : None # devs
  /\ None \notin GwIds
  /\ None \notin Item
  /\ Foreign \notin GwRule
ASSUME IdsAssumption ==
  /\ ProfileIds \intersect RuleIds = {}
  /\ ProfileIds \intersect GwIds = {}
  /\ RuleIds \intersect GwIds = {}
\* validateProfileInput lets no two profiles share a device.
ASSUME LoadedAssumption ==
  \A ps \in Loaded :
    /\ ps \in [ProfileIds -> Groups]
    /\ \A p, q \in ProfileIds :
         p # q /\ ps[p] # None /\ ps[q] # None => ps[p] \intersect ps[q] = {}

VARIABLES
  profiles,  \* store: profile id -> its devices, or None
  rules,     \* store: rule id -> its record, or None
  gw,        \* gateway: traffic rule id -> its content, Foreign or None
  used,      \* ids handed out so far; an id is never handed out twice
  task,      \* handler slot -> the request it is serving
  suspects,  \* Server.suspects of the janitor
  janitor,   \* the janitor's pass
  elapsed,   \* one-time windows that have ended
  faults,    \* faults so far
  told       \* rules whose last save was answered with an error (ghost)

vars == <<profiles, rules, gw, used, task, suspects, janitor, elapsed,
          faults, told>>

-----------------------------------------------------------------------------
(* Requests.                                                               *)

Retargeting == {"ProfileUpdate", "Enroll"}
Syncing     == Retargeting \union {"RuleUpdate"}
Pausing     == {"Pause", "Grant"}
Creating    == Pausing \union {"RuleCreate"}
Clearing    == Pausing \union {"Unpause"}

Requests == Creating \union Clearing \union Syncing
              \union {"RuleDelete", "ProfileDelete"}
Steps    == {"idle", "clear", "delete", "drop", "put", "create", "commit",
             "compensate", "partial"}

\* What a handler keeps in local variables across its calls: the rule it is at
\* (cur), the gateway ids left to delete (todo), the profiles it will write
\* (upd), the rules left to rewrite on the gateway (work) and the ids of the
\* rules it created there (made).  Two ghosts: the stored rules it answers for
\* (cover), and whether it was running at the janitor's last pass (old).
Task == [kind : Requests \union {"none"}, pc : Steps, prof : Owners,
         cur : Item \union {None}, todo : SUBSET GwIds,
         upd : [ProfileIds -> Groups], work : SUBSET Item,
         made : [RuleIds -> GwIds \union {None}], cover : SUBSET RuleIds,
         old : BOOLEAN]

NoProfiles == [p \in ProfileIds |-> None]
NoneMade   == [f \in RuleIds |-> None]

Request(kind, pc, prof) ==
  [kind |-> kind, pc |-> pc, prof |-> prof, cur |-> None, todo |-> {},
   upd |-> NoProfiles, work |-> {}, made |-> NoneMade, cover |-> {}, old |-> FALSE]

Idle == Request("none", "idle", Everyone)

Free(h, kind) == kind \in Kinds /\ task[h].pc = "idle"

Stored     == {f \in RuleIds : rules[f] # None}
Known      == {p \in ProfileIds : profiles[p] # None} \union {Everyone}
RulesOf(p) == {f \in Stored : rules[f].prof = p}
PausesOf(p) == {f \in RulesOf(p) : rules[f].pause}
IdsOf(F)   == {rules[f].gw : f \in F}
Tracked    == IdsOf(Stored)

\* rules.Translate: the devices a profile's rules act on; a profile with no
\* devices translates to nothing and the request is refused.
TargetsOf(devs, p) == IF p = Everyone THEN {AllClients} ELSE devs[p]

Translate(item) == [body |-> item.rule.body, targets |-> item.targets]

\* Slip: any rule on the gateway passes for one of this program.
AnyRule(u) == gw[u] # None
IsFamilyTime(u) == gw[u] \notin {None, Foreign}
Expired(rule)   == rule.body \in elapsed

\* Slip: a device may be listed anywhere.
AlwaysAssignable(p, devs) == devs \subseteq Devices
\* validateProfileInput: no device of another profile.
Assignable(p, devs) ==
  \A q \in ProfileIds \ {p} : profiles[q] # None => profiles[q] \intersect devs = {}

\* Slip: the rules are rewritten for the devices the profile had.
StaleWork(F, devs) ==
  {[rid |-> f, rule |-> rules[f], targets |-> TargetsOf(profiles, rules[f].prof)] : f \in F}
\* The rules of F with the devices their profiles are about to have.
WorkOf(F, devs) ==
  {[rid |-> f, rule |-> rules[f], targets |-> TargetsOf(devs, rules[f].prof)] : f \in F}

Start(h, t) ==
  /\ task' = [task EXCEPT ![h] = t]
  /\ UNCHANGED <<profiles, rules, gw, suspects, janitor, elapsed, faults, told>>

NewItem(f, p, body, pause) ==
  [rid |-> f, targets |-> TargetsOf(profiles, p),
   rule |-> [prof |-> p, body |-> body, pause |-> pause, gw |-> None]]

\* handleRuleCreate: translate, then create on the gateway first.
RuleCreate(h) ==
  /\ Free(h, "RuleCreate")
  /\ \E p \in Known, b \in Bodies, f \in RuleIds \ used :
       /\ TargetsOf(profiles, p) # {}
       /\ used' = used \union {f}
       /\ Start(h, [Request("RuleCreate", "create", p)
                      EXCEPT !.cur = NewItem(f, p, b, FALSE)])

\* handleRuleUpdate: the new content, on the snapshot's profile and gateway id.
RuleUpdate(h) ==
  /\ Free(h, "RuleUpdate")
  /\ \E f \in Stored, b \in Bodies :
       LET p == rules[f].prof IN
       /\ p \in Known
       /\ TargetsOf(profiles, p) # {}
       /\ Start(h, [Request("RuleUpdate", "put", p) EXCEPT
                      !.work = {[rid |-> f, rule |-> [rules[f] EXCEPT !.body = b],
                                 targets |-> TargetsOf(profiles, p)]},
                      !.cover = {f}])
       /\ UNCHANGED used

\* handleRuleDelete.
RuleDelete(h) ==
  /\ Free(h, "RuleDelete")
  /\ \E f \in Stored :
       /\ Start(h, [Request("RuleDelete", "delete", rules[f].prof) EXCEPT
                      !.cur = [rid |-> f, rule |-> rules[f], targets |-> {}],
                      !.todo = IdsOf({f})])
       /\ UNCHANGED used

\* handleProfileCreate validates inside store.Update: one atomic step.
ProfileCreate(h) ==
  /\ Free(h, "ProfileCreate")
  /\ \E p \in ProfileIds \ used, devs \in SUBSET Devices :
       /\ Assignable(p, devs)
       /\ profiles' = [profiles EXCEPT ![p] = devs]
       /\ used' = used \union {p}
  /\ UNCHANGED <<rules, gw, task, suspects, janitor, elapsed, faults, told>>

\* Slip: the devices may go while rules stay.
KeepsNothing(upd) == TRUE
\* What handleProfileUpdate and handleEnroll refuse: devices gone, rules left.
KeepsADevice(upd) ==
  \A p \in ProfileIds : upd[p] = {} => RulesOf(p) = {}

Retarget(h, kind, p, upd) ==
  LET F == UNION {RulesOf(q) : q \in {q \in ProfileIds : upd[q] # None}} IN
  /\ KeepsADevice(upd)
  /\ Start(h, [Request(kind, IF F = {} THEN "commit" ELSE "put", p) EXCEPT
                 !.upd = upd, !.work = WorkOf(F, upd), !.cover = F])
  /\ UNCHANGED used

\* handleProfileUpdate: every check reads the snapshot.
ProfileUpdate(h) ==
  /\ Free(h, "ProfileUpdate")
  /\ \E p \in Known \ {Everyone}, devs \in SUBSET Devices :
       /\ Assignable(p, devs)
       /\ Retarget(h, "ProfileUpdate", p, [NoProfiles EXCEPT ![p] = devs])

\* handleEnroll: the calling device m moves to group p, out of one group (if
\* any) that the snapshot has it in.
OwnersOf(m) == {q \in Known \ {Everyone} : m \in profiles[q]}

Moved(m, p, from) ==
  [q \in ProfileIds |-> IF q = p THEN profiles[q] \union {m}
                        ELSE IF q \in from THEN profiles[q] \ {m} ELSE None]

Enroll(h) ==
  /\ Free(h, "Enroll")
  /\ \E p \in Known \ {Everyone}, m \in Devices :
       LET others == OwnersOf(m) \ {p} IN
       \E from \in IF others = {} THEN {{}} ELSE {{q} : q \in others} :
         Retarget(h, "Enroll", p, Moved(m, p, from))

\* handleProfileDelete.
ProfileDelete(h) ==
  /\ Free(h, "ProfileDelete")
  /\ \E p \in Known \ {Everyone} :
       LET ids == IdsOf(RulesOf(p)) IN
       /\ Start(h, [Request("ProfileDelete", IF ids = {} THEN "drop" ELSE "delete", p)
                      EXCEPT !.todo = ids])
       /\ UNCHANGED used

\* handlePause: a window that has not ended, or one with no end.
Pause(h) ==
  /\ Free(h, "Pause")
  /\ \E p \in Known, b \in Bodies \ elapsed, f \in RuleIds \ used :
       /\ used' = used \union {f}
       /\ Start(h, [Request("Pause", "clear", p) EXCEPT !.cur = NewItem(f, p, b, TRUE)])

\* handleUnpause checks nothing.
Unpause(h) ==
  /\ Free(h, "Unpause")
  /\ \E p \in Owners : Start(h, Request("Unpause", "clear", p))
  /\ UNCHANGED used

\* handlePauseDelay: a grant that outlasts the pause lifts it (no cur), a
\* shorter one replaces it by a window, translated before anything is touched.
Grant(h) ==
  /\ Free(h, "Grant")
  /\ \E p \in Known :
       /\ PausesOf(p) # {}
       /\ \/ /\ Start(h, Request("Grant", "clear", p))
             /\ UNCHANGED used
          \/ \E b \in Timed \ elapsed, f \in RuleIds \ used :
               /\ TargetsOf(profiles, p) # {}
               /\ used' = used \union {f}
               /\ Start(h, [Request("Grant", "clear", p)
                              EXCEPT !.cur = NewItem(f, p, b, TRUE)])

-----------------------------------------------------------------------------
(* The steps of a request.                                                 *)

Goto(h, t) == task' = [task EXCEPT ![h] = t]

Fault ==
  /\ faults < MaxFaults
  /\ faults' = faults + 1

\* The request is answered: with success, or with an error the caller sees.
Answer(h) ==
  /\ Goto(h, Idle)
  /\ told' = told \ task[h].cover
AnswerError(h) ==
  /\ Goto(h, Idle)
  /\ told' = told \union task[h].cover

\* A gateway call failed: retargeting still persists what was asked for,
\* everything else just answers.
Failed(h) ==
  IF task[h].kind \in Retargeting
  THEN Goto(h, [task[h] EXCEPT !.pc = "partial"]) /\ UNCHANGED told
  ELSE AnswerError(h)

AfterDelete(t) ==
  IF t.todo # {} THEN t
  ELSE [t EXCEPT !.pc = IF t.kind \in Syncing THEN "create" ELSE "drop"]

AfterWrite(t) == [t EXCEPT !.pc = IF t.work = {} THEN "commit" ELSE "put"]

\* removePauseRules looks at the store again.
Clear(h) ==
  /\ task[h].pc = "clear"
  /\ Goto(h, AfterDelete([task[h] EXCEPT !.pc = "delete",
                                         !.todo = IdsOf(PausesOf(task[h].prof))]))
  /\ UNCHANGED <<profiles, rules, gw, used, suspects, janitor, elapsed, faults, told>>

Gone(u) == [gw EXCEPT ![u] = None]

\* deleteGatewayRules: one DELETE; an id that is gone already is fine.
Delete(h) ==
  /\ task[h].pc = "delete"
  /\ \E u \in task[h].todo :
       /\ gw' = Gone(u)
       /\ Goto(h, AfterDelete([task[h] EXCEPT !.todo = @ \ {u}]))
  /\ UNCHANGED <<profiles, rules, used, suspects, janitor, elapsed, faults, told>>

\* The DELETE fails, or its answer is lost.
DeleteError(h) ==
  /\ task[h].pc = "delete"
  /\ Fault
  /\ \E u \in task[h].todo : gw' \in {gw, Gone(u)}
  /\ Failed(h)
  /\ UNCHANGED <<profiles, rules, used, suspects, janitor, elapsed>>

\* The rules of a device's old group come before those of its new one.
InTurn(t, item) ==
  item.rule.prof = t.prof => \A i \in t.work : i.rule.prof = t.prof

\* UpdateTrafficRule on a rule that is there, and on one that is not: then the
\* stale id is deleted and the rule created anew.
Put(h) ==
  /\ task[h].pc = "put"
  /\ \E item \in task[h].work :
       LET u == item.rule.gw
           t == [task[h] EXCEPT !.work = @ \ {item}, !.cur = item] IN
       /\ InTurn(task[h], item)
       /\ \/ /\ gw[u] # None
             /\ gw' = [gw EXCEPT ![u] = Translate(item)]
             /\ Goto(h, AfterWrite(t))
          \/ /\ gw[u] = None
             /\ Goto(h, [t EXCEPT !.pc = "delete", !.todo = {u}])
             /\ UNCHANGED gw
  /\ UNCHANGED <<profiles, rules, used, suspects, janitor, elapsed, faults, told>>

PutError(h) ==
  /\ task[h].pc = "put"
  /\ Fault
  /\ \E item \in task[h].work :
       LET u == item.rule.gw IN
       /\ InTurn(task[h], item)
       /\ \/ UNCHANGED gw
          \/ gw[u] # None /\ gw' = [gw EXCEPT ![u] = Translate(item)]
  /\ Failed(h)
  /\ UNCHANGED <<profiles, rules, used, suspects, janitor, elapsed>>

\* CreateTrafficRule.
Create(h) ==
  /\ task[h].pc = "create"
  /\ \E u \in GwIds \ used :
       /\ gw' = [gw EXCEPT ![u] = Translate(task[h].cur)]
       /\ used' = used \union {u}
       /\ Goto(h, AfterWrite([task[h] EXCEPT !.made[task[h].cur.rid] = u]))
  /\ UNCHANGED <<profiles, rules, suspects, janitor, elapsed, faults, told>>

\* The POST fails, or the rule is created and the answer lost.  A gateway that
\* has handed out all of GwIds refuses (the bound on ids).
CreateError(h) ==
  /\ task[h].pc = "create"
  /\ \/ Fault /\ UNCHANGED <<gw, used>>
     \/ GwIds \subseteq used /\ UNCHANGED <<gw, used, faults>>
     \/ /\ Fault
        /\ \E u \in GwIds \ used :
             /\ gw' = [gw EXCEPT ![u] = Translate(task[h].cur)]
             /\ used' = used \union {u}
  /\ Failed(h)
  /\ UNCHANGED <<profiles, rules, suspects, janitor, elapsed>>

Forget(F) == [f \in RuleIds |-> IF f \in F THEN None ELSE rules[f]]

\* Slips: the profile goes without its rules; the old pause stays.
LeaveRules(t) == IF t.kind = "ProfileDelete" THEN {}
                 ELSE IF t.kind = "RuleDelete" THEN {t.cur.rid} ELSE PausesOf(t.prof)
LeavePauses(t) == CASE t.kind = "RuleDelete"    -> {t.cur.rid}
                    [] t.kind = "ProfileDelete" -> RulesOf(t.prof)
                    [] OTHER                    -> {}
\* What the store forgets once the gateway has: chosen when the update runs.
Doomed(t) == CASE t.kind = "RuleDelete"    -> {t.cur.rid}
               [] t.kind = "ProfileDelete" -> RulesOf(t.prof)
               [] OTHER                    -> PausesOf(t.prof)

\* The store.Update of handleRuleDelete, handleProfileDelete, removePauseRules.
\* A pause then goes on to its new rule.  handlePause translates it only now and
\* may be refused, with the old pause gone: no devices, or a window that starts
\* and ends in the same minute of the clock.
Refused(t) == t.kind = "Pause" /\ (t.cur.targets = {} \/ t.cur.rule.body \in Timed)

Drop(h) ==
  LET t == task[h] IN
  /\ t.pc = "drop"
  /\ rules' = Forget(Doomed(t))
  /\ profiles' = IF t.kind = "ProfileDelete"
                 THEN [profiles EXCEPT ![t.prof] = None] ELSE profiles
  /\ \/ /\ t.kind \in Pausing /\ t.cur # None /\ t.cur.targets # {}
        /\ Goto(h, [t EXCEPT !.pc = "create"])
        /\ UNCHANGED told
     \/ /\ t.kind \notin Pausing \/ t.cur = None \/ Refused(t)
        /\ Answer(h)
  /\ UNCHANGED <<gw, used, suspects, janitor, elapsed, faults>>

\* Slips: the new gateway id is not recorded, at all or by an edit.
Unrecorded(t) == t.cur.rule
EditUnrecorded(t) ==
  IF t.kind \in Creating THEN [t.cur.rule EXCEPT !.gw = t.made[t.cur.rid]] ELSE t.cur.rule
\* The rule as the store will hold it, with the id the gateway gave it.
Written(t) ==
  [t.cur.rule EXCEPT !.gw = IF t.made[t.cur.rid] = None THEN @ ELSE t.made[t.cur.rid]]

\* Slip: the recreated id goes to every rule of the request.
PersistedToAll(t) ==
  LET ids == {t.made[f] : f \in RuleIds} \ {None} IN
  [f \in RuleIds |-> IF f \in Stored \intersect t.cover /\ ids # {}
                     THEN [rules[f] EXCEPT !.gw = CHOOSE u \in ids : TRUE] ELSE rules[f]]
\* persistProfilesAndRuleIDs: only what the store still holds is overwritten.
Persisted(t) ==
  [f \in RuleIds |-> IF f \in Stored /\ t.made[f] # None
                     THEN [rules[f] EXCEPT !.gw = t.made[f]] ELSE rules[f]]
PersistedProfiles(t) ==
  [p \in ProfileIds |-> IF profiles[p] # None /\ t.upd[p] # None
                        THEN t.upd[p] ELSE profiles[p]]

\* Slip: an edit writes its rule back whether it is still stored or not.
Upserted(t) ==
  IF t.kind \in Retargeting THEN Persisted(t)
  ELSE [rules EXCEPT ![t.cur.rid] = Written(t)]
\* The rules after the update that ends request t.
Committed(t) ==
  IF t.kind \in Retargeting THEN Persisted(t)
  ELSE IF t.kind \in Creating \/ t.cur.rid \in Stored
       THEN [rules EXCEPT ![t.cur.rid] = Written(t)] ELSE rules

\* The store.Update that ends a create, an edit or a retargeting.
Commit(h) ==
  /\ task[h].pc = "commit"
  /\ rules' = Committed(task[h])
  /\ profiles' = PersistedProfiles(task[h])
  /\ Answer(h)
  /\ UNCHANGED <<gw, used, suspects, janitor, elapsed, faults>>

\* persistPartialProfileUpdate, persistPartialEnroll; the caller is told.
Partial(h) ==
  /\ task[h].pc = "partial"
  /\ rules' = Persisted(task[h])
  /\ profiles' = PersistedProfiles(task[h])
  /\ AnswerError(h)
  /\ UNCHANGED <<gw, used, suspects, janitor, elapsed, faults>>

\* The file could not be written: the update has no effect.  A created rule
\* is taken back from the gateway.
SaveError(h) ==
  /\ task[h].pc \in {"drop", "commit", "partial"}
  /\ Fault
  /\ IF task[h].pc = "commit" /\ task[h].kind \in Creating
     THEN Goto(h, [task[h] EXCEPT !.pc = "compensate"]) /\ UNCHANGED told
     ELSE AnswerError(h)
  /\ UNCHANGED <<profiles, rules, gw, used, suspects, janitor, elapsed>>

\* The compensating DELETE; when it fails the rule is left to the janitor.
Compensate(h) ==
  /\ task[h].pc = "compensate"
  /\ \/ gw' = Gone(task[h].made[task[h].cur.rid]) /\ UNCHANGED faults
     \/ Fault /\ UNCHANGED gw
  /\ AnswerError(h)
  /\ UNCHANGED <<profiles, rules, used, suspects, janitor, elapsed>>

-----------------------------------------------------------------------------
(* The janitor (CleanupOnce).                                              *)

Resting == [pc |-> "rest", on |-> {}, fam |-> {}, del |-> {}, drop |-> {}]
NoSuspects == [meta |-> {}, gw |-> {}]

\* Gateway ids a request has created and will put in the store.
Awaited(t) == {f \in RuleIds : t.made[f] # None /\ (t.kind \in Creating \/ f \in Stored)}
InFlight(t) ==
  IF t.pc \in {"put", "delete", "create", "commit", "partial"}
  THEN {t.made[f] : f \in Awaited(t)} ELSE {}
Moving == UNION {InFlight(task[h]) : h \in Handlers}

\* Passes are five minutes apart: a request that runs when one pass looks at the
\* store has been answered when the next one starts.
ShortRequests == \A h \in Handlers : ~task[h].old

\* Not so in general: no edit or move of rules runs during a pass.
PassesApart == janitor.pc # "rest" => \A h \in Handlers : task[h].kind \notin Syncing

JanitorList ==
  /\ "Janitor" \in Kinds
  /\ janitor.pc = "rest"
  /\ ShortRequests
  /\ janitor' = [Resting EXCEPT !.pc = "plan",
                                !.on = {u \in GwIds : gw[u] # None},
                                !.fam = {u \in GwIds : IsFamilyTime(u)}]
  /\ UNCHANGED <<profiles, rules, gw, used, task, suspects, elapsed, faults, told>>

\* Slips: nothing is spent; the tests of the two listings are inverted; one
\* sighting is enough.
NeverSpent == {}
StillThere == {f \in Stored : rules[f].gw \in janitor.on}
Listed     == janitor.fam \intersect Tracked
AtOnce(now, before) == now
\* The snapshot, after the listing: what is spent, what is gone, what nobody
\* tracks.  The last two wait for the second sighting in a row.
Spent     == {f \in Stored : Expired(rules[f])}
Vanished  == {f \in Stored \ Spent : rules[f].gw \notin janitor.on}
Untracked == janitor.fam \ Tracked
Again(now, before) == now \intersect before

JanitorPlan ==
  /\ janitor.pc = "plan"
  /\ LET del  == IdsOf(Spent) \union Again(Untracked, suspects.gw)
         drop == Spent \union Again(Vanished, suspects.meta)
     IN  janitor' = IF del # {} THEN [janitor EXCEPT !.pc = "delete", !.del = del, !.drop = drop]
                    ELSE IF drop # {} THEN [janitor EXCEPT !.pc = "drop", !.drop = drop]
                    ELSE Resting
  /\ suspects' = [meta |-> Vanished, gw |-> Untracked]
  /\ task' = [h \in Handlers |-> [task[h] EXCEPT !.old = task[h].pc # "idle"]]
  /\ UNCHANGED <<profiles, rules, gw, used, elapsed, faults, told>>

JanitorDelete ==
  /\ janitor.pc = "delete"
  /\ \E u \in janitor.del :
       /\ gw' = Gone(u)
       /\ janitor' = IF janitor.del # {u} THEN [janitor EXCEPT !.del = @ \ {u}]
                     ELSE IF janitor.drop # {} THEN [janitor EXCEPT !.del = {}, !.pc = "drop"]
                     ELSE Resting
  /\ UNCHANGED <<profiles, rules, used, task, suspects, elapsed, faults, told>>

JanitorDrop ==
  /\ janitor.pc = "drop"
  /\ rules' = Forget(janitor.drop)
  /\ janitor' = Resting
  /\ UNCHANGED <<profiles, gw, used, task, suspects, elapsed, faults, told>>

\* A DELETE of the pass, or its save, fails: the pass ends, the next retries.
JanitorError ==
  /\ janitor.pc \in {"delete", "drop"}
  /\ Fault
  /\ \/ UNCHANGED gw
     \/ janitor.pc = "delete" /\ \E u \in janitor.del : gw' = Gone(u)
  /\ janitor' = Resting
  /\ UNCHANGED <<profiles, rules, used, task, suspects, elapsed, told>>

-----------------------------------------------------------------------------
(* The world around the server.                                            *)

\* A parent deletes a rule in the UniFi app, or makes one.
AppDelete ==
  /\ "AppDelete" \in Kinds
  /\ \E u \in GwIds : gw[u] # None /\ gw' = Gone(u)
  /\ UNCHANGED <<profiles, rules, used, task, suspects, janitor, elapsed, faults, told>>

AppCreate ==
  /\ "AppCreate" \in Kinds
  /\ \E u \in GwIds \ used :
       /\ gw' = [gw EXCEPT ![u] = Foreign]
       /\ used' = used \union {u}
  /\ UNCHANGED <<profiles, rules, task, suspects, janitor, elapsed, faults, told>>

\* A one-time window ends.
Elapse ==
  /\ "Elapse" \in Kinds
  /\ \E b \in Timed \ elapsed : elapsed' = elapsed \union {b}
  /\ UNCHANGED <<profiles, rules, gw, used, task, suspects, janitor, faults, told>>

\* The process dies and starts again: the file survives, nothing else.
Crash ==
  /\ "Crash" \in Kinds
  /\ Fault
  /\ task' = [h \in Handlers |-> Idle]
  /\ told' = told \union UNION {task[h].cover : h \in Handlers}
  /\ janitor' = Resting
  /\ suspects' = NoSuspects
  /\ UNCHANGED <<profiles, rules, gw, used, elapsed>>

-----------------------------------------------------------------------------
Init ==
  /\ profiles \in Loaded
  /\ rules = [f \in RuleIds |-> None]
  /\ gw = [u \in GwIds |-> None]
  /\ used = {p \in ProfileIds : profiles[p] # None}
  /\ task = [h \in Handlers |-> Idle]
  /\ suspects = NoSuspects
  /\ janitor = Resting
  /\ elapsed = {}
  /\ faults = 0
  /\ told = {}

Begin(h) ==
  \/ RuleCreate(h) \/ RuleUpdate(h) \/ RuleDelete(h)
  \/ ProfileCreate(h) \/ ProfileUpdate(h) \/ ProfileDelete(h) \/ Enroll(h)
  \/ Pause(h) \/ Unpause(h) \/ Grant(h)

Succeed(h) ==
  \/ Clear(h) \/ Delete(h) \/ Put(h) \/ Create(h)
  \/ Drop(h) \/ Commit(h) \/ Partial(h) \/ Compensate(h)

Err(h) == DeleteError(h) \/ PutError(h) \/ CreateError(h) \/ SaveError(h)

JanitorStep == JanitorList \/ JanitorPlan \/ JanitorDelete \/ JanitorDrop

World == AppDelete \/ AppCreate \/ Elapse

Next ==
  \/ \E h \in Handlers : Begin(h) \/ Succeed(h) \/ Err(h)
  \/ JanitorStep \/ JanitorError \/ World \/ Crash

Spec == Init /\ [][Next]_vars

-----------------------------------------------------------------------------
(* What the steps leave invariant, whatever is interleaved.                *)

JanitorState == [pc : {"rest", "plan", "delete", "drop"},
                 on : SUBSET GwIds, fam : SUBSET GwIds,
                 del : SUBSET GwIds, drop : SUBSET RuleIds]

\* Every variable holds a value of its type; the store holds no rule without a
\* gateway id.
TypeOK ==
  /\ profiles \in [ProfileIds -> Groups]
  /\ rules \in [RuleIds -> Rule \union {None}]
  /\ \A f \in Stored : rules[f].gw \in GwIds
  /\ gw \in [GwIds -> GwRule \union {Foreign, None}]
  /\ used \subseteq ProfileIds \union RuleIds \union GwIds
  /\ task \in [Handlers -> Task]
  /\ suspects \in [meta : SUBSET RuleIds, gw : SUBSET GwIds]
  /\ janitor \in JanitorState
  /\ elapsed \subseteq Timed
  /\ faults \in 0 .. MaxFaults
  /\ told \subseteq RuleIds

\* "Foreign rules are never touched": a rule the user made in the UniFi app is
\* changed or deleted by nobody but that app, although handlers and janitor
\* delete and overwrite by id, from snapshots and listings that may be stale.
ForeignUntouched ==
  [][\A u \in GwIds : gw[u] = Foreign /\ gw'[u] # Foreign => AppDelete]_vars

\* No two family rules share a gateway rule, whichever whole-record overwrites
\* and recreated ids of stale snapshots have raced.
OneRulePerGatewayId ==
  \A f, g \in Stored : rules[f].gw = rules[g].gw => f = g

\* A gateway rule the janitor deletes as an orphan belongs to no stored rule and
\* to no write in flight ("an in-flight write can never be mistaken for an
\* orphan"), although it decides on a listing older than its snapshot.
OrphanOnly ==
  \A u \in janitor.del \intersect suspects.gw :
    gw[u] # None => u \notin Tracked \union Moving

\* A rule or a profile that was deleted never comes back: a late commit of a
\* request with a stale snapshot only overwrites what is still there.
NoResurrection ==
  [][/\ \A f \in RuleIds : rules[f] = None /\ rules'[f] # None =>
          \E h \in Handlers : /\ task[h].pc = "commit" /\ task[h].kind \in Creating
                              /\ task[h].cur.rid = f
     /\ \A p \in ProfileIds : profiles[p] = None /\ profiles'[p] # None => p \notin used]_vars

-----------------------------------------------------------------------------
(* What holds while requests are served one at a time.                     *)

\* "Tapping Pause twice must not stack rules."
OnePause == \A p \in Owners : Cardinality(PausesOf(p)) <= 1

\* A device is assigned to one profile at most.
OneProfilePerDevice ==
  \A p, q \in ProfileIds :
    p # q /\ profiles[p] # None /\ profiles[q] # None => profiles[p] \intersect profiles[q] = {}

\* Nothing keeps enforcing for a profile that was deleted: no stored rule is
\* left without its profile.
RulesHaveProfile == \A f \in Stored : rules[f].prof \in Known

\* "Never leave a profile with rules but zero devices."
RulesHaveDevices ==
  \A f \in Stored : rules[f].prof \in Known => TargetsOf(profiles, rules[f].prof) # {}

Quiet == \A h \in Handlers : task[h].pc = "idle"

\* The gateway enforces what the store says: between requests, a stored rule
\* whose gateway rule exists has its content and its profile's devices there,
\* unless the last save of that rule was answered with an error.  In
\* particular saving again, after an error, converges.
InSync ==
  Quiet => \A f \in Stored \ told :
    gw[rules[f].gw] # None /\ rules[f].prof \in Known =>
      gw[rules[f].gw] = [body |-> rules[f].body,
                         targets |-> TargetsOf(profiles, rules[f].prof)]

\* While nothing fails, and while no edit and no move of rules falls into a pass
\* of the janitor (PassesApart), a finished request leaves no rule enforcing on
\* the gateway that the store does not know.  With an edit during a pass it may:
\* the pass then forgets a record whose traffic rule the edit has recreated
\* (ForgetsOnlyVanished).
NothingLeftBehind ==
  faults = 0 /\ Quiet => \A u \in GwIds : IsFamilyTime(u) => u \in Tracked

-----------------------------------------------------------------------------
(* What eventually happens.  Every gateway call is answered or times out,  *)
(* and RunJanitor starts a pass at every tick.                             *)

Fairness ==
  /\ WF_vars(JanitorStep)
  /\ \A h \in Handlers : WF_vars(Succeed(h) \/ Err(h))

FairSpec == Spec /\ Fairness

\* A rule of this program the store does not know (left by a crash, a lost
\* answer, a failed compensation) does not enforce forever.
OrphansGo ==
  \A u \in GwIds : IsFamilyTime(u) /\ u \notin Tracked
                    ~> gw[u] = None \/ u \in Tracked

\* A stored rule that nothing enforces (deleted in the UniFi app) is forgotten
\* or enforced again: the list of rules does not lie forever.
VanishedGo ==
  \A f \in RuleIds : f \in Stored /\ gw[rules[f].gw] = None
                      ~> f \notin Stored \/ gw[rules[f].gw] # None

\* A spent one-time rule does not stay.
SpentGo ==
  \A f \in RuleIds : f \in Stored /\ Expired(rules[f])
                      ~> f \notin Stored \/ ~Expired(rules[f])

-----------------------------------------------------------------------------
(* What comments of the code say, and interleaved requests refute.         *)

\* "Cases 2 and 3 act only on the second consecutive sighting so an in-flight
\* write can't be mistaken for drift": a rule the janitor forgets as vanished is
\* not on the gateway.
ForgetsOnlyVanished ==
  janitor.pc = "drop" =>
    \A f \in janitor.drop \intersect Stored : Expired(rules[f]) \/ gw[rules[f].gw] = None

=============================================================================

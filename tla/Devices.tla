------------------------------- MODULE Devices -------------------------------
(***************************************************************************)
(* Which device is in which group and what it is called: the pages of a     *)
(* parent's browser (web/static/js/app.js), the phone that enrolls itself,  *)
(* the handlers behind them (handlers.go, enroll_handlers.go) and the       *)
(* gateway's list of clients.                                               *)
(*                                                                         *)
(* A page works on copies it loaded earlier, and moves a device by up to    *)
(* three saves.  The server checks a save against a snapshot, then changes  *)
(* the gateway's rules, then stores the groups, then pushes names, and may  *)
(* go on with it after the browser gave up waiting.  RuleSync has the rules *)
(* on the gateway; here that stretch is the gap between check and save.     *)
(***************************************************************************)
EXTENDS Listing

CONSTANTS
  Groups,
  Names,      \* names people give to devices
  MaxJobs,    \* bound on the jobs that are started
  MaxFaults,  \* bound on failed or unanswered requests, of any instance
  Mixes,      \* instances: what may happen
  None

Kinds == {"Move", "Save", "Enroll", "Open", "Rename", "Churn", "LostAnswer"}

\* A device without an alias is called by its address.
Labels  == Names \union Devices
\* The devices of a group: their names, None for those that are not in it.
Members == [Devices -> Labels \union {None}]
\* A row of the device list.
Row     == [group : Groups \union {None}, name : Labels]

ASSUME GroupsAssumption == IsFiniteSet(Groups)
ASSUME BoundsAssumption == MaxJobs \in Nat /\ MaxFaults \in Nat
ASSUME NoneAssumption == None \notin Labels \union Groups \union Row \union Members
ASSUME MixesAssumption == Mixes \subseteq [kinds : SUBSET Kinds, jobs : 0..MaxJobs, faults : 0..MaxFaults]

VARIABLES
  groups,  \* store: Profile.Devices
  ruled,   \* the groups that have rules; never changes
  alias,   \* gateway: a client's alias, or None
  page,    \* the browser: its copies of groups (profiles) and devices
  job,     \* what the browser's clicks and the phones have under way
  request, \* the saves the server is serving, or will, of each job
  mix,     \* which instance of Mixes this is; never changes
  started, \* jobs started so far
  faults,  \* faults so far
  owed     \* devices whose stored name the gateway should have (ghost)

network == <<clients, cursor>>
vars == <<network, groups, ruled, alias, page, job, request, mix, started, faults, owed>>

Loads  == {"profiles", "devices"}
Puts   == {"remove", "add", "return", "save"}
Saves  == Puts \union {"enroll"}
Places == {"idle", "load"} \union Saves

\* A job: the device it is about, from where, to where and under which name, the
\* copies it took from the page (old, next: of the two groups; next is also
\* what an edited group is to be), the snapshot of an enrollment or a load of devices,
\* and the loads it waits for.  Ghosts: whether the copies were true and no device
\* was in two groups when it began and no other job has changed a group since
\* (alone), and which of its saves were answered with success, or "late": given up
\* while the server had yet to store them (done).
Nobody  == [d \in Devices |-> None]
IdleJob == [kind |-> "none", pc |-> "idle", device |-> None, from |-> None, to |-> None,
            name |-> None, old |-> Nobody, next |-> Nobody,
            snap |-> [g \in Groups |-> Nobody], todo |-> {}, alone |-> TRUE, done |-> {}]

\* A save in the server: given up but still to arrive ("sent"), checked and at
\* work on the gateway ("save"), stored ("push"); the groups it writes, the names
\* it has yet to push, and whether nobody waits for its answer any more.  Ghost:
\* the devices it gives a name (given).
Request   == [pc : {"none", "sent", "save", "push"}, writes : [Groups -> Members \union {None}],
              names : Members, given : SUBSET Devices, lost : BOOLEAN]
NoRequest == [pc |-> "none", writes |-> [g \in Groups |-> None], names |-> Nobody,
              given |-> {}, lost |-> FALSE]

\* The names and groups a device has: one, unless overlapping requests put it
\* into two groups.
NamesOf(gs, d)  == {gs[g][d] : g \in Groups} \ {None}
HomesOf(gs, d)  == {g \in Groups : gs[g][d] # None}
\* Slip: a device without an alias is shown without a name.
Nameless(d)  == alias[d]
ShownName(d) == IF alias[d] = None THEN d ELSE alias[d]

\* The group each device is shown in: handleDevices takes the last one it finds.
Placings(gs) ==
  {place \in [Devices -> Groups \union {None}] :
     \A d \in Devices : IF HomesOf(gs, d) = {} THEN place[d] = None
                                              ELSE place[d] \in HomesOf(gs, d)}

\* handleDevices: a connected device under the gateway's name, an assigned one
\* that is not connected under the stored name; others are not shown.
Shown(snap, place, live) ==
  [d \in Devices |->
     IF d \in live THEN [group |-> place[d], name |-> ShownName(d)]
     ELSE IF place[d] # None THEN [group |-> place[d], name |-> snap[place[d]][d]] ELSE None]

\* Whether the page shows what is in the store.
Fresh ==
  /\ page.profiles = groups
  /\ \E place \in Placings(groups) :
       \A d \in Devices : page.devices[d] # None => page.devices[d].group = place[d]

\* Each device is in one group at most.
Parted ==
  \A d \in Devices, g, o \in Groups : groups[g][d] # None /\ groups[o][d] # None => g = o

\* A slot of Callers is free when the server is done with its saves too.
Start(j, kind, locals) ==
  /\ kind \in mix.kinds
  /\ job[j].pc = "idle"
  /\ \A w \in Saves : request[j][w] = NoRequest
  /\ started < mix.jobs
  /\ started' = started + 1
  /\ job' = [job EXCEPT ![j] = [locals EXCEPT !.kind = kind]]

Fault == faults < mix.faults /\ faults' = faults + 1

\* The next place of a job; one that has nothing left to load is over.
AtPlace(t, pc, todo) ==
  IF pc = "load" /\ todo = {} THEN IdleJob ELSE [t EXCEPT !.pc = pc, !.todo = todo]
\* Other jobs are no longer alone when the groups change.
Moved(j, t) ==
  job' = [i \in Callers |-> IF i = j THEN t
                            ELSE [job[i] EXCEPT !.alone = @ /\ groups' = groups]]

-----------------------------------------------------------------------------
(* The jobs.                                                                *)

\* Slip: the device is added before it is removed.
AddFirst(from, to) == IF to # None THEN "add" ELSE "remove"
\* reassignDevice: remove before add.
First(from, to) == IF from # None THEN "remove" ELSE "add"

Move(j) ==
  \E d \in Devices, to \in Groups \union {None} :
    LET row == page.devices[d]
    IN  /\ row # None
        /\ to # row.group
        /\ Start(j, "Move",
             [IdleJob EXCEPT !.pc = First(row.group, to), !.device = d, !.name = row.name,
                !.from = row.group, !.to = to, !.alone = Fresh /\ Parted,
                !.old  = IF row.group = None THEN Nobody ELSE page.profiles[row.group],
                !.next = IF to = None THEN Nobody ELSE page.profiles[to]])
        /\ UNCHANGED <<network, groups, ruled, alias, page, request, mix, faults, owed>>

\* The editor removes and renames members, and adds devices the page does not
\* show in another group.
Edits(g) ==
  {m \in Members :
     \A d \in Devices :
       \/ m[d] \in {page.profiles[g][d], None}
       \/ m[d] \in Names /\ page.profiles[g][d] # None
       \/ /\ page.devices[d] # None
          /\ page.devices[d].group \in {None, g}
          /\ m[d] \in Names \union {page.devices[d].name}}

Save(j) ==
  /\ \E g \in Groups : \E m \in Edits(g) :
       Start(j, "Save", [IdleJob EXCEPT !.pc = "save", !.to = g, !.next = m, !.alone = Fresh /\ Parted])
  /\ UNCHANGED <<network, groups, ruled, alias, page, request, mix, faults, owed>>

\* goGroups and loadCore: the page loads its copies.
Open(j) ==
  /\ Start(j, "Open", [IdleJob EXCEPT !.pc = "load", !.todo = Loads])
  /\ UNCHANGED <<network, groups, ruled, alias, page, request, mix, faults, owed>>

\* The head of handleEnroll, for the device that asks and the name it typed.
Enroll(j) ==
  /\ \E d \in Devices, to \in Groups, n \in Names \union {None} :
       Start(j, "Enroll", [IdleJob EXCEPT !.pc = "enroll", !.device = d, !.to = to,
                                          !.name = n, !.snap = groups])
  /\ StartListing(j)
  /\ UNCHANGED <<clients, groups, ruled, alias, page, request, mix, faults, owed>>

-----------------------------------------------------------------------------
(* A save of a group, handleProfileUpdate: checked, stored, pushed, answered. *)

PutGroup(t)   == IF t.pc \in {"remove", "return"} THEN t.from ELSE t.to
\* What the save asks the group to be.
PutMembers(t) ==
  CASE t.pc = "remove" -> [t.old EXCEPT ![t.device] = None]
    [] t.pc = "add"    -> [t.next EXCEPT ![t.device] = t.name]
    [] t.pc = "return" -> [t.old EXCEPT ![t.device] = t.name]
    [] t.pc = "save"   -> t.next

\* What a save that is to arrive asks for.
Arriving(j, w) == request[j][w].pc = "sent" \/ (job[j].pc = w /\ request[j][w].pc = "none")
Asked(j, w) ==
  IF request[j][w].pc = "sent" THEN request[j][w].writes
  ELSE [g \in Groups |-> IF g = PutGroup(job[j]) THEN PutMembers(job[j]) ELSE None]
Written(writes) == {g \in Groups : writes[g] # None}

\* A page whose groups are newer than its devices adds a device to the group it
\* is in: the request lists it twice.
Twice(t) == t.pc = "add" /\ t.next[t.device] # None
\* validateProfileInput, and the guard for a group with rules.
Acceptable(writes) ==
  \A g \in Written(writes) :
    /\ \A d \in Devices, o \in Groups \ {g} : writes[g][d] # None => groups[o][d] = None
    /\ writes[g] = Nobody => g \notin ruled
Passes(j, w) == Acceptable(Asked(j, w)) /\ ~(request[j][w].pc = "none" /\ Twice(job[j]))

\* Slip: the names are compared with the group that was just written.
NoneRenamed(g, m) == {}
\* Members before and after, under a new name; before is the request's snapshot.
Renamed(g, m) == {d \in Devices : groups[g][d] # None /\ m[d] \notin {None, groups[g][d]}}

\* The place after a save that was answered with success.
AfterSuccess(t) ==
  CASE t.pc = "enroll" -> IdleJob
    [] t.pc = "remove" /\ t.to # None -> AtPlace([t EXCEPT !.done = {"remove"}], "add", {})
    [] OTHER -> AtPlace([t EXCEPT !.done = @ \union {t.pc}], "load", Loads)

\* Slip: the device is not put back.
NotPutBack(t) == AtPlace(t, "load", Loads)
\* The place after a save that failed, or that seemed to: a failed first save
\* loads the devices only, a failed edit or enrollment nothing.
AfterFailure(t) ==
  CASE t.pc = "remove" -> AtPlace(t, "load", {"devices"})
    [] t.pc = "add"    -> IF t.from # None THEN AtPlace(t, "return", {}) ELSE AtPlace(t, "load", Loads)
    [] t.pc = "return" -> AtPlace(t, "load", Loads)
    [] OTHER           -> IdleJob

\* The answer, if somebody waits for it.
Answer(j, w, t) == IF request[j][w].lost \/ request[j][w].pc = "sent" THEN job[j] ELSE t
Becomes(j, w, r) == request' = [request EXCEPT ![j][w] = r]

\* The request arrives; all it does later rests on the snapshot it takes here.
PutChecked(j, w) ==
  LET asked == Asked(j, w)
  IN  /\ Arriving(j, w) /\ Passes(j, w)
      /\ \E g \in Written(asked) :
           Becomes(j, w,
             [request[j][w] EXCEPT !.pc = "save", !.writes = asked,
                !.names = [d \in Devices |-> IF d \in Renamed(g, asked[g]) THEN asked[g][d] ELSE None],
                !.given = {d \in Devices : groups[g][d] # None
                                           /\ asked[g][d] \notin {None, groups[g][d]}}])
      /\ UNCHANGED <<network, groups, ruled, alias, page, job, mix, started, faults, owed>>

PutRefused(j, w) ==
  /\ Arriving(j, w) /\ ~Passes(j, w)
  /\ Becomes(j, w, NoRequest)
  /\ job' = [job EXCEPT ![j] = Answer(j, w, AfterFailure(job[j]))]
  /\ UNCHANGED <<network, groups, ruled, alias, page, mix, started, faults, owed>>

\* The groups once the request is stored: whole groups, as it asked for them.
Stored(writes) == [g \in Groups |-> IF writes[g] = None THEN groups[g] ELSE writes[g]]

\* Another request has yet to push another name for the device.
Crossed(j, w, d) ==
  \E i \in Callers, v \in Saves :
    /\ <<i, v>> # <<j, w>>
    /\ request[i][v].pc = "push"
    /\ request[i][v].names[d] \notin {None, request[j][w].names[d]}
\* The gateway should have the names that were given, until the store has others,
\* or two when overlapping requests put a device into two groups.
Owe(given) ==
  owed' = {d \in Devices :
             /\ Cardinality(NamesOf(groups', d)) = 1
             /\ d \in given \/ (d \in owed /\ NamesOf(groups', d) = NamesOf(groups, d))}

Saved(j, w) ==
  LET r == request[j][w]
  IN  /\ r.pc = "save"
      /\ groups' = Stored(r.writes)
      /\ Becomes(j, w, [r EXCEPT !.pc = "push"])
      /\ Owe({d \in r.given : ~Crossed(j, w, d)})
      /\ Moved(j, job[j])
      /\ UNCHANGED <<network, ruled, alias, page, mix, started, faults>>

\* Nothing is stored; or the gateway fails on a rule of a group and the intent is
\* stored all the same, without pushes (persistPartialProfileUpdate and -Enroll).
SaveFails(j, w) ==
  LET r == request[j][w]
  IN  /\ r.pc = "save"
      /\ Fault
      /\ \/ UNCHANGED groups
         \/ Written(r.writes) \intersect ruled # {} /\ groups' = Stored(r.writes)
      /\ Becomes(j, w, NoRequest)
      /\ Owe({})
      /\ Moved(j, Answer(j, w, AfterFailure(job[j])))
      /\ UNCHANGED <<network, ruled, alias, page, mix, started>>

\* RenameClient for one device; it may fail, and nobody is told.
Push(j, w) ==
  LET r == request[j][w]
  IN  /\ r.pc = "push"
      /\ \E d \in Devices :
           /\ r.names[d] # None
           /\ Becomes(j, w, [r EXCEPT !.names[d] = None])
           /\ \/ alias' = [alias EXCEPT ![d] = r.names[d]] /\ UNCHANGED faults
              \/ Fault /\ UNCHANGED alias
      /\ UNCHANGED <<network, groups, ruled, page, job, mix, started, owed>>

Answered(j, w) ==
  LET r == request[j][w]
  IN  /\ r.pc = "push" /\ r.names = Nobody
      /\ Becomes(j, w, NoRequest)
      /\ job' = [job EXCEPT ![j] = Answer(j, w, AfterSuccess(job[j]))]
      /\ UNCHANGED <<network, groups, ruled, alias, page, mix, started, faults, owed>>

\* The browser or the phone stops waiting: its request never arrives, or does so
\* later, or is served to its end, with or without the calls to the gateway
\* (the server may cancel the request's context).
GivesUp(j, w) ==
  LET r == request[j][w]
  IN  /\ "LostAnswer" \in mix.kinds
      /\ job[j].pc = w
      /\ Fault
      /\ \/ /\ w \in Puts /\ r.pc = "none"
            /\ \/ UNCHANGED request
               \/ /\ ~Twice(job[j])
                  /\ Becomes(j, w, [NoRequest EXCEPT !.pc = "sent", !.writes = Asked(j, w), !.lost = TRUE])
         \/ /\ r.pc \in {"save", "push"}
            /\ \E names \in {r.names, Nobody} :
                 Becomes(j, w, [r EXCEPT !.lost = TRUE, !.names = names])
      /\ LET late == IF request'[j][w].pc \in {"sent", "save"} THEN {"late"} ELSE {}
         IN  job' = [job EXCEPT ![j] = AfterFailure([job[j] EXCEPT !.done = @ \union late])]
      /\ UNCHANGED <<network, groups, ruled, alias, page, mix, started, owed>>

-----------------------------------------------------------------------------
(* The rest of handleEnroll, once ListClients has returned.                 *)

Found(j) == job[j].device \in ToSet(cursor[j].all)
EndListing(j) == cursor' = [cursor EXCEPT ![j] = NoCursor] /\ UNCHANGED clients
Listed(j) ==
  job[j].pc = "enroll" /\ request[j]["enroll"].pc = "none" /\ cursor[j].state = "done"

\* findClientByIP does not find the phone.
EnrollUnknown(j) ==
  /\ Listed(j)
  /\ ~Found(j)
  /\ EndListing(j)
  /\ job' = [job EXCEPT ![j] = IdleJob]
  /\ UNCHANGED <<groups, ruled, alias, page, request, mix, started, faults, owed>>

\* The typed name, or the gateway's.
EnrollName(t) == IF t.name # None THEN t.name ELSE ShownName(t.device)
\* Another group of the device, if any; the code takes the first.
EnrollSources(t) ==
  LET others == {g \in Groups \ {t.to} : t.snap[g][t.device] # None}
  IN  IF others = {} THEN {None} ELSE others
Leaving(t, g)  == [t.snap[g] EXCEPT ![t.device] = None]
EnrollAllowed(t, from) == from \in ruled => Leaving(t, from) # Nobody

\* Both groups as the snapshot had them, with the device moved.
EnrollWrites(t, from) ==
  [g \in Groups |-> CASE g = t.to -> [t.snap[g] EXCEPT ![t.device] = EnrollName(t)]
                      [] g # t.to /\ g = from -> Leaving(t, g)
                      [] OTHER -> None]

EnrollRefused(j) ==
  /\ Listed(j) /\ Found(j)
  /\ \E from \in EnrollSources(job[j]) : ~EnrollAllowed(job[j], from)
  /\ EndListing(j)
  /\ job' = [job EXCEPT ![j] = IdleJob]
  /\ UNCHANGED <<groups, ruled, alias, page, request, mix, started, faults, owed>>

\* From here it goes on as the save of a group does; the name is always pushed.
EnrollChecked(j) ==
  LET t == job[j]
  IN  /\ Listed(j) /\ Found(j)
      /\ \E from \in EnrollSources(t) :
           /\ EnrollAllowed(t, from)
           /\ Becomes(j, "enroll",
                [request[j]["enroll"] EXCEPT
                   !.pc = "save", !.writes = EnrollWrites(t, from), !.given = {t.device},
                   !.names = [Nobody EXCEPT ![t.device] = EnrollName(t)]])
      /\ EndListing(j)
      /\ UNCHANGED <<groups, ruled, alias, page, job, mix, started, faults, owed>>

-----------------------------------------------------------------------------
(* Loading the page: two requests side by side.                             *)

Loaded(j, what) ==
  job' = [job EXCEPT ![j] =
            AtPlace(job[j], "load", job[j].todo \ {what})]

LoadProfiles(j) ==
  /\ job[j].pc = "load" /\ "profiles" \in job[j].todo
  /\ page' = [page EXCEPT !.profiles = groups]
  /\ Loaded(j, "profiles")
  /\ UNCHANGED <<network, groups, ruled, alias, request, mix, started, faults, owed>>

\* handleDevices takes its snapshot before it reads the gateway's list.
LoadDevices(j) ==
  /\ job[j].pc = "load" /\ "devices" \in job[j].todo
  /\ cursor[j].state = "off"
  /\ job' = [job EXCEPT ![j].snap = groups]
  /\ StartListing(j)
  /\ UNCHANGED <<clients, groups, ruled, alias, page, request, mix, started, faults, owed>>

ShowDevices(j) ==
  /\ job[j].pc = "load" /\ cursor[j].state = "done"
  /\ \E place \in Placings(job[j].snap) :
       page' = [page EXCEPT !.devices = Shown(job[j].snap, place, ToSet(cursor[j].all))]
  /\ EndListing(j)
  /\ Loaded(j, "devices")
  /\ UNCHANGED <<groups, ruled, alias, request, mix, started, faults, owed>>

\* A load, or a listing for an enrollment, fails.
LoadFails(j) ==
  /\ Fault
  /\ \/ /\ job[j].pc = "load" /\ "profiles" \in job[j].todo
        /\ Loaded(j, "profiles")
        /\ UNCHANGED network
     \/ /\ cursor[j].state = "on"
        /\ EndListing(j)
        /\ Loaded(j, "devices")
  /\ UNCHANGED <<groups, ruled, alias, page, request, mix, started, owed>>

-----------------------------------------------------------------------------
(* The world, and the whole.                                                *)

AppRename ==
  /\ "Rename" \in mix.kinds
  /\ started < mix.jobs
  /\ started' = started + 1
  /\ \E d \in Devices, n \in Names \union {None} :
       alias' = [alias EXCEPT ![d] = n] /\ owed' = owed \ {d}
  /\ UNCHANGED <<network, groups, ruled, page, job, request, mix, faults>>

Churn ==
  /\ "Churn" \in mix.kinds
  /\ Leave \/ Join
  /\ UNCHANGED <<groups, ruled, alias, page, job, request, mix, started, faults, owed>>

ReadPage(j) ==
  /\ Page(j)
  /\ UNCHANGED <<groups, ruled, alias, page, job, request, mix, started, faults, owed>>

\* Nobody asks for anything any more.
Rest ==
  /\ started = mix.jobs
  /\ \A j \in Callers : job[j].pc = "idle" /\ \A w \in Saves : request[j][w] = NoRequest
  /\ UNCHANGED vars

\* Every device is connected and in at most one group; the page is loaded.
Init ==
  /\ mix \in Mixes
  /\ clients \in SetToSeqs(Devices)
  /\ cursor = [c \in Callers |-> NoCursor]
  /\ alias = [d \in Devices |-> None]
  /\ \E place \in [Devices -> Groups \union {None}] :
       /\ groups = [g \in Groups |-> [d \in Devices |-> IF place[d] = g THEN d ELSE None]]
       /\ page = [profiles |-> groups, devices |-> Shown(groups, place, Devices)]
  /\ ruled \in SUBSET {g \in Groups : groups[g] # Nobody}
  /\ job = [j \in Callers |-> IdleJob]
  /\ request = [j \in Callers |-> [w \in Saves |-> NoRequest]]
  /\ started = 0 /\ faults = 0
  /\ owed = {}

Work(j) ==
  \/ \E w \in Puts : PutChecked(j, w) \/ PutRefused(j, w)
  \/ \E w \in Saves : Saved(j, w) \/ SaveFails(j, w) \/ Push(j, w) \/ Answered(j, w) \/ GivesUp(j, w)
  \/ EnrollUnknown(j) \/ EnrollRefused(j) \/ EnrollChecked(j)
  \/ ReadPage(j) \/ LoadProfiles(j) \/ LoadDevices(j) \/ ShowDevices(j) \/ LoadFails(j)

Next ==
  \/ \E j \in Callers : Move(j) \/ Save(j) \/ Open(j) \/ Enroll(j) \/ Work(j)
  \/ AppRename \/ Churn \/ Rest

Spec == Init /\ [][Next]_vars

-----------------------------------------------------------------------------
(* Properties.                                                              *)

Job == [kind : Kinds \union {"none"}, pc : Places, device : Devices \union {None},
        from : Groups \union {None}, to : Groups \union {None}, name : Labels \union {None},
        old : Members, next : Members, snap : [Groups -> Members], todo : SUBSET Loads,
        alone : BOOLEAN, done : SUBSET (Places \union {"late"})]

\* Every variable holds a value of its type, and no device is connected twice.
TypeOK ==
  /\ clients \in Seq(Devices) /\ IsInjective(clients)
  /\ cursor \in [Callers -> Cursor]
  /\ groups \in [Groups -> Members] /\ ruled \subseteq Groups
  /\ alias \in [Devices -> Labels \union {None}]
  /\ page \in [profiles : [Groups -> Members], devices : [Devices -> Row \union {None}]]
  /\ job \in [Callers -> Job] /\ request \in [Callers -> [Saves -> Request]]
  /\ mix \in Mixes /\ started \in 0..MaxJobs /\ faults \in 0..MaxFaults
  /\ owed \subseteq Devices

Moving(j) == job[j].kind = "Move" /\ job[j].alone

\* A move from a page that is up to date, with each device in one group, nobody
\* else at work and nothing failing, moves the device and nothing else, and the
\* server's guard ("already belongs to") never trips; it is refused only when the
\* device is the last of a group with rules, and then changes nothing.
MoveDoesWhatItSays ==
  \A j \in Callers :
    LET t == job[j]
        left == [t.old EXCEPT ![t.device] = None]
    IN  Moving(j) /\ faults = 0 /\ t.pc = "load" =>
          IF t.from \in ruled /\ left = Nobody
          THEN groups[t.from] = t.old /\ (t.to # None => groups[t.to] = t.next)
          ELSE /\ t.from # None => groups[t.from] = left
               /\ t.to # None => groups[t.to] = [t.next EXCEPT ![t.device] = t.name]

\* A move whose first save was answered with success never leaves the device
\* without a group after one failure ("rather than leaving it stranded"), be it
\* an error, an answer that is lost or a save that ends after the browser gave it
\* up.  The device is then in one of the two groups, and in both only if the
\* server had yet to store a save when the browser gave it up: that save may have
\* been checked before the device was put back and be stored after it.
OneFaultNeverStrands ==
  \A j \in Callers :
    LET t == job[j]
        homes == HomesOf(groups, t.device)
    IN  Moving(j) /\ faults <= 1 /\ t.pc = "load" /\ "remove" \in t.done /\ t.to # None
          => /\ homes # {} /\ homes \subseteq {t.from, t.to}
             /\ homes = {t.from, t.to} => "late" \in t.done

\* "If the first PUT (remove from old) fails, nothing changed on the backend."
FirstFailureChangesNothing ==
  \A j \in Callers :
    LET t == job[j]
    IN  Moving(j) /\ t.from # None /\ t.pc = "load" /\ t.done = {} => groups[t.from] = t.old

\* The name a device was given, by its enrollment or by renaming it as a member,
\* is the gateway's once it is pushed, until it is renamed in the UniFi app or the
\* store has another name for it, whatever pages and phones do beside each other.
\* Left out are names stored while another request had yet to push another name
\* for the device: those pushes cross, and the last one wins.
NamesAgree ==
  faults = 0 =>
    \A d \in owed :
      \/ NamesOf(groups, d) = {alias[d]}
      \/ \E j \in Callers, w \in Saves :
           request[j][w].pc = "push" /\ request[j][w].names[d] \in NamesOf(groups, d)
=============================================================================

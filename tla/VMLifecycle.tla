---------------------------- MODULE VMLifecycle ----------------------------
(***************************************************************************)
(* The libvirt VM manager behind the REST handlers: create, clone, power   *)
(* operations, update and delete of VMs, the quota check and create slots  *)
(* in front of them, and the IP monitor goroutine behind each new VM       *)
(* (internal/vm/lifecycle.go, quota_manager.go, internal/network/nat.go,   *)
(* internal/api/handlers_vm.go).  There is no lock per VM: each operation  *)
(* is a series of store transactions, libvirt calls and file operations    *)
(* that may interleave with any other, fail, or be cut short by a crash.   *)
(*                                                                         *)
(* A VM is known by its ID; its NAT MAC is generated with it and is the    *)
(* same value here.  Of the stored record the model keeps the name, the    *)
(* static NAT address and the lock: the stored state and IP are refreshed  *)
(* from libvirt by every Get and List.  Libvirt is external: a domain name *)
(* is unique, and so are address, MAC and name among host reservations.    *)
(***************************************************************************)
EXTENDS Integers, FiniteSets

CONSTANTS
  IDs,          \* VM IDs (and MACs) that may be generated
  Names,        \* VM names
  Addrs,        \* the DHCP range
  Requests,     \* request goroutines
  NoID, NoName, NoIP,
  MaxVMs,       \* quotas.max_vms
  MaxCreates,   \* daemon.max_concurrent_creates
  MaxOps,       \* bound: operations begun
  MaxCrashes    \* bound: daemon exits

ASSUME QuotaAssumption == MaxVMs \in Nat \ {0} /\ MaxCreates \in Nat \ {0}
ASSUME LimitAssumption == MaxOps \in Nat /\ MaxCrashes \in Nat
ASSUME IdentityAssumption ==
  /\ NoID \notin IDs /\ NoName \notin Names /\ NoIP \notin Addrs
  /\ Requests \cap IDs = {}

VARIABLES
  stored,   \* keys of the vms bucket
  rec,      \* rec[id]: the record under id
  dom,      \* dom[n]: the libvirt domain called n: whose it is, its state
  res,      \* res[a]: the DHCP host reservation of a: MAC and name
  dir,      \* IDs whose VM directory exists
  used,     \* IDs generated so far
  tokens,   \* free create slots
  pc, loc,  \* control state and locals of each goroutine
  causes,   \* <<why, id>>: what was done to id's resources (history)
  ops, crashes

storeVars == <<stored, rec>>
hostVars == <<dom, res, dir>>
countVars == <<used, tokens, ops, crashes>>
vars == <<storeVars, hostVars, countVars, pc, loc, causes>>

\* The IP monitor started for a VM is a goroutine of its own.
Monitors == IDs
Actors == Requests \cup Monitors

\* updated stands for UpdatedAt: every write of the record advances it.
Record == [name : Names \cup {NoName}, ip : Addrs \cup {NoIP}, locked : BOOLEAN, updated : Nat]
NoRecord == [name |-> NoName, ip |-> NoIP, locked |-> FALSE, updated |-> 0]
NoDomain == [id |-> NoID, st |-> "none"]
NoHost == [id |-> NoID, name |-> NoName]

PowerOps == {"start", "stop", "forceStop", "restart", "reboot", "suspend", "resume"}
\* What a patch changes: the lock; disk and CPUs; the address as well.
Patches == {"lock", "resize", "readdress"}

\* op: what the goroutine does; id, vm: the VM and the record in hand, as
\* read or as being built; dom: the owner of the domain it looked up;
\* ip: the address an update or the monitor is after; was: wasRunning.
NoWork == [op |-> "none", id |-> NoID, vm |-> NoRecord, dom |-> NoID, ip |-> NoIP, was |-> FALSE]

\* The order of the steps of Create, Clone and Update.
Then == [create |-> [slot |-> "quota", quota |-> "find", find |-> "byname", byname |-> "add",
                     add |-> "mkdir", mkdir |-> "reap", reap |-> "define", define |-> "boot",
                     boot |-> "put"],
         clone |-> [quota |-> "source", source |-> "mkdir", mkdir |-> "find", find |-> "byname",
                    byname |-> "add", add |-> "define", define |-> "put"],
         resize |-> [updateStop |-> "disk", disk |-> "redefine", redefine |-> "updatePut"],
         readdress |-> [updateStop |-> "disk", disk |-> "oldAddress", oldAddress |-> "newAddress",
                        newAddress |-> "newISO", newISO |-> "redefine", redefine |-> "updatePut"]]

Init ==
  /\ stored = {} /\ rec = [i \in IDs |-> NoRecord]
  /\ dom = [n \in Names |-> NoDomain] /\ res = [a \in Addrs |-> NoHost] /\ dir = {}
  /\ used = {} /\ tokens = MaxCreates
  /\ pc = [x \in Actors |-> "idle"] /\ loc = [x \in Actors |-> NoWork]
  /\ causes = {} /\ ops = 0 /\ crashes = 0

\* ---------------------------------------------------------------- helpers

Goto(x, p) == pc' = [pc EXCEPT ![x] = p]
Proceed(x) == Goto(x, Then[loc[x].op][pc[x]])
Name(x) == loc[x].vm.name
Because(why, ids) == causes' = causes \cup ({why} \X (ids \ {NoID}))

\* A request begins: one of the MaxOps.
Begin(r, p, work) ==
  /\ pc[r] = "idle" /\ ops < MaxOps /\ ops' = ops + 1
  /\ Goto(r, p) /\ loc' = [loc EXCEPT ![r] = work]

\* It returns to its caller; a create gives its slot back.
Return(x) ==
  /\ Goto(x, "idle") /\ loc' = [loc EXCEPT ![x] = NoWork]
  /\ tokens' = IF loc[x].op = "create" /\ pc[x] # "slot" THEN tokens + 1 ELSE tokens

\* A whole record is written back.  What was read may have changed since.
PutVM(x, vm) ==
  /\ stored' = stored \cup {loc[x].id}
  /\ rec' = [rec EXCEPT ![loc[x].id] = [vm EXCEPT !.updated = rec[loc[x].id].updated + 1]]

Overwrites(x) == loc[x].id \notin stored \/ rec[loc[x].id] # loc[x].vm

NameTaken(n) == \E i \in stored : rec[i].name = n
WithinQuota == Cardinality(stored) + 1 <= MaxVMs

\* findAvailableIP: the first address of the range with no lease and no
\* reservation.  Any address may have a lease, so any free one may be first.
Available == {a \in Addrs : res[a] = NoHost}

\* net.Update(ADD): refused when an entry has the address, MAC or name.
CanReserve(a, i, n) == \A b \in Addrs : res[b] = NoHost \/ (b # a /\ res[b].id # i /\ res[b].name # n)

\* A defect to detect: the entry is found by address alone.
UnreserveAnyone(a, i) == IF a # NoIP THEN [res EXCEPT ![a] = NoHost] ELSE res

\* net.Update(DELETE): the entry must have the address and the MAC.
Unreserve(a, i) == IF a # NoIP /\ res[a].id = i THEN [res EXCEPT ![a] = NoHost] ELSE res

\* The domain behind a handle: the handle holds the UUID, not the name.
Handle(x) == dom[Name(x)].id = loc[x].dom /\ loc[x].dom # NoID
SetState(n, s) == dom' = [dom EXCEPT ![n].st = s]
Undefined(n) == [dom EXCEPT ![n] = NoDomain]

\* ------------------------------------------------------- create and clone

\* POST /vms: name and quota are checked against the stored VMs.
CreateVM(r) ==
  \E n \in Names, a \in Addrs \cup {NoIP} :
    /\ ~NameTaken(n) /\ WithinQuota
    /\ Begin(r, "slot", [NoWork EXCEPT !.op = "create", !.vm.name = n, !.vm.ip = a])
    /\ UNCHANGED <<storeVars, hostVars, used, tokens, crashes, causes>>

\* A create slot, or a 429.
AcquireCreateSlot(r) ==
  /\ pc[r] = "slot"
  /\ \/ tokens > 0 /\ tokens' = tokens - 1 /\ Proceed(r) /\ UNCHANGED loc
     \/ tokens = 0 /\ Return(r)
  /\ UNCHANGED <<storeVars, hostVars, used, ops, crashes, causes>>

\* POST /vms/{id}/clone: the name check, and the source read by the quota check.
CloneVM(r) ==
  \E i \in stored, n \in Names :
    /\ ~NameTaken(n)
    /\ Begin(r, "quota", [NoWork EXCEPT !.op = "clone", !.dom = i, !.vm.name = n])
    /\ UNCHANGED <<storeVars, hostVars, used, tokens, crashes, causes>>

\* A defect to detect: only the handler checks the quota.
CheckQuotaNever(r) ==
  /\ pc[r] = "quota"
  /\ \E i \in IDs \ used :
       /\ used' = used \cup {i}
       /\ loc' = [loc EXCEPT ![r].id = i]
       /\ IF loc[r].vm.ip # NoIP THEN Goto(r, "mkdir") /\ Because("static", {i})
          ELSE Proceed(r) /\ Because("clone", IF loc[r].op = "clone" THEN {i} ELSE {})
  /\ UNCHANGED <<storeVars, hostVars, tokens, ops, crashes>>

\* The quota wrapper's check; then Create (or Clone) generates ID and MAC.
\* A create with a static address of its own skips the reservation.
CheckQuota(r) ==
  /\ pc[r] = "quota"
  /\ \/ /\ WithinQuota
        /\ \E i \in IDs \ used :
             /\ used' = used \cup {i}
             /\ loc' = [loc EXCEPT ![r].id = i]
             /\ IF loc[r].vm.ip # NoIP THEN Goto(r, "mkdir") /\ Because("static", {i})
                ELSE Proceed(r) /\ Because("clone", IF loc[r].op = "clone" THEN {i} ELSE {})
        /\ UNCHANGED tokens
     \/ ~WithinQuota /\ Return(r) /\ UNCHANGED <<used, causes>>
  /\ UNCHANGED <<storeVars, hostVars, ops, crashes>>

\* Clone: the source must be stored, its domain defined and not running.
\* The clone takes over the source's spec without the address.
ReadSource(r) ==
  /\ pc[r] = "source"
  /\ LET src == loc[r].dom IN
     \/ /\ src \in stored /\ dom[rec[src].name].st \in {"off", "paused"}
        /\ loc' = [loc EXCEPT ![r].dom = NoID, ![r].vm.locked = rec[src].locked]
        /\ Proceed(r) /\ UNCHANGED tokens
     \/ Return(r)
  /\ UNCHANGED <<storeVars, hostVars, used, ops, crashes, causes>>

\* The range may be exhausted: the VM is then left to DHCP.
FindAvailableIP(r) ==
  /\ pc[r] = "find"
  /\ \/ \E a \in Available : loc' = [loc EXCEPT ![r].ip = a] /\ Proceed(r)
     \/ UNCHANGED loc /\ Goto(r, Then[loc[r].op]["add"])
  /\ UNCHANGED <<storeVars, hostVars, countVars, causes>>

\* Whatever reservation carries the name goes, whoever's it is.
RemoveDHCPHostByName(r) ==
  /\ pc[r] = "byname"
  /\ LET hit == {a \in Addrs : res[a].name = Name(r)} IN
     \/ /\ res' = [a \in Addrs |-> IF a \in hit THEN NoHost ELSE res[a]]
        /\ Because("byname", {res[a].id : a \in hit})
     \/ UNCHANGED <<res, causes>>
  /\ Proceed(r)
  /\ UNCHANGED <<storeVars, dom, dir, countVars, loc>>

\* Refused or failed, the VM is left to DHCP.
AddDHCPHost(r) ==
  /\ pc[r] = "add"
  /\ LET a == loc[r].ip IN
     \/ /\ CanReserve(a, loc[r].id, Name(r))
        /\ res' = [res EXCEPT ![a] = [id |-> loc[r].id, name |-> Name(r)]]
        /\ loc' = [loc EXCEPT ![r].vm.ip = a, ![r].ip = NoIP]
     \/ UNCHANGED res /\ loc' = [loc EXCEPT ![r].ip = NoIP]
  /\ Proceed(r)
  /\ UNCHANGED <<storeVars, dom, dir, countVars, causes>>

\* The VM directory, and in it the disk and the provisioning ISO.  Create's
\* deferred cleanup is installed after the directory is made: if that fails,
\* the reservation stays.
MkdirAll(r) ==
  /\ pc[r] = "mkdir"
  /\ \/ dir' = dir \cup {loc[r].id} /\ (Proceed(r) \/ Goto(r, "undoDom")) /\ UNCHANGED <<loc, tokens, causes>>
     \/ UNCHANGED dir /\ Return(r) /\ Because("mkdir", {loc[r].id})
  /\ UNCHANGED <<storeVars, dom, res, used, ops, crashes>>

\* Create: a domain that still has the name is torn down, if libvirt can.
ReapOrphan(r) ==
  /\ pc[r] = "reap"
  /\ \/ dom' = Undefined(Name(r)) /\ Because("reaped", {dom[Name(r)].id})
     \/ UNCHANGED <<dom, causes>>
  /\ Proceed(r)
  /\ UNCHANGED <<storeVars, res, dir, countVars, loc>>

\* A clone's ISO is made just before: either may fail.
DomainDefineXML(r) ==
  /\ pc[r] = "define"
  /\ \/ /\ dom[Name(r)] = NoDomain
        /\ dom' = [dom EXCEPT ![Name(r)] = [id |-> loc[r].id, st |-> "off"]]
        /\ loc' = [loc EXCEPT ![r].dom = loc[r].id] /\ Proceed(r)
     \/ UNCHANGED <<dom, loc>> /\ Goto(r, "undoDom")
  /\ UNCHANGED <<storeVars, res, dir, countVars, causes>>

BootDomain(r) ==
  /\ pc[r] = "boot"
  /\ \/ Handle(r) /\ dom[Name(r)].st = "off" /\ SetState(Name(r), "running") /\ Proceed(r)
     \/ UNCHANGED dom /\ Goto(r, "undoDom")
  /\ UNCHANGED <<storeVars, res, dir, countVars, loc, causes>>

\* The record is stored last; Create then starts the IP monitor, which acts
\* only on a VM without a static address.
StoreNewVM(r) ==
  /\ pc[r] = "put"
  /\ LET i == loc[r].id
         monitored == loc[r].op = "create" /\ loc[r].vm.ip = NoIP IN
     \/ /\ PutVM(r, loc[r].vm)
        /\ pc' = [pc EXCEPT ![r] = "idle", ![i] = IF monitored THEN "wait" ELSE "idle"]
        /\ loc' = [loc EXCEPT ![r] = NoWork,
                     ![i] = IF monitored THEN [NoWork EXCEPT !.op = "monitor", !.id = i, !.vm = loc[r].vm]
                                         ELSE NoWork]
        /\ tokens' = IF loc[r].op = "create" THEN tokens + 1 ELSE tokens
     \/ Goto(r, "undoDom") /\ UNCHANGED <<storeVars, loc, tokens>>
  /\ UNCHANGED <<hostVars, used, ops, crashes, causes>>

\* The cleanup of a failed create or clone: domain, reservation, directory.
\* Errors of the libvirt calls are ignored.
UndoDomain(r) ==
  /\ pc[r] = "undoDom"
  /\ \/ dom' = (IF Handle(r) THEN Undefined(Name(r)) ELSE dom) /\ UNCHANGED causes
     \/ Handle(r) /\ UNCHANGED dom /\ Because("cleanup", {loc[r].id})
  /\ Goto(r, "undoHost")
  /\ UNCHANGED <<storeVars, res, dir, countVars, loc>>

\* A defect to detect: the cleanup forgets the reservation.
UndoHostKeeps(r) ==
  /\ pc[r] = "undoHost" /\ dir' = dir \ {loc[r].id} /\ Return(r)
  /\ UNCHANGED <<storeVars, dom, res, used, ops, crashes, causes>>

UndoHost(r) ==
  /\ pc[r] = "undoHost"
  /\ \/ res' = Unreserve(loc[r].vm.ip, loc[r].id) /\ UNCHANGED causes
     \/ loc[r].vm.ip # NoIP /\ UNCHANGED res /\ Because("cleanup", {loc[r].id})
  /\ dir' = dir \ {loc[r].id}
  /\ Return(r)
  /\ UNCHANGED <<storeVars, dom, used, ops, crashes>>

\* ------------------------------------------------------- power operations

\* Every operation on an existing VM reads the record and looks the domain
\* up by name; without either it returns an error and changes nothing.
Found(i) == i \in stored /\ dom[rec[i].name] # NoDomain
Work(op, i) == [NoWork EXCEPT !.op = op, !.id = i, !.vm = rec[i], !.dom = dom[rec[i].name].id]

PowerVM(r) ==
  \E i \in stored :
    /\ Found(i) /\ Begin(r, "power", Work("power", i))
    /\ UNCHANGED <<storeVars, hostVars, used, tokens, crashes, causes>>

\* Which operation it is matters first here; until then it is left open.
\* From which states an operation goes ahead, and where it takes the domain.
\* A shutdown request that libvirt accepts leaves the rest to the guest.
PowerEffect ==
  [start     |-> {<<"off", "running">>},
   stop      |-> {e \in {"running", "paused"} \X {"running", "paused", "off"} : e[2] \in {e[1], "off"}},
   forceStop |-> {"running", "paused"} \X {"off"},
   restart   |-> {<<"off", "running">>},
   reboot    |-> {<<"running", "running">>},
   suspend   |-> {<<"running", "paused">>},
   resume    |-> {<<"paused", "running">>}]

PowerDomain(r) ==
  /\ pc[r] = "power"
  /\ LET st == dom[Name(r)].st
         asked == IF loc[r].op = "power" THEN PowerOps ELSE {loc[r].op} IN
     \/ /\ Handle(r)
        /\ \E op \in asked : \E e \in PowerEffect[op] : e[1] = st /\ SetState(Name(r), e[2])
        /\ Goto(r, "powerPut") /\ UNCHANGED <<loc, tokens>>
     \/ \* Restart: shut down, or forced off after the grace period; then started.
        /\ Handle(r) /\ "restart" \in asked /\ st = "running" /\ SetState(Name(r), "off")
        /\ loc' = [loc EXCEPT ![r].op = "start"] /\ UNCHANGED <<pc, tokens>>
     \/ UNCHANGED dom /\ Return(r)
  /\ UNCHANGED <<storeVars, res, dir, used, ops, crashes, causes>>

PowerPut(r) ==
  /\ pc[r] = "powerPut"
  /\ \/ /\ PutVM(r, loc[r].vm)
        /\ IF Overwrites(r) THEN Because("stale", {loc[r].id}) ELSE UNCHANGED causes
     \/ UNCHANGED <<storeVars, causes>>
  /\ Return(r)
  /\ UNCHANGED <<hostVars, used, ops, crashes>>

\* The guest shuts itself down, on request or not.
GuestShutsDown(n) ==
  /\ dom[n].st = "running" /\ SetState(n, "off")
  /\ UNCHANGED <<storeVars, res, dir, countVars, pc, loc, causes>>

\* ------------------------------------------------------------------ update

\* A change of the lock is written at once; any other stops the VM first.
UpdateVM(r) ==
  \E i \in stored, patch \in Patches :
    /\ Found(i)
    /\ LET was == dom[rec[i].name].st = "running"
           meta == patch = "lock"
           start == IF meta THEN "updatePut" ELSE IF was THEN "updateStop" ELSE Then[patch]["updateStop"]
       IN Begin(r, start, [Work(patch, i) EXCEPT !.was = was /\ ~meta])
    /\ UNCHANGED <<storeVars, hostVars, used, tokens, crashes, causes>>

\* Shutdown or Destroy, then at most 75 s until the domain is off.
UpdateStop(r) ==
  /\ pc[r] = "updateStop"
  /\ \/ /\ Handle(r) /\ dom[Name(r)].st # "off" /\ SetState(Name(r), "off")
        /\ Proceed(r) /\ UNCHANGED <<loc, tokens>>
     \/ UNCHANGED dom /\ Return(r)
  /\ UNCHANGED <<storeVars, res, dir, used, ops, crashes, causes>>

\* An update that fails past this point leaves the reservation moved and
\* the record as it was.
Abandoned(r) == Because("update", IF loc[r].op = "readdress" THEN {loc[r].id} ELSE {})

\* qemu-img resize; when it fails the VM is put back as it was.
GrowDisk(r) ==
  /\ pc[r] = "disk"
  /\ \/ loc[r].id \in dir /\ Proceed(r) /\ UNCHANGED <<dom, loc, tokens>>
     \/ /\ IF loc[r].was /\ Handle(r) /\ dom[Name(r)].st = "off"
           THEN dom' \in {dom, [dom EXCEPT ![Name(r)].st = "running"]} ELSE UNCHANGED dom
        /\ Return(r)
  /\ UNCHANGED <<storeVars, res, dir, used, ops, crashes, causes>>

\* Redefined under its UUID; a definition deleted meanwhile comes back.
RedefineDomain(r) ==
  /\ pc[r] = "redefine"
  /\ \/ /\ Handle(r) \/ dom[Name(r)] = NoDomain
        /\ IF Handle(r) THEN UNCHANGED <<dom, causes>>
           ELSE /\ dom' = [dom EXCEPT ![Name(r)] = [id |-> loc[r].dom, st |-> "off"]]
                /\ Because("redefined", {loc[r].dom})
        /\ Proceed(r) /\ UNCHANGED <<loc, tokens>>
     \/ UNCHANGED dom /\ Return(r) /\ Abandoned(r)
  /\ UNCHANGED <<storeVars, res, dir, used, ops, crashes>>

\* The old reservation goes, then the new one is added, then the ISO is made.
DropOldAddress(r) ==
  /\ pc[r] = "oldAddress"
  /\ \/ res' = Unreserve(loc[r].vm.ip, loc[r].id) /\ UNCHANGED causes
     \/ UNCHANGED res /\ Because("cleanup", {loc[r].id})
  /\ Proceed(r)
  /\ UNCHANGED <<storeVars, dom, dir, countVars, loc>>

AddNewAddress(r) ==
  /\ pc[r] = "newAddress"
  /\ \/ \E a \in Addrs \ {loc[r].vm.ip} :
          /\ CanReserve(a, loc[r].id, Name(r))
          /\ res' = [res EXCEPT ![a] = [id |-> loc[r].id, name |-> Name(r)]]
          /\ loc' = [loc EXCEPT ![r].ip = a]
          /\ Proceed(r) /\ UNCHANGED <<tokens, causes>>
     \/ UNCHANGED res /\ Return(r) /\ Abandoned(r)
  /\ UNCHANGED <<storeVars, dom, dir, used, ops, crashes>>

RegenerateISO(r) ==
  /\ pc[r] = "newISO"
  /\ \/ loc[r].id \in dir /\ Proceed(r) /\ UNCHANGED <<loc, tokens, causes>>
     \/ Return(r) /\ Abandoned(r)
  /\ UNCHANGED <<storeVars, hostVars, used, ops, crashes>>

\* The patched copy of the record that was read.
Patched(w) ==
  CASE w.op = "lock" -> [w.vm EXCEPT !.locked = ~@]
    [] w.op = "readdress" -> [w.vm EXCEPT !.ip = w.ip]
    [] OTHER -> w.vm

UpdatePut(r) ==
  /\ pc[r] = "updatePut"
  /\ \/ /\ PutVM(r, Patched(loc[r]))
        /\ IF Overwrites(r) THEN Because("stale", {loc[r].id}) ELSE UNCHANGED causes
        /\ IF loc[r].was THEN Goto(r, "updateBoot") /\ UNCHANGED <<loc, tokens>> ELSE Return(r)
     \/ UNCHANGED storeVars /\ Return(r) /\ Abandoned(r)
  /\ UNCHANGED <<hostVars, used, ops, crashes>>

\* The restart looks the domain up again, by name.
UpdateBoot(r) ==
  /\ pc[r] = "updateBoot"
  /\ IF dom[Name(r)].st = "off" THEN dom' \in {dom, [dom EXCEPT ![Name(r)].st = "running"]}
                                ELSE UNCHANGED dom
  /\ Return(r)
  /\ UNCHANGED <<storeVars, res, dir, used, ops, crashes, causes>>

\* ------------------------------------------------------------------ delete

\* The lock is looked at once, in the copy that is read here.
DeleteVM(r) ==
  \E i \in stored :
    /\ ~rec[i].locked
    /\ Begin(r, "deleteDomain", [NoWork EXCEPT !.op = "delete", !.id = i, !.vm = rec[i]])
    /\ UNCHANGED <<storeVars, hostVars, used, tokens, crashes, causes>>

\* Whatever domain has the name is undefined; a failure is only logged.
DeleteDomain(r) ==
  /\ pc[r] = "deleteDomain"
  /\ LET owner == dom[Name(r)].id IN
     \/ dom' = Undefined(Name(r)) /\ Because("byname", {owner} \ {loc[r].id})
     \/ owner # NoID /\ UNCHANGED dom /\ Because("cleanup", {owner})
  /\ Goto(r, "deleteHost")
  /\ UNCHANGED <<storeVars, res, dir, countVars, loc>>

DeleteHost(r) ==
  /\ pc[r] = "deleteHost"
  /\ \/ res' = Unreserve(loc[r].vm.ip, loc[r].id) /\ UNCHANGED causes
     \/ loc[r].vm.ip # NoIP /\ UNCHANGED res /\ Because("cleanup", {loc[r].id})
  /\ Goto(r, "deleteDir")
  /\ UNCHANGED <<storeVars, dom, dir, countVars, loc>>

DeleteDir(r) ==
  /\ pc[r] = "deleteDir" /\ dir' = dir \ {loc[r].id} /\ Goto(r, "deleteRecord")
  /\ UNCHANGED <<storeVars, dom, res, countVars, loc, causes>>

DeleteRecord(r) ==
  /\ pc[r] = "deleteRecord"
  /\ \/ /\ stored' = stored \ {loc[r].id} /\ rec' = [rec EXCEPT ![loc[r].id] = [NoRecord EXCEPT !.updated = rec[loc[r].id].updated]]
        /\ causes' = causes \cup {<<"deleted", loc[r].id>>}
             \cup (IF Overwrites(r) THEN {<<"stale", loc[r].id>>} ELSE {})
     \/ UNCHANGED storeVars /\ Because("halfDeleted", {loc[r].id})
  /\ Return(r)
  /\ UNCHANGED <<hostVars, used, ops, crashes>>

\* -------------------------------------------------------------- IP monitor

\* DHCP gave the VM an address: the monitor is done.
MonitorSeesIP(i) ==
  /\ pc[i] = "wait" /\ Return(i)
  /\ UNCHANGED <<storeVars, hostVars, used, ops, crashes, causes>>

MonitorTimesOut(i) ==
  /\ pc[i] = "wait"
  /\ \/ \E a \in Available : loc' = [loc EXCEPT ![i].ip = a] /\ Goto(i, "fallback") /\ UNCHANGED tokens
     \/ Return(i)
  /\ UNCHANGED <<storeVars, hostVars, used, ops, crashes, causes>>

MonitorReserves(i) ==
  /\ pc[i] = "fallback"
  /\ LET a == loc[i].ip IN
     \/ /\ CanReserve(a, i, Name(i)) /\ res' = [res EXCEPT ![a] = [id |-> i, name |-> Name(i)]]
        /\ Goto(i, "bounce") /\ UNCHANGED <<loc, tokens>>
     \/ UNCHANGED res /\ Return(i)
  /\ UNCHANGED <<storeVars, dom, dir, used, ops, crashes, causes>>

\* Destroy and Create whatever domain now has the VM's name.
MonitorBounces(i) ==
  /\ pc[i] = "bounce"
  /\ \/ dom[Name(i)] # NoDomain /\ SetState(Name(i), "running") /\ Goto(i, "ping")
        /\ Because("bounced", {dom[Name(i)].id} \ {i}) /\ UNCHANGED <<loc, tokens>>
     \/ /\ dom' \in {dom, [dom EXCEPT ![Name(i)].st = IF @ = "none" THEN @ ELSE "off"]}
        /\ Return(i) /\ Because("monitor", {i})
  /\ UNCHANGED <<storeVars, res, dir, used, ops, crashes>>

\* The address answers: the record is read again, if it is still there.
MonitorPings(i) ==
  /\ pc[i] = "ping"
  /\ \/ i \in stored /\ loc' = [loc EXCEPT ![i].vm = rec[i]] /\ Goto(i, "monitorPut")
        /\ UNCHANGED <<tokens, causes>>
     \/ Return(i) /\ Because("monitor", {i})
  /\ UNCHANGED <<storeVars, hostVars, used, ops, crashes>>

MonitorPuts(i) ==
  /\ pc[i] = "monitorPut"
  /\ \/ /\ PutVM(i, [loc[i].vm EXCEPT !.ip = loc[i].ip])
        /\ IF Overwrites(i) THEN Because("stale", {i}) ELSE UNCHANGED causes
     \/ UNCHANGED storeVars /\ Because("monitor", {i})
  /\ Return(i)
  /\ UNCHANGED <<hostVars, used, ops, crashes>>

\* ------------------------------------------------------------------- crash

\* The daemon dies: bucket, libvirt and directories stay, goroutines do not.
Crash ==
  /\ crashes < MaxCrashes /\ crashes' = crashes + 1
  /\ \E x \in Actors : pc[x] # "idle"
  /\ Because("crash", {loc[x].id : x \in {y \in Actors : pc[y] # "idle"}})
  /\ pc' = [x \in Actors |-> "idle"] /\ loc' = [x \in Actors |-> NoWork]
  /\ tokens' = MaxCreates
  /\ UNCHANGED <<storeVars, hostVars, used, ops>>

CreateStep(r) ==
  \/ CreateVM(r) \/ AcquireCreateSlot(r) \/ CloneVM(r) \/ CheckQuota(r) \/ ReadSource(r)
  \/ FindAvailableIP(r) \/ RemoveDHCPHostByName(r) \/ AddDHCPHost(r) \/ MkdirAll(r)
  \/ ReapOrphan(r) \/ DomainDefineXML(r) \/ BootDomain(r) \/ StoreNewVM(r) \/ UndoDomain(r) \/ UndoHost(r)

ChangeStep(r) ==
  \/ PowerVM(r) \/ PowerDomain(r) \/ PowerPut(r)
  \/ UpdateVM(r) \/ UpdateStop(r) \/ GrowDisk(r) \/ RedefineDomain(r) \/ DropOldAddress(r)
  \/ AddNewAddress(r) \/ RegenerateISO(r) \/ UpdatePut(r) \/ UpdateBoot(r)
  \/ DeleteVM(r) \/ DeleteDomain(r) \/ DeleteHost(r) \/ DeleteDir(r) \/ DeleteRecord(r)

MonitorStep(i) ==
  \/ MonitorSeesIP(i) \/ MonitorTimesOut(i) \/ MonitorReserves(i)
  \/ MonitorBounces(i) \/ MonitorPings(i) \/ MonitorPuts(i)

Next ==
  \/ \E r \in Requests : CreateStep(r) \/ ChangeStep(r)
  \/ \E i \in Monitors : MonitorStep(i)
  \/ \E n \in Names : GuestShutsDown(n)
  \/ Crash

Spec == Init /\ [][Next]_vars

\* -------------------------------------------------------------- properties

\* Types: every resource, record and request is about a VM ID that was
\* generated, and the create slots (acquireCreateSlot) are never more than
\* daemon.max_concurrent_creates.
TypeOK ==
  /\ stored \subseteq used /\ used \subseteq IDs /\ dir \subseteq used
  /\ rec \in [IDs -> Record]
  /\ dom \in [Names -> [id : used, st : {"off", "running", "paused"}] \cup {NoDomain}]
  /\ res \in [Addrs -> [id : used, name : Names] \cup {NoHost}]
  /\ tokens \in 0..MaxCreates /\ ops \in 0..MaxOps /\ crashes \in 0..MaxCrashes
  /\ \A x \in Actors : pc[x] # "idle" => loc[x].id \in used \cup {NoID} /\ loc[x].vm \in Record

Busy(i) == \E x \in Actors : pc[x] # "idle" /\ loc[x].id = i
HasCause(i, why) == \E w \in why : <<w, i>> \in causes
\* What takes a stored VM's domain or reservation away: a crash inside an
\* operation, a write of a stale copy, a delete whose last step failed, and
\* another VM's create or delete going by the name.
Spoiled == {"crash", "stale", "halfDeleted", "byname", "reaped"}

\* Create stores the record last and Delete removes it last, so a stored VM
\* that no operation is working on has its directory, its domain and the
\* reservation of its address.  The exceptions are listed: no interleaving
\* of creates, clones, updates, power operations, deletes and IP monitors
\* takes a resource from a VM in any other way.  (The types go with it.)
RecordBacked ==
  /\ TypeOK
  /\ \A i \in stored : ~Busy(i) =>
    /\ i \in dir \/ HasCause(i, {"crash", "stale", "halfDeleted"})
    /\ dom[rec[i].name].id = i \/ HasCause(i, Spoiled)
    /\ \/ rec[i].ip = NoIP \/ res[rec[i].ip].id = i
       \/ HasCause(i, Spoiled \cup {"static", "update"})

\* The converse: nothing is left over.  Whatever order the steps of several
\* operations take, a directory, domain or reservation belongs to a stored VM
\* or to one being worked on, unless a crash, a libvirt error that Create's
\* deferred cleanup and Delete ignore, or a listed lost update left it behind.
ResourcesOwned ==
  /\ \A i \in dir : i \in stored \/ Busy(i) \/ HasCause(i, {"crash"})
  /\ \A n \in Names : LET i == dom[n].id IN i # NoID =>
       i \in stored \/ Busy(i) \/ HasCause(i, {"crash", "cleanup", "redefined"})
  /\ \A a \in Addrs : LET i == res[a].id IN i # NoID =>
       \/ (i \in stored /\ rec[i].ip = a) \/ Busy(i)
       \/ HasCause(i, {"crash", "cleanup", "mkdir", "stale", "update", "monitor", "byname", "halfDeleted"})

\* Neither quota check is atomic with the store of the new VM, so concurrent
\* creates may overshoot max_vms; but the second check is made with a create
\* slot held, so by fewer VMs than there are slots.  Clones take no slot and
\* records that a stale write brought back were counted out: both are left out.
QuotaOvershootBounded ==
  Cardinality({i \in stored : ~HasCause(i, {"deleted", "clone"})}) <= MaxVMs - 1 + MaxCreates

\* What the comment at Create's reap step says: a domain that still has the
\* name "is never a live, tracked VM".
OnlyOrphansReaped == \A i \in stored : ~HasCause(i, {"reaped"})
=============================================================================

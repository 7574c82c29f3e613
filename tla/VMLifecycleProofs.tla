------------------------- MODULE VMLifecycleProofs -------------------------
(***************************************************************************)
(* The theorems about VMLifecycle: the bound on the overshoot of the VM    *)
(* quota, and that the records and the resources of the host belong        *)
(* together.  First comes what each step does: one lemma per action on the *)
(* types it keeps, the goroutine it moves and what that one has in hand,   *)
(* and the change to the store, to libvirt, to the network's reservations  *)
(* and to the disk, so that the definitions of the actions are opened only *)
(* there.  Then the invariant, in layers:                                  *)
(*   Types, Slots      the shapes of all values, and the create slots      *)
(*                     counted as the requests that hold one               *)
(*   Tracked           whose record, and which copy of it, every goroutine *)
(*                     works on: a VM under construction belongs to one    *)
(*                     goroutine, and a copy that is not the stored one is *)
(*                     marked as one that would overwrite a newer record   *)
(*   Bounded           the VMs admitted and the creates behind the quota   *)
(*                     check together stay within limit and slots          *)
(*   Naming, Dirs,     which directory, domain and reservation exist at    *)
(*   Doms, Reserved    each step of each operation, for a VM that is being *)
(*                     built, stored, moved to another address or deleted  *)
(* Every part is kept by the effect of a step (Kind, DirStep, DomStep,     *)
(* ResStep, MoveStep) without looking at the action again.                 *)
(***************************************************************************)
EXTENDS VMLifecycle, FiniteSetTheorems, TLAPS

USE DEF storeVars, hostVars, countVars, Actors, Monitors

-----------------------------------------------------------------------------
(* Goroutines. *)

\* The steps of each operation.
Stages ==
  [none |-> {"idle"},
   create |-> {"slot", "quota", "find", "byname", "add", "mkdir", "reap", "define", "boot", "put",
               "undoDom", "undoHost"},
   clone |-> {"quota", "source", "mkdir", "find", "byname", "add", "define", "put", "undoDom", "undoHost"},
   power |-> {"power", "powerPut"},
   start |-> {"power", "powerPut"},
   lock |-> {"updatePut"},
   resize |-> {"updateStop", "disk", "redefine", "updatePut", "updateBoot"},
   readdress |-> {"updateStop", "disk", "oldAddress", "newAddress", "newISO", "redefine", "updatePut",
                  "updateBoot"},
   delete |-> {"deleteDomain", "deleteHost", "deleteDir", "deleteRecord"},
   monitor |-> {"wait", "fallback", "bounce", "ping", "monitorPut"}]

Pcs == UNION {Stages[o] : o \in DOMAIN Stages}
Task == [op : DOMAIN Stages, id : IDs \cup {NoID}, vm : Record, dom : IDs \cup {NoID},
         ip : Addrs \cup {NoIP}, was : BOOLEAN]

Active(x) == pc[x] # "idle"
Asking(x) == pc[x] \in {"slot", "quota"}
\* A VM that has its ID but no record yet.
Building(x) ==
  pc[x] \in {"source", "find", "byname", "add", "mkdir", "reap", "define", "boot", "put", "undoDom", "undoHost"}

Domain == [id : used, st : {"off", "running", "paused"}] \cup {NoDomain}
Host == [id : used, name : Names] \cup {NoHost}

Values ==
  /\ stored \subseteq used /\ used \subseteq IDs /\ dir \subseteq used
  /\ rec \in [IDs -> Record] /\ dom \in [Names -> Domain] /\ res \in [Addrs -> Host]
  /\ tokens \in Int /\ ops \in 0..MaxOps /\ crashes \in 0..MaxCrashes
  /\ pc \in [Actors -> Pcs] /\ loc \in [Actors -> Task]

\* What an actor has in hand at each step.
Fits(x, q, w) ==
  /\ q \in Stages[w.op]
  /\ w.op = "none" => w = NoWork
  /\ w.op = "monitor" => w.id = x /\ x \in Monitors
  /\ x \in Monitors => w.op \in {"none", "monitor"}
  /\ w.op = "lock" => ~w.was
  /\ w.op \in {"power", "start", "lock", "resize", "readdress"} => w.dom # NoID
  /\ q # "idle" => w.vm.name \in Names
  /\ w.dom \in used \cup {NoID}
  /\ IF q \in {"idle", "slot", "quota"} THEN w.id = NoID ELSE w.id \in used
  /\ q \in {"byname", "add", "fallback", "bounce", "ping", "monitorPut"} => w.ip \in Addrs
  /\ q \in {"source", "find", "byname", "add"} \/ (w.op = "clone" /\ q \in {"quota", "mkdir"}) => w.vm.ip = NoIP
Shaped(x) == Fits(x, pc[x], loc[x])

Types == Values /\ (\A x \in Actors : Shaped(x)) /\ \A i \in stored : rec[i].name \in Names

-----------------------------------------------------------------------------
(* What the actions do. *)

Others(x) == \A y \in Actors \ {x} : pc'[y] = pc[y] /\ loc'[y] = loc[y]
\* x goes on to step q with w in hand.
Goes(x, q, w) == pc'[x] = q /\ loc'[x] = w /\ Others(x)
Ends(x) ==
  /\ Goes(x, "idle", NoWork)
  /\ tokens' = IF loc[x].op = "create" /\ pc[x] # "slot" THEN tokens + 1 ELSE tokens

\* Keeps its types: others, and x with its new work.
LEMMA GoesTypes ==
  ASSUME Types, NEW x \in Actors, NEW q \in Pcs, NEW w \in Task
  PROVE  /\ pc' = [pc EXCEPT ![x] = q] /\ loc' = [loc EXCEPT ![x] = w] =>
              Goes(x, q, w) /\ pc' \in [Actors -> Pcs] /\ loc' \in [Actors -> Task]
         /\ pc' = [pc EXCEPT ![x] = q] /\ loc' = loc =>
              Goes(x, q, loc[x]) /\ pc' \in [Actors -> Pcs] /\ loc' \in [Actors -> Task]
         /\ pc' = pc /\ loc' = [loc EXCEPT ![x] = w] =>
              Goes(x, pc[x], w) /\ pc' \in [Actors -> Pcs] /\ loc' \in [Actors -> Task]
BY DEF Types, Values, Goes, Others

LEMMA Constants ==
  /\ NoRecord \in Record /\ NoWork \in Task /\ "idle" \in Pcs
  /\ NoWork.op = "none" /\ NoWork.id = NoID /\ NoWork.dom = NoID /\ NoWork.vm = NoRecord
  /\ NoDomain.id = NoID /\ NoHost.id = NoID
<1>1. NoRecord \in Record
  BY DEF NoRecord, Record
<1>2. NoWork \in Task
  BY <1>1 DEF NoWork, Task, Stages
<1>3. "idle" \in Pcs
  BY DEF Pcs, Stages
<1>4. QED
  BY <1>1, <1>2, <1>3 DEF NoWork, NoDomain, NoHost

LEMMA ReturnDoes ==
  ASSUME Types, NEW x \in Actors, Return(x)
  PROVE  Ends(x) /\ pc' \in [Actors -> Pcs] /\ loc' \in [Actors -> Task]
BY GoesTypes, Constants DEF Return, Goto, Ends

\* Which operations have which steps.
LEMMA OpAt ==
  ASSUME Types, NEW x \in Actors
  PROVE  /\ loc[x] \in Task /\ Shaped(x)
         /\ pc[x] = "idle" <=> loc[x].op = "none"
         /\ pc[x] \in {"slot", "reap", "boot"} => loc[x].op = "create"
         /\ pc[x] = "source" => loc[x].op = "clone"
         /\ pc[x] = "quota" \/ (Building(x) /\ pc[x] # "source") => loc[x].op \in {"create", "clone"}
         /\ pc[x] \in {"power", "powerPut"} => loc[x].op \in {"power", "start"}
         /\ pc[x] \in {"updateStop", "disk", "redefine", "updateBoot"} => loc[x].op \in {"resize", "readdress"}
         /\ pc[x] \in {"oldAddress", "newAddress", "newISO"} => loc[x].op = "readdress"
         /\ pc[x] = "updatePut" => loc[x].op \in {"lock", "resize", "readdress"}
         /\ pc[x] \in {"deleteDomain", "deleteHost", "deleteDir", "deleteRecord"} => loc[x].op = "delete"
         /\ pc[x] \in {"wait", "fallback", "bounce", "ping", "monitorPut"} => loc[x].op = "monitor"
<1>1. loc[x] \in Task /\ Shaped(x)
  BY DEF Types, Values
<1>2. loc[x].op \in DOMAIN Stages /\ pc[x] \in Stages[loc[x].op]
  BY <1>1 DEF Task, Shaped, Fits
<1>3. QED
  BY <1>1, <1>2 DEF Stages, Building

\* The step after each step.
LEMMA NextStep ==
  /\ /\ Then["create"]["slot"] = "quota"
     /\ Then["create"]["quota"] = "find"
     /\ Then["create"]["find"] = "byname"
     /\ Then["create"]["byname"] = "add"
     /\ Then["create"]["add"] = "mkdir"
     /\ Then["create"]["mkdir"] = "reap"
     /\ Then["create"]["reap"] = "define"
     /\ Then["create"]["define"] = "boot"
     /\ Then["create"]["boot"] = "put"
  /\ /\ Then["clone"]["quota"] = "source"
     /\ Then["clone"]["source"] = "mkdir"
     /\ Then["clone"]["mkdir"] = "find"
     /\ Then["clone"]["find"] = "byname"
     /\ Then["clone"]["byname"] = "add"
     /\ Then["clone"]["add"] = "define"
     /\ Then["clone"]["define"] = "put"
  /\ /\ Then["resize"]["updateStop"] = "disk"
     /\ Then["resize"]["disk"] = "redefine"
     /\ Then["resize"]["redefine"] = "updatePut"
  /\ /\ Then["readdress"]["updateStop"] = "disk"
     /\ Then["readdress"]["disk"] = "oldAddress"
     /\ Then["readdress"]["oldAddress"] = "newAddress"
     /\ Then["readdress"]["newAddress"] = "newISO"
     /\ Then["readdress"]["newISO"] = "redefine"
     /\ Then["readdress"]["redefine"] = "updatePut"
BY DEF Then

\* A step by one actor keeps what the others have in hand.
LEMMA TypesKept ==
  ASSUME Types, NEW x \in Actors, Others(x), used \subseteq used', Shaped(x)', Values',
         \A i \in stored' : rec'[i].name \in Names
  PROVE  Types'
<1>1. \A y \in Actors \ {x} : Shaped(y)'
  BY DEF Types, Shaped, Fits, Others
<1>2. QED
  BY <1>1 DEF Types

SameHost == UNCHANGED <<dom, res, dir>>
SameStore == UNCHANGED <<stored, rec>>
Same == SameStore /\ SameHost

\* A step that changes nothing but its actor.
LEMMA LocalStep ==
  ASSUME Types, NEW x \in Actors, NEW q \in Pcs, NEW w \in Task, Goes(x, q, w),
         pc' \in [Actors -> Pcs], loc' \in [Actors -> Task],
         Same, UNCHANGED <<used, crashes>>, tokens' \in Int, ops' \in 0..MaxOps, Shaped(x)'
  PROVE  Types'
<1>1. Values' /\ \A i \in stored' : rec'[i].name \in Names
  BY DEF Types, Values, Same, SameStore, SameHost, Domain, Host
<1>2. QED
  BY <1>1, TypesKept DEF Goes

\* The end of an operation.
LEMMA EndStep ==
  ASSUME Types, NEW x \in Actors, Return(x), used \subseteq used', UNCHANGED <<ops, crashes>>,
         stored' \subseteq used', dir' \subseteq used', used' \subseteq IDs,
         rec' \in [IDs -> Record], dom' \in [Names -> Domain'], res' \in [Addrs -> Host'],
         \A i \in stored' : rec'[i].name \in Names
  PROVE  Types' /\ Ends(x)
<1>1. Ends(x) /\ pc' \in [Actors -> Pcs] /\ loc' \in [Actors -> Task]
  BY ReturnDoes
<1>2. Shaped(x)'
  BY <1>1, Constants DEF Ends, Goes, Types, Shaped, Fits, Stages
<1>3. tokens' \in Int
  BY <1>1 DEF Ends, Types, Values
<1>4. Values'
  BY <1>1, <1>3 DEF Types, Values
<1>5. QED
  BY <1>1, <1>2, <1>4, TypesKept DEF Ends, Goes

\* A step of one actor that changes no record.
LEMMA Move ==
  ASSUME Types, NEW x \in Actors, NEW q \in Pcs, NEW w \in Task, Fits(x, q, w),
         pc' = [pc EXCEPT ![x] = q], loc' = [loc EXCEPT ![x] = w] \/ (loc' = loc /\ w = loc[x]),
         UNCHANGED <<stored, rec, used, ops, crashes, tokens>>,
         dir' \subseteq used, dom' \in [Names -> Domain], res' \in [Addrs -> Host]
  PROVE  Types' /\ Goes(x, q, w)
<1>1. Goes(x, q, w) /\ pc' \in [Actors -> Pcs] /\ loc' \in [Actors -> Task]
  BY GoesTypes
<1>2. Shaped(x)'
  BY <1>1 DEF Shaped, Fits, Goes
<1>3. Domain' = Domain /\ Host' = Host
  BY DEF Domain, Host
<1>4. Values' /\ \A i \in stored' : rec'[i].name \in Names
  BY <1>1, <1>3 DEF Types, Values
<1>5. QED
  BY <1>1, <1>2, <1>4, TypesKept DEF Goes

LEMMA EndMove ==
  ASSUME Types, NEW x \in Actors, Return(x), UNCHANGED <<stored, rec, used, ops, crashes>>,
         dir' \subseteq used, dom' \in [Names -> Domain], res' \in [Addrs -> Host]
  PROVE  Types' /\ Ends(x)
<1>1. Domain' = Domain /\ Host' = Host
  BY DEF Domain, Host
<1>2. QED
  BY <1>1, EndStep DEF Types, Values

LEMMA LocalEnd ==
  ASSUME Types, NEW x \in Actors, Return(x), UNCHANGED <<ops, crashes, used>>, Same
  PROVE  Types' /\ Ends(x)
BY EndStep DEF Types, Values, Same, SameStore, SameHost, Domain, Host

\* What was done to the VMs so far stays known; only the quota check adds "static".
Recalls == causes \subseteq causes' /\ \A i : <<"static", i>> \in causes' => <<"static", i>> \in causes

LEMMA Blame ==
  ASSUME NEW why, NEW ids, Because(why, ids)
  PROVE  /\ causes \subseteq causes'
         /\ \A i \in ids : i # NoID => <<why, i>> \in causes'
         /\ why # "static" => Recalls
         /\ \A i : i # NoID /\ ids = {i} => causes' = causes \cup {<<why, i>>}
         /\ ids = {} => causes' = causes
BY DEF Because, Recalls

\* The two ways to leave the other variables typed.
Fixed == UNCHANGED <<ops, crashes, used>>

-----------------------------------------------------------------------------
(* Create and clone. *)

LEMMA CreateVMDoes ==
  ASSUME Types, NEW r \in Requests, CreateVM(r)
  PROVE  /\ Types' /\ Same /\ UNCHANGED <<used, tokens, causes>> /\ pc[r] = "idle"
         /\ \E n \in Names, a \in Addrs \cup {NoIP} :
              Goes(r, "slot", [NoWork EXCEPT !.op = "create", !.vm.name = n, !.vm.ip = a])
<1>1. PICK n \in Names, a \in Addrs \cup {NoIP} :
        Begin(r, "slot", [NoWork EXCEPT !.op = "create", !.vm.name = n, !.vm.ip = a])
  BY DEF CreateVM
<1> DEFINE w == [NoWork EXCEPT !.op = "create", !.vm.name = n, !.vm.ip = a]
<1>2. w \in Task /\ w.op = "create" /\ w.id = NoID /\ w.dom = NoID /\ w.vm.name = n
  BY Constants DEF Task, Stages, Record, NoRecord
<1>3. "slot" \in Pcs
  BY DEF Pcs, Stages
<1> HIDE DEF w
<1>4. Goes(r, "slot", w) /\ pc' \in [Actors -> Pcs] /\ loc' \in [Actors -> Task]
  BY <1>1, <1>2, <1>3, GoesTypes DEF Begin, Goto, w
<1>5. Shaped(r)'
  BY <1>2, <1>4, IdentityAssumption DEF Shaped, Fits, Goes, Stages
<1>6. Same /\ UNCHANGED <<used, tokens, crashes, causes>> /\ pc[r] = "idle"
  BY <1>1 DEF CreateVM, Begin, Same, SameStore, SameHost
<1>7. ops' \in 0..MaxOps /\ tokens' \in Int
  BY <1>1, <1>6, LimitAssumption DEF Begin, Types, Values
<1>8. Types'
  BY <1>2, <1>3, <1>4, <1>5, <1>6, <1>7, LocalStep
<1>9. QED
  BY <1>4, <1>6, <1>8 DEF w

LEMMA AcquireDoes ==
  ASSUME Types, NEW r \in Requests, AcquireCreateSlot(r)
  PROVE  /\ Types' /\ Same /\ UNCHANGED <<used, causes>> /\ pc[r] = "slot"
         /\ \/ tokens > 0 /\ tokens' = tokens - 1 /\ Goes(r, "quota", loc[r])
            \/ Ends(r)
<1>1. Same /\ UNCHANGED <<used, ops, crashes, causes>> /\ pc[r] = "slot" /\ loc[r].op = "create" /\ loc[r] \in Task
  BY OpAt DEF AcquireCreateSlot, Same, SameStore, SameHost
<1>2. CASE Proceed(r) /\ UNCHANGED loc /\ tokens > 0 /\ tokens' = tokens - 1
  <2>1. pc' = [pc EXCEPT ![r] = "quota"] /\ "quota" \in Pcs
    BY <1>1, <1>2, NextStep DEF Proceed, Goto, Stages, Pcs
  <2>2. Goes(r, "quota", loc[r]) /\ pc' \in [Actors -> Pcs] /\ loc' \in [Actors -> Task]
    BY <1>1, <1>2, <2>1, GoesTypes
  <2>3. Shaped(r)'
    BY <1>1, <2>2, OpAt DEF Shaped, Fits, Goes, Stages
  <2>4. tokens' \in Int /\ ops' \in 0..MaxOps
    BY <1>1, <1>2 DEF Types, Values
  <2>5. QED
    BY <1>1, <1>2, <2>1, <2>2, <2>3, <2>4, LocalStep
<1>3. CASE Return(r)
  BY <1>1, <1>3, LocalEnd
<1>4. QED
  BY <1>2, <1>3 DEF AcquireCreateSlot

LEMMA CloneVMDoes ==
  ASSUME Types, NEW r \in Requests, CloneVM(r)
  PROVE  /\ Types' /\ Same /\ UNCHANGED <<used, tokens, causes>> /\ pc[r] = "idle"
         /\ \E i \in stored, n \in Names :
              Goes(r, "quota", [NoWork EXCEPT !.op = "clone", !.dom = i, !.vm.name = n])
<1>1. PICK i \in stored, n \in Names :
        Begin(r, "quota", [NoWork EXCEPT !.op = "clone", !.dom = i, !.vm.name = n])
  BY DEF CloneVM
<1> DEFINE w == [NoWork EXCEPT !.op = "clone", !.dom = i, !.vm.name = n]
<1>2. w \in Task /\ w.op = "clone" /\ w.id = NoID /\ w.dom = i /\ w.vm.name = n /\ w.vm.ip = NoIP
  <2>1. i \in IDs
    BY DEF Types, Values
  <2>2. QED
    BY <2>1, Constants DEF NoWork, Task, Stages, Record, NoRecord
<1>3. "quota" \in Pcs
  BY DEF Pcs, Stages
<1> HIDE DEF w
<1>4. Goes(r, "quota", w) /\ pc' \in [Actors -> Pcs] /\ loc' \in [Actors -> Task]
  BY <1>1, <1>2, <1>3, GoesTypes DEF Begin, Goto, w
<1>5. Same /\ UNCHANGED <<used, tokens, crashes, causes>> /\ pc[r] = "idle"
  BY <1>1 DEF CloneVM, Begin, Same, SameStore, SameHost
<1>6. i \in used'
  BY <1>5 DEF Types, Values
<1>7. Shaped(r)'
  BY <1>2, <1>4, <1>6, IdentityAssumption DEF Shaped, Fits, Goes, Stages
<1>8. ops' \in 0..MaxOps /\ tokens' \in Int
  BY <1>1, <1>5, LimitAssumption DEF Begin, Types, Values
<1>9. Types'
  BY <1>2, <1>3, <1>4, <1>5, <1>7, <1>8, LocalStep
<1>10. QED
  BY <1>4, <1>5, <1>9 DEF w

LEMMA CheckQuotaDoes ==
  ASSUME Types, NEW r \in Requests, CheckQuota(r)
  PROVE  /\ Types' /\ Same /\ pc[r] = "quota" /\ causes \subseteq causes'
         /\ \/ /\ WithinQuota /\ tokens' = tokens
               /\ \E i \in IDs \ used, q \in {"find", "mkdir", "source"} :
                    /\ used' = used \cup {i} /\ Goes(r, q, [loc[r] EXCEPT !.id = i])
                    /\ loc[r].op = "clone" => q = "source" /\ <<"clone", i>> \in causes'
                    /\ loc[r].op = "create" => q # "source"
                    /\ loc[r].vm.ip = NoIP <=> q # "mkdir"
                    /\ \A j : <<"static", j>> \in causes' /\ j # i => <<"static", j>> \in causes
                    /\ <<"static", i>> \in causes' => <<"static", i>> \in causes \/ q = "mkdir"
                    /\ q = "mkdir" => <<"static", i>> \in causes'
            \/ Ends(r) /\ UNCHANGED <<used, causes>>
<1>1. Same /\ UNCHANGED <<ops, crashes>> /\ pc[r] = "quota" /\ loc[r].op \in {"create", "clone"} /\ loc[r] \in Task
  BY OpAt DEF CheckQuota, Same, SameStore, SameHost
<1>2. ASSUME WithinQuota, tokens' = tokens, NEW i \in IDs \ used, used' = used \cup {i},
             loc' = [loc EXCEPT ![r].id = i],
             IF loc[r].vm.ip # NoIP THEN Goto(r, "mkdir") /\ Because("static", {i})
             ELSE Proceed(r) /\ Because("clone", IF loc[r].op = "clone" THEN {i} ELSE {})
      PROVE  /\ Types' /\ causes \subseteq causes'
             /\ \E q \in {"find", "mkdir", "source"} :
                    /\ Goes(r, q, [loc[r] EXCEPT !.id = i])
                    /\ loc[r].op = "clone" => q = "source" /\ <<"clone", i>> \in causes'
                    /\ loc[r].op = "create" => q # "source"
                    /\ loc[r].vm.ip = NoIP <=> q # "mkdir"
                    /\ \A j : <<"static", j>> \in causes' /\ j # i => <<"static", j>> \in causes
                    /\ <<"static", i>> \in causes' => <<"static", i>> \in causes \/ q = "mkdir"
                    /\ q = "mkdir" => <<"static", i>> \in causes'
  <2> DEFINE w == [loc[r] EXCEPT !.id = i]
             q == IF loc[r].vm.ip # NoIP THEN "mkdir" ELSE IF loc[r].op = "clone" THEN "source" ELSE "find"
  <2>1. w \in Task /\ w.id = i /\ w.op = loc[r].op /\ w.vm = loc[r].vm /\ w.dom = loc[r].dom /\ loc' = [loc EXCEPT ![r] = w]
    BY <1>1, <1>2 DEF Task, Types, Values
  <2>2. pc' = [pc EXCEPT ![r] = q] /\ q \in Pcs
    BY <1>1, <1>2, NextStep DEF Proceed, Goto, Pcs, Stages
  <2>3. loc[r].op = "clone" => loc[r].vm.ip = NoIP
    BY <1>1, OpAt DEF Shaped, Fits
  <2>4. i # NoID
    BY IdentityAssumption
  <2>5. /\ loc[r].vm.ip # NoIP => causes' = causes \cup {<<"static", i>>}
        /\ loc[r].vm.ip = NoIP /\ loc[r].op = "clone" => causes' = causes \cup {<<"clone", i>>}
        /\ loc[r].vm.ip = NoIP /\ loc[r].op = "create" => causes' = causes
    BY <1>2, <2>4, Blame
  <2> HIDE DEF w
  <2>6. Goes(r, q, w) /\ pc' \in [Actors -> Pcs] /\ loc' \in [Actors -> Task]
    BY <2>1, <2>2, GoesTypes
  <2>7. Shaped(r)'
    BY <1>1, <1>2, <2>1, <2>3, <2>6, OpAt DEF Shaped, Fits, Goes, Stages
  <2>8. Values' /\ \A j \in stored' : rec'[j].name \in Names
    <3>1. Domain \subseteq Domain' /\ Host \subseteq Host'
      BY <1>2 DEF Domain, Host
    <3>2. stored' \subseteq used' /\ used' \subseteq IDs /\ dir' \subseteq used'
      BY <1>1, <1>2 DEF Types, Values, Same, SameStore, SameHost
    <3>3. dom' \in [Names -> Domain'] /\ res' \in [Addrs -> Host']
      BY <1>1, <3>1 DEF Types, Values, Same, SameHost
    <3>4. QED
      BY <1>1, <1>2, <2>6, <3>2, <3>3 DEF Types, Values, Same, SameStore
  <2>9. Types'
    BY <1>2, <2>6, <2>7, <2>8, TypesKept DEF Goes
  <2>10. QED
    BY <1>1, <1>2, <2>2, <2>3, <2>5, <2>6, <2>9 DEF w
<1>3. CASE Return(r) /\ UNCHANGED <<used, causes>>
  BY <1>1, <1>3, LocalEnd
<1>4. QED
  <2>1. CASE Return(r) /\ UNCHANGED <<used, causes>>
    BY <1>1, <1>3, <2>1
  <2>2. CASE ~(Return(r) /\ UNCHANGED <<used, causes>>)
    <3>1. PICK i \in IDs \ used :
             /\ WithinQuota /\ tokens' = tokens /\ used' = used \cup {i} /\ loc' = [loc EXCEPT ![r].id = i]
             /\ IF loc[r].vm.ip # NoIP THEN Goto(r, "mkdir") /\ Because("static", {i})
                ELSE Proceed(r) /\ Because("clone", IF loc[r].op = "clone" THEN {i} ELSE {})
      BY <2>2 DEF CheckQuota
    <3>2. QED
      BY <1>1, <1>2, <3>1
  <2>3. QED
    BY <2>1, <2>2

LEMMA ReadSourceDoes ==
  ASSUME Types, NEW r \in Requests, ReadSource(r)
  PROVE  /\ Types' /\ Same /\ UNCHANGED <<used, causes>> /\ pc[r] = "source"
         /\ \/ \E l \in BOOLEAN : Goes(r, "mkdir", [loc[r] EXCEPT !.dom = NoID, !.vm.locked = l]) /\ tokens' = tokens
            \/ Ends(r)
<1>1. Same /\ Fixed /\ UNCHANGED causes /\ pc[r] = "source" /\ loc[r].op = "clone" /\ loc[r] \in Task
  BY OpAt DEF ReadSource, Same, SameStore, SameHost, Fixed
<1>2. ASSUME NEW src \in stored, Proceed(r), UNCHANGED tokens,
             loc' = [loc EXCEPT ![r].dom = NoID, ![r].vm.locked = rec[src].locked]
      PROVE  /\ Types'
             /\ \E l \in BOOLEAN : Goes(r, "mkdir", [loc[r] EXCEPT !.dom = NoID, !.vm.locked = l])
  <2>1. PICK l \in BOOLEAN : l = rec[src].locked
    BY DEF Types, Values, Record
  <2> DEFINE w == [loc[r] EXCEPT !.dom = NoID, !.vm.locked = l]
  <2>2. /\ w \in Task /\ loc' = [loc EXCEPT ![r] = w] /\ w.op = "clone" /\ w.id = loc[r].id /\ w.dom = NoID
        /\ w.vm.name = loc[r].vm.name /\ w.vm.ip = loc[r].vm.ip
    BY <1>1, <1>2, <2>1 DEF Task, Record, Types, Values
  <2>3. pc' = [pc EXCEPT ![r] = "mkdir"] /\ "mkdir" \in Pcs
    BY <1>1, <1>2, NextStep DEF Proceed, Goto, Pcs, Stages
  <2> HIDE DEF w
  <2>4. Goes(r, "mkdir", w) /\ pc' \in [Actors -> Pcs] /\ loc' \in [Actors -> Task]
    BY <2>2, <2>3, GoesTypes
  <2>5. Shaped(r)'
    BY <1>1, <2>2, <2>4, OpAt DEF Fixed, Shaped, Fits, Goes, Stages
  <2>6. Types'
    BY <1>1, <1>2, <2>2, <2>3, <2>4, <2>5, LocalStep DEF Fixed, Types, Values
  <2>7. QED
    BY <2>4, <2>6 DEF w
<1>3. CASE Return(r)
  BY <1>1, <1>3, LocalEnd DEF Fixed
<1>4. QED
  <2>1. CASE Return(r)
    BY <1>1, <1>3, <2>1 DEF Fixed
  <2>2. CASE ~Return(r)
    BY <1>1, <1>2, <2>2 DEF ReadSource, Fixed
  <2>3. QED
    BY <2>1, <2>2

LEMMA FindDoes ==
  ASSUME Types, NEW r \in Requests, FindAvailableIP(r)
  PROVE  /\ Types' /\ Same /\ UNCHANGED <<used, tokens, causes>> /\ pc[r] = "find"
         /\ \/ \E a \in Addrs : Goes(r, "byname", [loc[r] EXCEPT !.ip = a])
            \/ Goes(r, IF loc[r].op = "create" THEN "mkdir" ELSE "define", loc[r])
<1>1. /\ Same /\ UNCHANGED <<countVars, causes>> /\ pc[r] = "find" /\ loc[r] \in Task
      /\ loc[r].op \in {"create", "clone"} /\ Fits(r, "find", loc[r])
  BY OpAt DEF FindAvailableIP, Same, SameStore, SameHost, Building, Shaped
<1>2. {"byname", "mkdir", "define"} \subseteq Pcs /\ dir \subseteq used /\ dom \in [Names -> Domain] /\ res \in [Addrs -> Host]
  BY DEF Pcs, Stages, Types, Values
<1>3. ASSUME NEW a \in Addrs, loc' = [loc EXCEPT ![r].ip = a], Proceed(r)
      PROVE  Types' /\ Goes(r, "byname", [loc[r] EXCEPT !.ip = a])
  <2>1. [loc[r] EXCEPT !.ip = a] \in Task /\ Fits(r, "byname", [loc[r] EXCEPT !.ip = a])
    BY <1>1 DEF Task, Fits, Stages
  <2>2. pc' = [pc EXCEPT ![r] = "byname"] /\ loc' = [loc EXCEPT ![r] = [loc[r] EXCEPT !.ip = a]]
    BY <1>1, <1>3, NextStep DEF Proceed, Goto, Types, Values
  <2>3. QED
    BY <1>1, <1>2, <2>1, <2>2, Move DEF Same, SameStore, SameHost
<1>4. CASE UNCHANGED loc /\ Goto(r, Then[loc[r].op]["add"])
  <2> DEFINE q == IF loc[r].op = "create" THEN "mkdir" ELSE "define"
  <2>1. pc' = [pc EXCEPT ![r] = q] /\ q \in Pcs
    BY <1>1, <1>2, <1>4, NextStep DEF Goto
  <2>2. Fits(r, q, loc[r])
    BY <1>1 DEF Fits, Stages
  <2>3. QED
    BY <1>1, <1>2, <1>4, <2>1, <2>2, Move DEF Same, SameStore, SameHost
<1>5. QED
  BY <1>1, <1>3, <1>4 DEF FindAvailableIP, Available

LEMMA ByNameDoes ==
  ASSUME Types, NEW r \in Requests, RemoveDHCPHostByName(r)
  PROVE  /\ Types' /\ SameStore /\ UNCHANGED <<dom, dir, used, tokens>> /\ pc[r] = "byname" /\ Recalls
         /\ Goes(r, "add", loc[r])
         /\ \A a \in Addrs : \/ res'[a] = res[a]
                             \/ res'[a] = NoHost /\ (res[a].id # NoID => <<"byname", res[a].id>> \in causes')
<1>1. /\ SameStore /\ UNCHANGED <<dom, dir, countVars, loc>> /\ pc[r] = "byname" /\ loc[r] \in Task /\ Proceed(r)
      /\ loc[r].op \in {"create", "clone"} /\ Fits(r, "byname", loc[r])
  BY OpAt DEF RemoveDHCPHostByName, SameStore, Building, Shaped
<1>2. "add" \in Pcs /\ dir \subseteq used /\ dom \in [Names -> Domain] /\ res \in [Addrs -> Host] /\ NoHost \in Host
  BY DEF Pcs, Stages, Types, Values, Host
<1>3. pc' = [pc EXCEPT ![r] = "add"] /\ Fits(r, "add", loc[r])
  <2>1. pc' = [pc EXCEPT ![r] = "add"]
    BY <1>1, NextStep DEF Proceed, Goto
  <2>2. QED
    BY <1>1, <2>1 DEF Fits, Stages
<1>4. res' \in [Addrs -> Host]
  BY <1>2 DEF RemoveDHCPHostByName
<1>5. Types' /\ Goes(r, "add", loc[r])
  BY <1>1, <1>2, <1>3, <1>4, Move DEF SameStore
<1>6. Recalls /\ \A a \in Addrs :
                     \/ res'[a] = res[a]
                     \/ res'[a] = NoHost /\ (res[a].id # NoID => <<"byname", res[a].id>> \in causes')
  <2> DEFINE hit == {a \in Addrs : res[a].name = Name(r)}
             ids == {res[a].id : a \in hit}
  <2>1. CASE UNCHANGED <<res, causes>>
    BY <2>1 DEF Recalls
  <2>2. CASE res' = [a \in Addrs |-> IF a \in hit THEN NoHost ELSE res[a]] /\ Because("byname", ids)
    <3>1. Recalls /\ \A i \in ids : i # NoID => <<"byname", i>> \in causes'
      BY <2>2, Blame
    <3>2. QED
      BY <2>2, <3>1
  <2>3. QED
    BY <2>1, <2>2 DEF RemoveDHCPHostByName
<1>7. QED
  BY <1>1, <1>5, <1>6

\* The domain, host reservation and name of an actor's VM.
LEMMA InHand ==
  ASSUME Types, NEW x \in Actors, pc[x] # "idle"
  PROVE  /\ Name(x) \in Names /\ dom[Name(x)] \in Domain
         /\ ~Asking(x) => loc[x].id \in used /\ loc[x].id \in IDs /\ loc[x].id # NoID
         /\ loc[x].dom \in used \cup {NoID} /\ loc[x] \in Task /\ Fits(x, pc[x], loc[x])
BY OpAt, IdentityAssumption DEF Types, Values, Shaped, Fits, Asking, Name

LEMMA Typed ==
  ASSUME Types
  PROVE  /\ dir \subseteq used /\ dom \in [Names -> Domain] /\ res \in [Addrs -> Host] /\ used \subseteq IDs
         /\ NoDomain \in Domain /\ NoHost \in Host
         /\ \A n \in Names : dom[n].id \in used \cup {NoID}
         /\ \A a \in Addrs : res[a].id \in used \cup {NoID}
         /\ \A n \in Names, i \in used, t \in {"off", "running", "paused"} :
              [dom EXCEPT ![n] = [id |-> i, st |-> t]] \in [Names -> Domain]
         /\ \A n \in Names, t \in {"off", "running", "paused"} :
              dom[n].id # NoID => [dom EXCEPT ![n].st = t] \in [Names -> Domain]
         /\ \A n \in Names : Undefined(n) \in [Names -> Domain]
         /\ \A a \in Addrs, i \in used, n \in Names : [res EXCEPT ![a] = [id |-> i, name |-> n]] \in [Addrs -> Host]
         /\ \A a \in Addrs \cup {NoIP}, i \in used : Unreserve(a, i) \in [Addrs -> Host]
<1>1. dir \subseteq used /\ dom \in [Names -> Domain] /\ res \in [Addrs -> Host] /\ used \subseteq IDs
  BY DEF Types, Values
<1>2. NoDomain \in Domain /\ NoHost \in Host
  BY DEF Domain, Host
<1>3. \A n \in Names : dom[n].id \in used \cup {NoID}
  BY <1>1 DEF Domain, NoDomain
<1>4. \A a \in Addrs : res[a].id \in used \cup {NoID}
  BY <1>1 DEF Host, NoHost
<1>5. \A n \in Names, i \in used, t \in {"off", "running", "paused"} :
        [dom EXCEPT ![n] = [id |-> i, st |-> t]] \in [Names -> Domain]
  BY <1>1 DEF Domain
<1>6. \A n \in Names, t \in {"off", "running", "paused"} :
        dom[n].id # NoID => [dom EXCEPT ![n].st = t] \in [Names -> Domain]
  <2> SUFFICES ASSUME NEW n \in Names, NEW t \in {"off", "running", "paused"}, dom[n].id # NoID
               PROVE  [dom EXCEPT ![n].st = t] \in [Names -> Domain]
    OBVIOUS
  <2>1. dom[n] \in [id : used, st : {"off", "running", "paused"}]
    BY <1>1 DEF Domain, NoDomain
  <2>2. [dom[n] EXCEPT !.st = t] \in Domain
    BY <2>1 DEF Domain
  <2>3. QED
    BY <1>1, <2>2
<1>7. \A n \in Names : Undefined(n) \in [Names -> Domain]
  BY <1>1, <1>2 DEF Undefined
<1>8. \A a \in Addrs, i \in used, n \in Names : [res EXCEPT ![a] = [id |-> i, name |-> n]] \in [Addrs -> Host]
  BY <1>1 DEF Host
<1>9. \A a \in Addrs \cup {NoIP}, i \in used : Unreserve(a, i) \in [Addrs -> Host]
  BY <1>1, <1>2 DEF Unreserve
<1>10. QED
  BY <1>1, <1>2, <1>3, <1>4, <1>5, <1>6, <1>7, <1>8, <1>9

LEMMA AddDoes ==
  ASSUME Types, NEW r \in Requests, AddDHCPHost(r)
  PROVE  /\ Types' /\ SameStore /\ UNCHANGED <<dom, dir, used, tokens, causes>> /\ pc[r] = "add"
         /\ LET q == IF loc[r].op = "create" THEN "mkdir" ELSE "define"
                a == loc[r].ip IN
            \/ /\ CanReserve(a, loc[r].id, Name(r))
               /\ res' = [res EXCEPT ![a] = [id |-> loc[r].id, name |-> Name(r)]]
               /\ Goes(r, q, [loc[r] EXCEPT !.vm.ip = a, !.ip = NoIP])
            \/ res' = res /\ Goes(r, q, [loc[r] EXCEPT !.ip = NoIP])
<1> DEFINE q == IF loc[r].op = "create" THEN "mkdir" ELSE "define"
           a == loc[r].ip
           new == [loc[r] EXCEPT !.vm.ip = a, !.ip = NoIP]
           old == [loc[r] EXCEPT !.ip = NoIP]
<1>1. /\ SameStore /\ UNCHANGED <<dom, dir, countVars, causes>> /\ pc[r] = "add" /\ Proceed(r)
      /\ loc[r].op \in {"create", "clone"} /\ Fits(r, "add", loc[r]) /\ loc[r] \in Task /\ a \in Addrs
      /\ loc[r].id \in used /\ Name(r) \in Names
  BY OpAt, InHand DEF AddDHCPHost, SameStore, Building, Shaped, Fits, Asking
<1>2. pc' = [pc EXCEPT ![r] = q] /\ q \in Pcs
  <2>1. q \in Pcs
    BY DEF Pcs, Stages
  <2>2. QED
    BY <1>1, <2>1, NextStep DEF Proceed, Goto
<1>3. CASE CanReserve(a, loc[r].id, Name(r)) /\ res' = [res EXCEPT ![a] = [id |-> loc[r].id, name |-> Name(r)]]
             /\ loc' = [loc EXCEPT ![r].vm.ip = a, ![r].ip = NoIP]
  <2>1. new \in Task /\ loc' = [loc EXCEPT ![r] = new]
    BY <1>1, <1>3 DEF Task, Record, Types, Values
  <2>2. Fits(r, q, new)
    BY <1>1 DEF Task, Record, Fits, Stages
  <2>3. res' \in [Addrs -> Host]
    BY <1>1, <1>3, Typed
  <2>4. QED
    BY <1>1, <1>2, <1>3, <2>1, <2>2, <2>3, Typed, Move DEF SameStore
<1>4. CASE UNCHANGED res /\ loc' = [loc EXCEPT ![r].ip = NoIP]
  <2>1. old \in Task /\ loc' = [loc EXCEPT ![r] = old]
    BY <1>1, <1>4 DEF Task, Types, Values
  <2>2. Fits(r, q, old)
    BY <1>1 DEF Task, Fits, Stages
  <2>3. QED
    BY <1>1, <1>2, <1>4, <2>1, <2>2, Typed, Move DEF SameStore
<1>5. QED
  BY <1>3, <1>4 DEF AddDHCPHost

LEMMA MkdirDoes ==
  ASSUME Types, NEW r \in Requests, MkdirAll(r)
  PROVE  /\ Types' /\ SameStore /\ UNCHANGED <<dom, res, used>> /\ pc[r] = "mkdir" /\ Recalls
         /\ \/ /\ dir' = dir \cup {loc[r].id} /\ tokens' = tokens
               /\ \/ Goes(r, IF loc[r].op = "create" THEN "reap" ELSE "find", loc[r])
                  \/ Goes(r, "undoDom", loc[r])
            \/ dir' = dir /\ Ends(r) /\ <<"mkdir", loc[r].id>> \in causes'
<1> DEFINE q == IF loc[r].op = "create" THEN "reap" ELSE "find"
<1>1. /\ SameStore /\ UNCHANGED <<dom, res, used, ops, crashes>> /\ pc[r] = "mkdir"
      /\ loc[r].op \in {"create", "clone"} /\ Fits(r, "mkdir", loc[r]) /\ loc[r] \in Task
      /\ loc[r].id \in used /\ loc[r].id # NoID
  BY OpAt, InHand DEF MkdirAll, SameStore, Building, Asking, Shaped
<1>2. CASE dir' = dir \cup {loc[r].id} /\ (Proceed(r) \/ Goto(r, "undoDom")) /\ UNCHANGED <<loc, tokens, causes>>
  <2>1. {q, "undoDom"} \subseteq Pcs
    BY DEF Pcs, Stages
  <2>2. pc' = [pc EXCEPT ![r] = q] \/ pc' = [pc EXCEPT ![r] = "undoDom"]
    BY <1>1, <1>2, NextStep DEF Proceed, Goto
  <2>3. Fits(r, q, loc[r]) /\ Fits(r, "undoDom", loc[r])
    BY <1>1 DEF Fits, Stages
  <2>4. dir' \subseteq used
    BY <1>1, <1>2, Typed
  <2>5. Recalls
    BY <1>2 DEF Recalls
  <2>6. CASE pc' = [pc EXCEPT ![r] = q]
    BY <1>1, <1>2, <2>1, <2>3, <2>4, <2>5, <2>6, Typed, Move DEF SameStore
  <2>7. CASE pc' = [pc EXCEPT ![r] = "undoDom"]
    BY <1>1, <1>2, <2>1, <2>3, <2>4, <2>5, <2>7, Typed, Move DEF SameStore
  <2>8. QED
    BY <2>2, <2>6, <2>7
<1>3. CASE UNCHANGED dir /\ Return(r) /\ Because("mkdir", {loc[r].id})
  BY <1>1, <1>3, Typed, EndMove, Blame DEF SameStore
<1>4. QED
  BY <1>2, <1>3 DEF MkdirAll

LEMMA ReapDoes ==
  ASSUME Types, NEW r \in Requests, ReapOrphan(r)
  PROVE  /\ Types' /\ SameStore /\ UNCHANGED <<res, dir, used, tokens>> /\ pc[r] = "reap" /\ Recalls
         /\ Goes(r, "define", loc[r]) /\ Name(r) \in Names
         /\ \/ dom' = Undefined(Name(r)) /\ (dom[Name(r)].id # NoID => <<"reaped", dom[Name(r)].id>> \in causes')
            \/ dom' = dom
<1>1. /\ SameStore /\ UNCHANGED <<res, dir, countVars, loc>> /\ pc[r] = "reap" /\ Proceed(r)
      /\ loc[r].op = "create" /\ Fits(r, "reap", loc[r]) /\ loc[r] \in Task /\ Name(r) \in Names
  BY OpAt, InHand DEF ReapOrphan, SameStore, Building, Shaped
<1>2. pc' = [pc EXCEPT ![r] = "define"] /\ "define" \in Pcs
  <2>1. "define" \in Pcs
    BY DEF Pcs, Stages
  <2>2. QED
    BY <1>1, <2>1, NextStep DEF Proceed, Goto
<1>3. Fits(r, "define", loc[r])
  BY <1>1 DEF Fits, Stages
<1>4. Recalls /\ (\/ dom' = Undefined(Name(r)) /\ (dom[Name(r)].id # NoID => <<"reaped", dom[Name(r)].id>> \in causes')
                  \/ dom' = dom)
  <2>1. CASE dom' = Undefined(Name(r)) /\ Because("reaped", {dom[Name(r)].id})
    BY <2>1, Blame
  <2>2. CASE UNCHANGED <<dom, causes>>
    BY <2>2 DEF Recalls
  <2>3. QED
    BY <2>1, <2>2 DEF ReapOrphan
<1>5. dom' \in [Names -> Domain]
  BY <1>1, <1>4, Typed
<1>6. Types' /\ Goes(r, "define", loc[r])
  BY <1>1, <1>2, <1>3, <1>5, Typed, Move DEF SameStore
<1>7. QED
  BY <1>1, <1>4, <1>6

LEMMA DefineDoes ==
  ASSUME Types, NEW r \in Requests, DomainDefineXML(r)
  PROVE  /\ Types' /\ SameStore /\ UNCHANGED <<res, dir, used, tokens, causes>> /\ pc[r] = "define"
         /\ Name(r) \in Names
         /\ \/ /\ dom[Name(r)] = NoDomain
               /\ dom' = [dom EXCEPT ![Name(r)] = [id |-> loc[r].id, st |-> "off"]]
               /\ Goes(r, IF loc[r].op = "create" THEN "boot" ELSE "put", [loc[r] EXCEPT !.dom = loc[r].id])
            \/ dom' = dom /\ Goes(r, "undoDom", loc[r])
<1> DEFINE q == IF loc[r].op = "create" THEN "boot" ELSE "put"
           w == [loc[r] EXCEPT !.dom = loc[r].id]
<1>1. /\ SameStore /\ UNCHANGED <<res, dir, countVars, causes>> /\ pc[r] = "define"
      /\ loc[r].op \in {"create", "clone"} /\ Fits(r, "define", loc[r]) /\ loc[r] \in Task
      /\ loc[r].id \in used /\ Name(r) \in Names /\ loc[r].id \in IDs
  BY OpAt, InHand DEF DomainDefineXML, SameStore, Building, Asking, Shaped
<1>2. {q, "undoDom"} \subseteq Pcs
  BY DEF Pcs, Stages
<1>3. CASE dom[Name(r)] = NoDomain /\ dom' = [dom EXCEPT ![Name(r)] = [id |-> loc[r].id, st |-> "off"]]
             /\ loc' = [loc EXCEPT ![r].dom = loc[r].id] /\ Proceed(r)
  <2>1. w \in Task /\ loc' = [loc EXCEPT ![r] = w]
    BY <1>1, <1>3 DEF Task, Types, Values
  <2>2. Fits(r, q, w)
    BY <1>1 DEF Task, Fits, Stages
  <2>3. pc' = [pc EXCEPT ![r] = q]
    BY <1>1, <1>3, NextStep DEF Proceed, Goto
  <2>4. dom' \in [Names -> Domain]
    BY <1>1, <1>3, Typed
  <2>5. QED
    BY <1>1, <1>2, <1>3, <2>1, <2>2, <2>3, <2>4, Typed, Move DEF SameStore
<1>4. CASE UNCHANGED <<dom, loc>> /\ Goto(r, "undoDom")
  <2>1. Fits(r, "undoDom", loc[r])
    BY <1>1 DEF Fits, Stages
  <2>2. QED
    BY <1>1, <1>2, <1>4, <2>1, Typed, Move DEF SameStore, Goto
<1>5. QED
  BY <1>3, <1>4 DEF DomainDefineXML

SameOwners == \A n \in Names : dom'[n].id = dom[n].id

LEMMA OwnerKept ==
  ASSUME Types, NEW n \in Names, NEW t, SetState(n, t)
  PROVE  SameOwners
BY Typed DEF SetState, SameOwners, Domain, NoDomain

LEMMA BootDoes ==
  ASSUME Types, NEW r \in Requests, BootDomain(r)
  PROVE  /\ Types' /\ SameStore /\ UNCHANGED <<res, dir, used, tokens, causes>> /\ pc[r] = "boot" /\ SameOwners
         /\ Goes(r, "put", loc[r]) \/ Goes(r, "undoDom", loc[r])
<1>1. /\ SameStore /\ UNCHANGED <<res, dir, countVars, causes, loc>> /\ pc[r] = "boot"
      /\ loc[r].op = "create" /\ Fits(r, "boot", loc[r]) /\ loc[r] \in Task /\ Name(r) \in Names
  BY OpAt, InHand DEF BootDomain, SameStore, Building, Shaped
<1>2. {"put", "undoDom"} \subseteq Pcs
  BY DEF Pcs, Stages
<1>3. Fits(r, "put", loc[r]) /\ Fits(r, "undoDom", loc[r])
  BY <1>1 DEF Fits, Stages
<1>4. CASE Handle(r) /\ SetState(Name(r), "running") /\ Proceed(r)
  <2>1. dom' \in [Names -> Domain]
    BY <1>1, <1>4, Typed DEF Handle, SetState
  <2>2. pc' = [pc EXCEPT ![r] = "put"]
    BY <1>1, <1>4, NextStep DEF Proceed, Goto
  <2>3. QED
    BY <1>1, <1>2, <1>3, <1>4, <2>1, <2>2, Typed, OwnerKept, Move DEF SameStore
<1>5. CASE UNCHANGED dom /\ Goto(r, "undoDom")
  BY <1>1, <1>2, <1>3, <1>5, Typed, Move DEF SameStore, SameOwners, Goto
<1>6. QED
  BY <1>4, <1>5 DEF BootDomain

\* The record that a write leaves.
Written(i, vm) ==
  /\ stored' = stored \cup {i}
  /\ rec' = [rec EXCEPT ![i] = [vm EXCEPT !.updated = rec[i].updated + 1]]

LEMMA PutTypes ==
  ASSUME Types, NEW i \in used, NEW vm \in Record, vm.name \in Names, Written(i, vm), used' = used
  PROVE  /\ stored' \subseteq used' /\ rec' \in [IDs -> Record] /\ \A j \in stored' : rec'[j].name \in Names
         /\ rec'[i] = [vm EXCEPT !.updated = rec[i].updated + 1]
         /\ \A j \in IDs \ {i} : rec'[j] = rec[j]
<1>1. i \in IDs /\ stored \subseteq used /\ used \subseteq IDs /\ rec \in [IDs -> Record]
  BY DEF Types, Values
<1>2. [vm EXCEPT !.updated = rec[i].updated + 1] \in Record
  BY <1>1 DEF Record
<1>3. QED
  BY <1>1, <1>2 DEF Written, Types, Record

LEMMA StoreDoes ==
  ASSUME Types, NEW r \in Requests, StoreNewVM(r)
  PROVE  /\ Types' /\ SameHost /\ UNCHANGED <<used, causes>> /\ pc[r] = "put"
         /\ LET i == loc[r].id IN
            \/ /\ Written(i, loc[r].vm)
               /\ pc'[r] = "idle" /\ loc'[r] = NoWork
               /\ \/ pc'[i] = "idle" /\ loc'[i] = NoWork
                  \/ /\ pc'[i] = "wait" /\ loc[r].op = "create" /\ loc[r].vm.ip = NoIP
                     /\ loc'[i] = [NoWork EXCEPT !.op = "monitor", !.id = i, !.vm = loc[r].vm]
               /\ \A y \in Actors \ {r, i} : pc'[y] = pc[y] /\ loc'[y] = loc[y]
               /\ tokens' = IF loc[r].op = "create" THEN tokens + 1 ELSE tokens
            \/ SameStore /\ tokens' = tokens /\ Goes(r, "undoDom", loc[r])
<1>0. PICK i \in IDs : i = loc[r].id /\ pc[r] = "put"
  BY InHand DEF StoreNewVM, Asking
<1> DEFINE m == [NoWork EXCEPT !.op = "monitor", !.id = i, !.vm = loc[r].vm]
           monitored == loc[r].op = "create" /\ loc[r].vm.ip = NoIP
<1>1. /\ SameHost /\ UNCHANGED <<used, ops, crashes, causes>> /\ pc[r] = "put" /\ Fits(r, "put", loc[r])
      /\ loc[r] \in Task /\ i \in used /\ i \in IDs /\ i # NoID /\ r \notin IDs /\ loc[r].vm.name \in Names
      /\ loc[r].vm \in Record /\ loc[r].op \in {"create", "clone"}
  BY <1>0, OpAt, InHand, IdentityAssumption DEF StoreNewVM, SameHost, Building, Asking, Shaped, Task, Fits
<1>2. {"idle", "wait", "undoDom"} \subseteq Pcs
  BY DEF Pcs, Stages
<1>3. CASE /\ PutVM(r, loc[r].vm)
           /\ pc' = [pc EXCEPT ![r] = "idle", ![i] = IF monitored THEN "wait" ELSE "idle"]
           /\ loc' = [loc EXCEPT ![r] = NoWork, ![i] = IF monitored THEN m ELSE NoWork]
           /\ tokens' = IF loc[r].op = "create" THEN tokens + 1 ELSE tokens
  <2>1. /\ m \in Task /\ m.op = "monitor" /\ m.id = i /\ m.vm = loc[r].vm /\ m.dom = NoID
    BY <1>1, Constants DEF Task, Stages
  <2> HIDE DEF m
  <2>2. Written(i, loc[r].vm)
    BY <1>0, <1>3 DEF PutVM, Written
  <2>3. /\ pc' \in [Actors -> Pcs] /\ loc' \in [Actors -> Task]
        /\ pc'[r] = "idle" /\ loc'[r] = NoWork
        /\ pc'[i] = (IF monitored THEN "wait" ELSE "idle") /\ loc'[i] = (IF monitored THEN m ELSE NoWork)
        /\ \A y \in Actors \ {r, i} : pc'[y] = pc[y] /\ loc'[y] = loc[y]
    BY <1>1, <1>2, <1>3, <2>1, Constants DEF Types, Values
  <2>4. \A y \in Actors \ {r, i} : Shaped(y)'
    BY <1>1, <2>3 DEF Types, Shaped, Fits
  <2>5. Shaped(r)'
    BY <1>1, <2>3, Constants DEF Shaped, Fits, Stages
  <2>6. Shaped(i)'
    <3>1. CASE monitored
      BY <1>1, <2>1, <2>3, <3>1 DEF Shaped, Fits, Stages
    <3>2. CASE ~monitored
      BY <1>1, <2>3, <3>2, Constants DEF Shaped, Fits, Stages
    <3>3. QED
      BY <3>1, <3>2
  <2>7. Domain' = Domain /\ Host' = Host
    BY <1>1 DEF Domain, Host
  <2>8. tokens' \in Int
    BY <1>3 DEF Types, Values
  <2>9. Values'
    BY <1>1, <2>2, <2>3, <2>7, <2>8, PutTypes, Typed DEF SameHost, Types, Values
  <2>10. Types'
    <3>1. \A y \in Actors : Shaped(y)'
      BY <2>4, <2>5, <2>6
    <3>2. \A j \in stored' : rec'[j].name \in Names
      BY <1>1, <2>2, PutTypes
    <3>3. QED
      BY <2>9, <3>1, <3>2 DEF Types
  <2>11. QED
    BY <1>0, <1>1, <1>3, <2>2, <2>3, <2>10 DEF m
<1>4. CASE Goto(r, "undoDom") /\ UNCHANGED <<storeVars, loc, tokens>>
  <2>1. Fits(r, "undoDom", loc[r])
    BY <1>1 DEF Fits, Stages
  <2>2. QED
    BY <1>1, <1>2, <1>4, <2>1, Typed, Move DEF SameStore, SameHost, Goto
<1>5. QED
  BY <1>0, <1>3, <1>4 DEF StoreNewVM

LEMMA UndoDomainDoes ==
  ASSUME Types, NEW r \in Requests, UndoDomain(r)
  PROVE  /\ Types' /\ SameStore /\ UNCHANGED <<res, dir, used, tokens>> /\ pc[r] = "undoDom" /\ Recalls
         /\ Goes(r, "undoHost", loc[r]) /\ Name(r) \in Names
         /\ \/ Handle(r) /\ dom' = Undefined(Name(r))
            \/ dom' = dom /\ (Handle(r) => <<"cleanup", loc[r].id>> \in causes')
<1>1. /\ SameStore /\ UNCHANGED <<res, dir, countVars, loc>> /\ pc[r] = "undoDom" /\ Goto(r, "undoHost")
      /\ Fits(r, "undoDom", loc[r]) /\ loc[r] \in Task /\ Name(r) \in Names /\ loc[r].id # NoID
      /\ loc[r].op \in {"create", "clone"}
  BY OpAt, InHand DEF UndoDomain, SameStore, Building, Asking, Shaped
<1>2. Fits(r, "undoHost", loc[r]) /\ "undoHost" \in Pcs
  BY <1>1 DEF Fits, Stages, Pcs
<1>3. Recalls /\ (\/ Handle(r) /\ dom' = Undefined(Name(r))
                  \/ dom' = dom /\ (Handle(r) => <<"cleanup", loc[r].id>> \in causes'))
  <2>1. CASE dom' = (IF Handle(r) THEN Undefined(Name(r)) ELSE dom) /\ UNCHANGED causes
    BY <2>1 DEF Recalls
  <2>2. CASE Handle(r) /\ UNCHANGED dom /\ Because("cleanup", {loc[r].id})
    BY <1>1, <2>2, Blame
  <2>3. QED
    BY <2>1, <2>2 DEF UndoDomain
<1>4. dom' \in [Names -> Domain]
  BY <1>1, <1>3, Typed
<1>5. QED
  BY <1>1, <1>2, <1>3, <1>4, Typed, Move DEF SameStore, Goto

LEMMA UndoHostDoes ==
  ASSUME Types, NEW r \in Requests, UndoHost(r)
  PROVE  /\ Types' /\ SameStore /\ UNCHANGED <<dom, used>> /\ pc[r] = "undoHost" /\ Recalls
         /\ Ends(r) /\ dir' = dir \ {loc[r].id}
         /\ \/ res' = Unreserve(loc[r].vm.ip, loc[r].id)
            \/ res' = res /\ <<"cleanup", loc[r].id>> \in causes'
<1>1. /\ SameStore /\ UNCHANGED <<dom, used, ops, crashes>> /\ pc[r] = "undoHost" /\ Return(r)
      /\ dir' = dir \ {loc[r].id} /\ loc[r].id \in used /\ loc[r].id # NoID /\ loc[r].vm.ip \in Addrs \cup {NoIP}
  BY OpAt, InHand DEF UndoHost, SameStore, Building, Asking, Task, Record
<1>2. Recalls /\ (\/ res' = Unreserve(loc[r].vm.ip, loc[r].id)
                  \/ res' = res /\ <<"cleanup", loc[r].id>> \in causes')
  <2>1. CASE res' = Unreserve(loc[r].vm.ip, loc[r].id) /\ UNCHANGED causes
    BY <2>1 DEF Recalls
  <2>2. CASE UNCHANGED res /\ Because("cleanup", {loc[r].id})
    BY <1>1, <2>2, Blame
  <2>3. QED
    BY <2>1, <2>2 DEF UndoHost
<1>3. res' \in [Addrs -> Host]
  <2>1. Unreserve(loc[r].vm.ip, loc[r].id) \in [Addrs -> Host]
    BY <1>1, Typed
  <2>2. QED
    BY <1>2, <2>1, Typed
<1>4. QED
  BY <1>1, <1>2, <1>3, Typed, EndMove DEF SameStore

-----------------------------------------------------------------------------
(* Power operations, update and delete. *)

LEMMA BeginDoes ==
  ASSUME Types, NEW r \in Requests, NEW i \in stored, NEW q \in Pcs, NEW w \in Task, Begin(r, q, w),
         w.op # "none", Fits(r, q, w),
         UNCHANGED <<storeVars, hostVars, used, tokens, crashes, causes>>
  PROVE  Types' /\ Same /\ UNCHANGED <<used, tokens, causes>> /\ pc[r] = "idle" /\ Goes(r, q, w)
<1>1. Goes(r, q, w) /\ pc' \in [Actors -> Pcs] /\ loc' \in [Actors -> Task] /\ pc[r] = "idle"
  BY GoesTypes DEF Begin, Goto
<1>2. Shaped(r)'
  BY <1>1 DEF Shaped, Fits, Goes
<1>3. Same
  BY DEF Same, SameStore, SameHost
<1>4. ops' \in 0..MaxOps /\ tokens' \in Int
  BY LimitAssumption DEF Begin, Types, Values
<1>5. QED
  BY <1>1, <1>2, <1>3, <1>4, LocalStep

\* A record in hand, and its domain.
LEMMA FoundWork ==
  ASSUME Types, NEW i \in stored, Found(i), NEW op \in DOMAIN Stages
  PROVE  /\ Work(op, i) \in Task /\ Work(op, i).op = op /\ Work(op, i).id = i /\ Work(op, i).vm = rec[i]
         /\ Work(op, i).dom = dom[rec[i].name].id /\ Work(op, i).dom \in used /\ Work(op, i).was = FALSE
         /\ i \in used /\ rec[i].name \in Names
<1>1. i \in used /\ i \in IDs /\ rec[i] \in Record /\ rec[i].name \in Names
  BY DEF Types, Values
<1>2. dom[rec[i].name].id \in used /\ dom[rec[i].name].id \in IDs
  BY <1>1, Typed DEF Found, Domain
<1>3. QED
  BY <1>1, <1>2, Constants DEF Work, Task, NoWork

\* A copy of i's record is in hand.
Copied(r, i, op, w) ==
  /\ w.op = op /\ w.id = i /\ w.vm = rec[i] /\ (op # "delete" => w.dom = dom[rec[i].name].id)
  /\ op = "delete" => w.dom = NoID

LEMMA PowerVMDoes ==
  ASSUME Types, NEW r \in Requests, PowerVM(r)
  PROVE  /\ Types' /\ Same /\ UNCHANGED <<used, tokens, causes>> /\ pc[r] = "idle"
         /\ \E i \in stored, w \in Task : Goes(r, "power", w) /\ Copied(r, i, "power", w)
<1>1. PICK i \in stored : Found(i) /\ Begin(r, "power", Work("power", i))
  BY DEF PowerVM
<1>2. "power" \in Pcs /\ "power" \in DOMAIN Stages
  BY DEF Pcs, Stages
<1> DEFINE w == Work("power", i)
<1>3. /\ w \in Task /\ w.op = "power" /\ w.id = i /\ w.vm = rec[i]
      /\ w.dom = dom[rec[i].name].id /\ w.dom \in used /\ i \in used /\ rec[i].name \in Names
  BY <1>1, <1>2, FoundWork
<1>4. Begin(r, "power", w)
  BY <1>1
<1> HIDE DEF w
<1>5. Fits(r, "power", w)
  BY <1>3, Typed, IdentityAssumption DEF Fits, Stages
<1>6. QED
  BY <1>2, <1>3, <1>4, <1>5, BeginDoes DEF PowerVM, Copied

LEMMA UpdateVMDoes ==
  ASSUME Types, NEW r \in Requests, UpdateVM(r)
  PROVE  /\ Types' /\ Same /\ UNCHANGED <<used, tokens, causes>> /\ pc[r] = "idle"
         /\ \E i \in stored, op \in Patches, q \in {"updatePut", "updateStop", "disk"}, w \in Task :
              Goes(r, q, w) /\ Copied(r, i, op, w) /\ (q = "updatePut" => op = "lock")
<1>1. PICK i \in stored, op \in Patches :
        /\ Found(i)
        /\ LET was == dom[rec[i].name].st = "running"
               meta == op = "lock"
               start == IF meta THEN "updatePut" ELSE IF was THEN "updateStop" ELSE Then[op]["updateStop"]
           IN Begin(r, start, [Work(op, i) EXCEPT !.was = was /\ ~meta])
  BY DEF UpdateVM
<1> DEFINE was == dom[rec[i].name].st = "running" /\ op # "lock"
           q == IF op = "lock" THEN "updatePut" ELSE IF was THEN "updateStop" ELSE "disk"
           w == [Work(op, i) EXCEPT !.was = was]
<1>2. op \in {"lock", "resize", "readdress"} /\ op \in DOMAIN Stages /\ q \in Pcs
  BY DEF Patches, Pcs, Stages
<1>3. /\ w \in Task /\ w.op = op /\ w.id = i /\ w.vm = rec[i] /\ (op = "lock" => ~w.was)
      /\ w.dom = dom[rec[i].name].id /\ w.dom \in used /\ i \in used /\ rec[i].name \in Names
  <2>1. /\ Work(op, i) \in Task /\ Work(op, i).op = op /\ Work(op, i).id = i /\ Work(op, i).vm = rec[i]
        /\ Work(op, i).dom = dom[rec[i].name].id /\ Work(op, i).dom \in used
        /\ i \in used /\ rec[i].name \in Names
    BY <1>1, <1>2, FoundWork
  <2>2. was \in BOOLEAN
    OBVIOUS
  <2> HIDE DEF was
  <2>3. w \in Task /\ w.was = was
    BY <2>1, <2>2 DEF Task
  <2>4. QED
    BY <2>1, <2>3 DEF Task, was
<1>4. Begin(r, q, w)
  <2>1. op # "lock" => Then[op]["updateStop"] = "disk"
    BY <1>2, NextStep
  <2>2. QED
    BY <1>1, <2>1
<1>5. q \in {"updatePut", "updateStop", "disk"} /\ (q = "updatePut" <=> op = "lock")
  OBVIOUS
<1> HIDE DEF w, q
<1>6. Fits(r, q, w)
  BY <1>2, <1>3, <1>5, Typed, IdentityAssumption DEF Fits, Stages
<1>7. QED
  BY <1>2, <1>3, <1>4, <1>5, <1>6, BeginDoes DEF UpdateVM, Copied

LEMMA DeleteVMDoes ==
  ASSUME Types, NEW r \in Requests, DeleteVM(r)
  PROVE  /\ Types' /\ Same /\ UNCHANGED <<used, tokens, causes>> /\ pc[r] = "idle"
         /\ \E i \in stored, w \in Task : Goes(r, "deleteDomain", w) /\ Copied(r, i, "delete", w)
<1>1. PICK i \in stored : Begin(r, "deleteDomain", [NoWork EXCEPT !.op = "delete", !.id = i, !.vm = rec[i]])
  BY DEF DeleteVM
<1>2. "deleteDomain" \in Pcs /\ "delete" \in DOMAIN Stages
  BY DEF Pcs, Stages
<1> DEFINE w == [NoWork EXCEPT !.op = "delete", !.id = i, !.vm = rec[i]]
<1>3. /\ w \in Task /\ w.op = "delete" /\ w.id = i /\ w.vm = rec[i]
      /\ w.dom = NoID /\ i \in used /\ i \in IDs /\ rec[i].name \in Names
  <2>1. i \in used /\ i \in IDs /\ rec[i] \in Record /\ rec[i].name \in Names
    BY DEF Types, Values
  <2>2. QED
    BY <1>2, <2>1, Constants DEF Task, NoWork
<1>4. Begin(r, "deleteDomain", w)
  BY <1>1
<1> HIDE DEF w
<1>5. Fits(r, "deleteDomain", w)
  BY <1>3, Typed, IdentityAssumption DEF Fits, Stages
<1>6. QED
  BY <1>2, <1>3, <1>4, <1>5, BeginDoes DEF DeleteVM, Copied

\* A step to q that leaves the work in hand, the records and the owners.
LEMMA StateStep ==
  ASSUME Types, NEW x \in Actors, NEW q \in Pcs, Fits(x, q, loc[x]), pc' = [pc EXCEPT ![x] = q],
         UNCHANGED <<stored, rec, used, ops, crashes, tokens, res, dir, loc>>,
         dom' = dom \/ \E t \in {"off", "running", "paused"} : dom[Name(x)].id # NoID /\ SetState(Name(x), t),
         pc[x] # "idle"
  PROVE  Types' /\ Goes(x, q, loc[x]) /\ SameOwners
<1>1. loc[x] \in Task /\ Name(x) \in Names
  BY InHand
<1>2. CASE dom' = dom
  BY <1>1, <1>2, Typed, Move DEF SameOwners
<1>3. CASE dom' # dom
  <2>1. PICK t \in {"off", "running", "paused"} : dom[Name(x)].id # NoID /\ SetState(Name(x), t)
    BY <1>3
  <2>2. dom' \in [Names -> Domain] /\ SameOwners
    BY <1>1, <2>1, Typed, OwnerKept DEF SetState
  <2>3. QED
    BY <1>1, <2>2, Typed, Move
<1>4. QED
  BY <1>2, <1>3

LEMMA StateEnd ==
  ASSUME Types, NEW x \in Actors, Return(x), UNCHANGED <<stored, rec, used, ops, crashes, res, dir>>,
         dom' = dom \/ \E t \in {"off", "running", "paused"} : dom[Name(x)].id # NoID /\ SetState(Name(x), t),
         pc[x] # "idle"
  PROVE  Types' /\ Ends(x) /\ SameOwners
<1>1. Name(x) \in Names
  BY InHand
<1>2. dom' \in [Names -> Domain] /\ SameOwners
  <2>1. CASE dom' = dom
    BY <2>1, Typed DEF SameOwners
  <2>2. CASE dom' # dom
    <3>1. PICK t \in {"off", "running", "paused"} : dom[Name(x)].id # NoID /\ SetState(Name(x), t)
      BY <2>2
    <3>2. QED
      BY <1>1, <3>1, Typed, OwnerKept DEF SetState
  <2>3. QED
    BY <2>1, <2>2
<1>3. QED
  BY <1>2, Typed, EndMove

\* Where a power operation takes a domain.
LEMMA PowerStates ==
  \A op \in PowerOps \cup {"start"} : \A e \in PowerEffect[op] : e[2] \in {"off", "running", "paused"}
BY DEF PowerOps, PowerEffect

LEMMA PowerDomainDoes ==
  ASSUME Types, NEW r \in Requests, PowerDomain(r)
  PROVE  /\ Types' /\ SameStore /\ UNCHANGED <<res, dir, used, causes>> /\ pc[r] = "power" /\ SameOwners
         /\ \/ Goes(r, "powerPut", loc[r]) /\ tokens' = tokens
            \/ Goes(r, "power", [loc[r] EXCEPT !.op = "start"]) /\ tokens' = tokens
            \/ Ends(r)
<1>1. /\ SameStore /\ UNCHANGED <<res, dir, used, ops, crashes, causes>> /\ pc[r] = "power" /\ Name(r) \in Names
      /\ loc[r].op \in {"power", "start"} /\ Fits(r, "power", loc[r]) /\ loc[r] \in Task
  BY OpAt, InHand DEF PowerDomain, SameStore
<1> DEFINE asked == IF loc[r].op = "power" THEN PowerOps ELSE {loc[r].op}
<1>2. "powerPut" \in Pcs /\ "power" \in Pcs /\ Fits(r, "powerPut", loc[r])
  BY <1>1 DEF Pcs, Stages, Fits
<1>3. Handle(r) => dom[Name(r)].id # NoID
  BY DEF Handle
<1>4. CASE /\ Handle(r) /\ Goto(r, "powerPut") /\ UNCHANGED <<loc, tokens>>
           /\ \E op \in asked : \E e \in PowerEffect[op] : SetState(Name(r), e[2])
  <2>1. \E t \in {"off", "running", "paused"} : SetState(Name(r), t)
    BY <1>1, <1>4, PowerStates
  <2>2. QED
    BY <1>1, <1>2, <1>3, <1>4, <2>1, StateStep DEF SameStore, Goto
<1>5. CASE Handle(r) /\ SetState(Name(r), "off") /\ loc' = [loc EXCEPT ![r].op = "start"] /\ UNCHANGED <<pc, tokens>>
  <2> DEFINE w == [loc[r] EXCEPT !.op = "start"]
  <2>1. w \in Task /\ loc' = [loc EXCEPT ![r] = w] /\ pc' = [pc EXCEPT ![r] = "power"]
    BY <1>1, <1>5 DEF Task, Stages, Types, Values
  <2>2. Fits(r, "power", w)
    BY <1>1 DEF Task, Fits, Stages
  <2>3. dom' \in [Names -> Domain] /\ SameOwners
    BY <1>1, <1>3, <1>5, Typed, OwnerKept DEF SetState
  <2>4. QED
    BY <1>1, <1>2, <1>5, <2>1, <2>2, <2>3, Typed, Move DEF SameStore
<1>6. CASE UNCHANGED dom /\ Return(r)
  BY <1>1, <1>6, StateEnd DEF SameStore
<1>7. QED
  BY <1>4, <1>5, <1>6 DEF PowerDomain

\* The end of an operation with a write.
LEMMA PutEnd ==
  ASSUME Types, NEW x \in Actors, NEW vm \in Record, vm.name \in Names, loc[x].id \in used, PutVM(x, vm),
         Return(x), SameHost, UNCHANGED <<used, ops, crashes>>
  PROVE  Types' /\ Ends(x) /\ Written(loc[x].id, vm)
<1>1. Written(loc[x].id, vm)
  BY DEF PutVM, Written
<1>2. /\ stored' \subseteq used' /\ rec' \in [IDs -> Record] /\ \A j \in stored' : rec'[j].name \in Names
  BY <1>1, PutTypes
<1>3. Domain' = Domain /\ Host' = Host
  BY DEF Domain, Host
<1>4. QED
  BY <1>1, <1>2, <1>3, Typed, EndStep DEF SameHost

LEMMA PowerPutDoes ==
  ASSUME Types, NEW r \in Requests, PowerPut(r)
  PROVE  /\ Types' /\ SameHost /\ UNCHANGED used /\ pc[r] = "powerPut" /\ Recalls /\ Ends(r)
         /\ \/ /\ Written(loc[r].id, loc[r].vm)
               /\ Overwrites(r) => <<"stale", loc[r].id>> \in causes'
            \/ SameStore /\ causes' = causes
<1>1. /\ SameHost /\ UNCHANGED <<used, ops, crashes>> /\ pc[r] = "powerPut" /\ Return(r)
      /\ loc[r].id \in used /\ loc[r].id # NoID /\ loc[r].vm \in Record /\ loc[r].vm.name \in Names
  BY OpAt, InHand DEF PowerPut, SameHost, Asking, Task, Fits
<1>2. CASE PutVM(r, loc[r].vm) /\ IF Overwrites(r) THEN Because("stale", {loc[r].id}) ELSE UNCHANGED causes
  <2>1. Types' /\ Ends(r) /\ Written(loc[r].id, loc[r].vm)
    BY <1>1, <1>2, PutEnd
  <2>2. Recalls /\ (Overwrites(r) => <<"stale", loc[r].id>> \in causes')
    <3>1. CASE Overwrites(r)
      BY <1>1, <1>2, <3>1, Blame
    <3>2. CASE ~Overwrites(r)
      BY <1>2, <3>2 DEF Recalls
    <3>3. QED
      BY <3>1, <3>2
  <2>3. QED
    BY <1>1, <2>1, <2>2
<1>3. CASE UNCHANGED <<storeVars, causes>>
  BY <1>1, <1>3, LocalEnd DEF Same, SameStore, SameHost, Recalls
<1>4. QED
  BY <1>2, <1>3 DEF PowerPut

LEMMA UpdateStopDoes ==
  ASSUME Types, NEW r \in Requests, UpdateStop(r)
  PROVE  /\ Types' /\ SameStore /\ UNCHANGED <<res, dir, used, causes>> /\ pc[r] = "updateStop" /\ SameOwners
         /\ \/ Goes(r, "disk", loc[r]) /\ tokens' = tokens
            \/ Ends(r)
<1>1. /\ SameStore /\ UNCHANGED <<res, dir, used, ops, crashes, causes>> /\ pc[r] = "updateStop"
      /\ loc[r].op \in {"resize", "readdress"} /\ Fits(r, "updateStop", loc[r])
  BY OpAt, InHand DEF UpdateStop, SameStore
<1>2. CASE Handle(r) /\ SetState(Name(r), "off") /\ Proceed(r) /\ UNCHANGED <<loc, tokens>>
  <2>1. pc' = [pc EXCEPT ![r] = "disk"]
    BY <1>1, <1>2, NextStep DEF Proceed, Goto
  <2>2. Fits(r, "disk", loc[r]) /\ dom[Name(r)].id # NoID /\ "disk" \in Pcs
    BY <1>1, <1>2 DEF Fits, Pcs, Stages, Handle
  <2>3. QED
    BY <1>1, <1>2, <2>1, <2>2, StateStep DEF SameStore
<1>3. CASE UNCHANGED dom /\ Return(r)
  BY <1>1, <1>3, StateEnd DEF SameStore
<1>4. QED
  BY <1>2, <1>3 DEF UpdateStop

LEMMA GrowDiskDoes ==
  ASSUME Types, NEW r \in Requests, GrowDisk(r)
  PROVE  /\ Types' /\ SameStore /\ UNCHANGED <<res, dir, used, causes>> /\ pc[r] = "disk" /\ SameOwners
         /\ \/ Goes(r, IF loc[r].op = "resize" THEN "redefine" ELSE "oldAddress", loc[r]) /\ tokens' = tokens
            \/ Ends(r)
<1> DEFINE q == IF loc[r].op = "resize" THEN "redefine" ELSE "oldAddress"
<1>1. /\ SameStore /\ UNCHANGED <<res, dir, used, ops, crashes, causes>> /\ pc[r] = "disk"
      /\ loc[r].op \in {"resize", "readdress"} /\ Fits(r, "disk", loc[r]) /\ Name(r) \in Names
  BY OpAt, InHand DEF GrowDisk, SameStore
<1>2. CASE Proceed(r) /\ UNCHANGED <<dom, loc, tokens>>
  <2>1. pc' = [pc EXCEPT ![r] = q]
    BY <1>1, <1>2, NextStep DEF Proceed, Goto
  <2>2. Fits(r, q, loc[r]) /\ q \in Pcs
    BY <1>1 DEF Fits, Stages, Pcs
  <2>3. QED
    BY <1>1, <1>2, <2>1, <2>2, StateStep DEF SameStore
<1>3. CASE Return(r) /\ IF loc[r].was /\ Handle(r) /\ dom[Name(r)].st = "off"
           THEN dom' \in {dom, [dom EXCEPT ![Name(r)].st = "running"]} ELSE UNCHANGED dom
  <2>1. dom' = dom \/ (dom[Name(r)].id # NoID /\ SetState(Name(r), "running"))
    BY <1>3 DEF SetState, Handle
  <2>2. QED
    BY <1>1, <1>3, <2>1, StateEnd DEF SameStore
<1>4. QED
  BY <1>2, <1>3 DEF GrowDisk

\* An update that stops after the reservation was moved.
LEMMA AbandonedDoes ==
  ASSUME Types, NEW r \in Requests, Abandoned(r), loc[r].id # NoID
  PROVE  Recalls /\ (loc[r].op = "readdress" => <<"update", loc[r].id>> \in causes')
BY Blame DEF Abandoned

LEMMA RedefineDoes ==
  ASSUME Types, NEW r \in Requests, RedefineDomain(r)
  PROVE  /\ Types' /\ SameStore /\ UNCHANGED <<res, dir, used>> /\ pc[r] = "redefine" /\ Recalls
         /\ Name(r) \in Names /\ loc[r].dom \in used
         /\ \/ /\ Goes(r, "updatePut", loc[r]) /\ tokens' = tokens
               /\ \/ dom' = dom
                  \/ /\ dom[Name(r)] = NoDomain /\ dom' = [dom EXCEPT ![Name(r)] = [id |-> loc[r].dom, st |-> "off"]]
                     /\ <<"redefined", loc[r].dom>> \in causes'
            \/ dom' = dom /\ Ends(r) /\ (loc[r].op = "readdress" => <<"update", loc[r].id>> \in causes')
<1>1. /\ SameStore /\ UNCHANGED <<res, dir, used, ops, crashes>> /\ pc[r] = "redefine" /\ Name(r) \in Names
      /\ loc[r].op \in {"resize", "readdress"} /\ Fits(r, "redefine", loc[r]) /\ loc[r].id # NoID
      /\ loc[r] \in Task /\ loc[r].dom \in used /\ loc[r].dom # NoID
  BY OpAt, InHand, IdentityAssumption, Typed DEF RedefineDomain, SameStore, Asking, Fits
<1>2. CASE /\ Handle(r) \/ dom[Name(r)] = NoDomain
           /\ IF Handle(r) THEN UNCHANGED <<dom, causes>>
              ELSE /\ dom' = [dom EXCEPT ![Name(r)] = [id |-> loc[r].dom, st |-> "off"]]
                   /\ Because("redefined", {loc[r].dom})
           /\ Proceed(r) /\ UNCHANGED <<loc, tokens>>
  <2>1. pc' = [pc EXCEPT ![r] = "updatePut"]
    BY <1>1, <1>2, NextStep DEF Proceed, Goto
  <2>2. Fits(r, "updatePut", loc[r]) /\ "updatePut" \in Pcs
    BY <1>1 DEF Fits, Stages, Pcs
  <2>3. CASE Handle(r)
    BY <1>1, <1>2, <2>1, <2>2, <2>3, Typed, Move DEF SameStore, Recalls
  <2>4. CASE ~Handle(r)
    <3>1. Recalls /\ <<"redefined", loc[r].dom>> \in causes'
      BY <1>1, <1>2, <2>4, Blame
    <3>2. dom' = [dom EXCEPT ![Name(r)] = [id |-> loc[r].dom, st |-> "off"]]
      BY <1>2, <2>4
    <3>3. [dom EXCEPT ![Name(r)] = [id |-> loc[r].dom, st |-> "off"]] \in [Names -> Domain]
      BY <1>1, Typed
    <3>4. QED
      BY <1>1, <1>2, <2>1, <2>2, <2>4, <3>1, <3>2, <3>3, Typed, Move DEF SameStore
  <2>5. QED
    BY <2>3, <2>4
<1>3. CASE UNCHANGED dom /\ Return(r) /\ Abandoned(r)
  BY <1>1, <1>3, AbandonedDoes, Typed, EndMove DEF SameStore
<1>4. QED
  BY <1>2, <1>3 DEF RedefineDomain

\* The entry of an address is taken out.
LEMMA UnreserveTyped ==
  ASSUME Types, NEW x \in Actors, loc[x].id \in used, res' = Unreserve(loc[x].vm.ip, loc[x].id) \/ res' = res
  PROVE  res' \in [Addrs -> Host]
<1>1. loc[x].vm.ip \in Addrs \cup {NoIP}
  BY OpAt DEF Task, Record
<1>2. Unreserve(loc[x].vm.ip, loc[x].id) \in [Addrs -> Host]
  BY <1>1, Typed
<1>3. QED
  BY <1>2, Typed

LEMMA DropOldDoes ==
  ASSUME Types, NEW r \in Requests, DropOldAddress(r)
  PROVE  /\ Types' /\ SameStore /\ UNCHANGED <<dom, dir, used, tokens>> /\ pc[r] = "oldAddress" /\ Recalls
         /\ Goes(r, "newAddress", loc[r]) /\ loc[r].op = "readdress"
         /\ \/ res' = Unreserve(loc[r].vm.ip, loc[r].id)
            \/ res' = res /\ <<"cleanup", loc[r].id>> \in causes'
<1>1. /\ SameStore /\ UNCHANGED <<dom, dir, countVars, loc>> /\ pc[r] = "oldAddress" /\ Proceed(r)
      /\ loc[r].op = "readdress" /\ Fits(r, "oldAddress", loc[r]) /\ loc[r] \in Task /\ loc[r].id # NoID
      /\ loc[r].id \in used
  BY OpAt, InHand DEF DropOldAddress, SameStore, Asking
<1>2. pc' = [pc EXCEPT ![r] = "newAddress"]
  BY <1>1, NextStep DEF Proceed, Goto
<1>3. Fits(r, "newAddress", loc[r]) /\ "newAddress" \in Pcs
  BY <1>1 DEF Fits, Stages, Pcs
<1>4. Recalls /\ (\/ res' = Unreserve(loc[r].vm.ip, loc[r].id)
                  \/ res' = res /\ <<"cleanup", loc[r].id>> \in causes')
  <2>1. CASE res' = Unreserve(loc[r].vm.ip, loc[r].id) /\ UNCHANGED causes
    BY <2>1 DEF Recalls
  <2>2. CASE UNCHANGED res /\ Because("cleanup", {loc[r].id})
    BY <1>1, <2>2, Blame
  <2>3. QED
    BY <2>1, <2>2 DEF DropOldAddress
<1>5. res' \in [Addrs -> Host]
  BY <1>1, <1>4, UnreserveTyped
<1>6. QED
  BY <1>1, <1>2, <1>3, <1>4, <1>5, Typed, Move DEF SameStore

LEMMA AddNewDoes ==
  ASSUME Types, NEW r \in Requests, AddNewAddress(r)
  PROVE  /\ Types' /\ SameStore /\ UNCHANGED <<dom, dir, used>> /\ pc[r] = "newAddress" /\ Recalls
         /\ loc[r].op = "readdress" /\ Name(r) \in Names
         /\ \/ \E a \in Addrs \ {loc[r].vm.ip} :
                 /\ CanReserve(a, loc[r].id, Name(r))
                 /\ res' = [res EXCEPT ![a] = [id |-> loc[r].id, name |-> Name(r)]]
                 /\ Goes(r, "newISO", [loc[r] EXCEPT !.ip = a]) /\ tokens' = tokens /\ causes' = causes
            \/ res' = res /\ Ends(r) /\ <<"update", loc[r].id>> \in causes'
<1>1. /\ SameStore /\ UNCHANGED <<dom, dir, used, ops, crashes>> /\ pc[r] = "newAddress" /\ Name(r) \in Names
      /\ loc[r].op = "readdress" /\ Fits(r, "newAddress", loc[r]) /\ loc[r] \in Task /\ loc[r].id # NoID
      /\ loc[r].id \in used
  BY OpAt, InHand DEF AddNewAddress, SameStore, Asking
<1>2. ASSUME NEW a \in Addrs \ {loc[r].vm.ip}, Proceed(r), UNCHANGED <<tokens, causes>>,
             res' = [res EXCEPT ![a] = [id |-> loc[r].id, name |-> Name(r)]], loc' = [loc EXCEPT ![r].ip = a]
      PROVE  Types' /\ Recalls /\ Goes(r, "newISO", [loc[r] EXCEPT !.ip = a])
  <2> DEFINE w == [loc[r] EXCEPT !.ip = a]
  <2>1. w \in Task /\ loc' = [loc EXCEPT ![r] = w] /\ Fits(r, "newISO", w)
    BY <1>1, <1>2 DEF Task, Types, Values, Fits, Stages
  <2>2. pc' = [pc EXCEPT ![r] = "newISO"]
    BY <1>1, <1>2, NextStep DEF Proceed, Goto
  <2>3. [res EXCEPT ![a] = [id |-> loc[r].id, name |-> Name(r)]] \in [Addrs -> Host] /\ "newISO" \in Pcs
    BY <1>1, Typed DEF Pcs, Stages
  <2>4. QED
    BY <1>1, <1>2, <2>1, <2>2, <2>3, Typed, Move DEF SameStore, Recalls
<1>3. CASE UNCHANGED res /\ Return(r) /\ Abandoned(r)
  BY <1>1, <1>3, AbandonedDoes, Typed, EndMove DEF SameStore
<1>4. QED
  BY <1>1, <1>2, <1>3 DEF AddNewAddress

LEMMA RegenerateDoes ==
  ASSUME Types, NEW r \in Requests, RegenerateISO(r)
  PROVE  /\ Types' /\ Same /\ UNCHANGED used /\ pc[r] = "newISO" /\ Recalls /\ loc[r].op = "readdress"
         /\ \/ Goes(r, "redefine", loc[r]) /\ tokens' = tokens
            \/ Ends(r) /\ <<"update", loc[r].id>> \in causes'
<1>1. /\ Same /\ UNCHANGED <<used, ops, crashes>> /\ pc[r] = "newISO" /\ Name(r) \in Names
      /\ loc[r].op = "readdress" /\ Fits(r, "newISO", loc[r]) /\ loc[r] \in Task /\ loc[r].id # NoID
  BY OpAt, InHand DEF RegenerateISO, Same, SameStore, SameHost, Asking
<1>2. CASE Proceed(r) /\ UNCHANGED <<loc, tokens, causes>>
  <2>1. pc' = [pc EXCEPT ![r] = "redefine"]
    BY <1>1, <1>2, NextStep DEF Proceed, Goto
  <2>2. Fits(r, "redefine", loc[r]) /\ "redefine" \in Pcs
    BY <1>1 DEF Fits, Stages, Pcs
  <2>3. QED
    BY <1>1, <1>2, <2>1, <2>2, Typed, Move DEF Same, SameStore, SameHost, Recalls
<1>3. CASE Return(r) /\ Abandoned(r)
  BY <1>1, <1>3, AbandonedDoes, LocalEnd
<1>4. QED
  BY <1>2, <1>3 DEF RegenerateISO

\* What an update writes keeps the name.
LEMMA PatchedIs ==
  ASSUME Types, NEW r \in Requests, pc[r] = "updatePut"
  PROVE  /\ Patched(loc[r]) \in Record /\ Patched(loc[r]).name = Name(r)
         /\ Patched(loc[r]).ip = IF loc[r].op = "readdress" THEN loc[r].ip ELSE loc[r].vm.ip
<1>1. loc[r] \in Task /\ loc[r].vm \in Record /\ loc[r].op \in {"lock", "resize", "readdress"}
  BY OpAt DEF Task
<1>2. CASE loc[r].op = "lock"
  <2>1. Patched(loc[r]) = [loc[r].vm EXCEPT !.locked = ~loc[r].vm.locked]
    BY <1>2 DEF Patched
  <2>2. QED
    BY <1>1, <1>2, <2>1 DEF Record, Name
<1>3. CASE loc[r].op = "readdress"
  <2>1. Patched(loc[r]) = [loc[r].vm EXCEPT !.ip = loc[r].ip]
    BY <1>3 DEF Patched
  <2>2. QED
    BY <1>1, <1>3, <2>1 DEF Record, Name, Task
<1>4. CASE loc[r].op = "resize"
  BY <1>1, <1>4 DEF Patched, Name
<1>5. QED
  BY <1>1, <1>2, <1>3, <1>4

LEMMA UpdatePutDoes ==
  ASSUME Types, NEW r \in Requests, UpdatePut(r)
  PROVE  /\ Types' /\ SameHost /\ UNCHANGED used /\ pc[r] = "updatePut" /\ Recalls
         /\ \/ /\ Written(loc[r].id, Patched(loc[r]))
               /\ Overwrites(r) => <<"stale", loc[r].id>> \in causes'
               /\ Ends(r) \/ (Goes(r, "updateBoot", loc[r]) /\ tokens' = tokens)
            \/ SameStore /\ Ends(r) /\ (loc[r].op = "readdress" => <<"update", loc[r].id>> \in causes')
<1>1. /\ SameHost /\ UNCHANGED <<used, ops, crashes>> /\ pc[r] = "updatePut"
      /\ loc[r].id \in used /\ loc[r].id # NoID /\ Name(r) \in Names /\ Fits(r, "updatePut", loc[r])
      /\ loc[r] \in Task
  BY OpAt, InHand DEF UpdatePut, SameHost, Asking
<1>2. CASE /\ PutVM(r, Patched(loc[r]))
           /\ IF Overwrites(r) THEN Because("stale", {loc[r].id}) ELSE UNCHANGED causes
           /\ IF loc[r].was THEN Goto(r, "updateBoot") /\ UNCHANGED <<loc, tokens>> ELSE Return(r)
  <2>1. Recalls /\ (Overwrites(r) => <<"stale", loc[r].id>> \in causes')
    <3>1. CASE Overwrites(r)
      BY <1>1, <1>2, <3>1, Blame
    <3>2. CASE ~Overwrites(r)
      BY <1>2, <3>2 DEF Recalls
    <3>3. QED
      BY <3>1, <3>2
  <2>2. Patched(loc[r]) \in Record /\ Patched(loc[r]).name \in Names
    BY <1>1, PatchedIs
  <2>3. Written(loc[r].id, Patched(loc[r]))
    BY <1>2 DEF PutVM, Written
  <2>4. CASE loc[r].was
    <3>1. pc' = [pc EXCEPT ![r] = "updateBoot"] /\ loc' = loc /\ "updateBoot" \in Pcs
      BY <1>2, <2>4 DEF Goto, Pcs, Stages
    <3>2. Goes(r, "updateBoot", loc[r]) /\ pc' \in [Actors -> Pcs] /\ loc' \in [Actors -> Task]
      BY <1>1, <3>1, GoesTypes
    <3>3. loc[r].op \in {"resize", "readdress"}
      BY <1>1, <2>4, OpAt DEF Fits
    <3>4. Fits(r, "updateBoot", loc[r])
      BY <1>1, <3>3 DEF Fits, Stages
    <3>5. Shaped(r)'
      BY <1>1, <3>2, <3>4 DEF Shaped, Fits, Goes
    <3>6. Domain' = Domain /\ Host' = Host
      BY <1>1 DEF Domain, Host
    <3>7. stored' \subseteq used' /\ rec' \in [IDs -> Record] /\ \A j \in stored' : rec'[j].name \in Names
      BY <1>1, <2>2, <2>3, PutTypes
    <3>8. tokens' = tokens
      BY <1>2, <2>4
    <3>9. Values'
      BY <1>1, <3>2, <3>6, <3>7, <3>8, Typed DEF SameHost, Types, Values
    <3>10. QED
      BY <1>1, <2>1, <2>3, <3>2, <3>5, <3>7, <3>8, <3>9, TypesKept DEF Goes
  <2>5. CASE ~loc[r].was
    BY <1>1, <1>2, <2>1, <2>2, <2>5, PutEnd
  <2>6. QED
    BY <2>4, <2>5
<1>3. CASE UNCHANGED storeVars /\ Return(r) /\ Abandoned(r)
  BY <1>1, <1>3, AbandonedDoes, LocalEnd DEF Same, SameStore, SameHost
<1>4. QED
  BY <1>2, <1>3 DEF UpdatePut

LEMMA UpdateBootDoes ==
  ASSUME Types, NEW r \in Requests, UpdateBoot(r)
  PROVE  /\ Types' /\ SameStore /\ UNCHANGED <<res, dir, used, causes>> /\ pc[r] = "updateBoot" /\ SameOwners
         /\ Ends(r)
<1>1. /\ SameStore /\ UNCHANGED <<res, dir, used, ops, crashes, causes>> /\ pc[r] = "updateBoot" /\ Return(r)
      /\ Name(r) \in Names
  BY InHand DEF UpdateBoot, SameStore
<1>2. dom' = dom \/ (dom[Name(r)].id # NoID /\ SetState(Name(r), "running"))
  BY <1>1, Typed, IdentityAssumption DEF UpdateBoot, SetState, Domain, NoDomain
<1>3. QED
  BY <1>1, <1>2, StateEnd DEF SameStore

LEMMA DeleteDomainDoes ==
  ASSUME Types, NEW r \in Requests, DeleteDomain(r)
  PROVE  /\ Types' /\ SameStore /\ UNCHANGED <<res, dir, used, tokens>> /\ pc[r] = "deleteDomain" /\ Recalls
         /\ Goes(r, "deleteHost", loc[r]) /\ loc[r].op = "delete" /\ Name(r) \in Names
         /\ LET owner == dom[Name(r)].id IN
            \/ /\ dom' = Undefined(Name(r))
               /\ owner \in {NoID, loc[r].id} \/ <<"byname", owner>> \in causes'
            \/ dom' = dom /\ owner # NoID /\ <<"cleanup", owner>> \in causes'
<1> DEFINE owner == dom[Name(r)].id
<1>1. /\ SameStore /\ UNCHANGED <<res, dir, countVars, loc>> /\ pc[r] = "deleteDomain" /\ Goto(r, "deleteHost")
      /\ Name(r) \in Names /\ loc[r].op = "delete" /\ Fits(r, "deleteDomain", loc[r]) /\ loc[r] \in Task
  BY OpAt, InHand DEF DeleteDomain, SameStore
<1>2. Fits(r, "deleteHost", loc[r]) /\ "deleteHost" \in Pcs
  BY <1>1 DEF Fits, Stages, Pcs
<1>3. Recalls /\ \/ /\ dom' = Undefined(Name(r))
                    /\ owner \in {NoID, loc[r].id} \/ <<"byname", owner>> \in causes'
                 \/ dom' = dom /\ owner # NoID /\ <<"cleanup", owner>> \in causes'
  <2>1. CASE dom' = Undefined(Name(r)) /\ Because("byname", {owner} \ {loc[r].id})
    <3>1. Recalls /\ \A i \in {owner} \ {loc[r].id} : i # NoID => <<"byname", i>> \in causes'
      BY <2>1, Blame
    <3>2. QED
      BY <2>1, <3>1
  <2>2. CASE owner # NoID /\ UNCHANGED dom /\ Because("cleanup", {owner})
    BY <2>2, Blame
  <2>3. QED
    BY <2>1, <2>2 DEF DeleteDomain
<1>4. dom' \in [Names -> Domain]
  BY <1>1, <1>3, Typed
<1>5. QED
  BY <1>1, <1>2, <1>3, <1>4, Typed, Move DEF SameStore, Goto

LEMMA DeleteHostDoes ==
  ASSUME Types, NEW r \in Requests, DeleteHost(r)
  PROVE  /\ Types' /\ SameStore /\ UNCHANGED <<dom, dir, used, tokens>> /\ pc[r] = "deleteHost" /\ Recalls
         /\ Goes(r, "deleteDir", loc[r]) /\ loc[r].op = "delete"
         /\ \/ res' = Unreserve(loc[r].vm.ip, loc[r].id)
            \/ res' = res /\ <<"cleanup", loc[r].id>> \in causes'
<1>1. /\ SameStore /\ UNCHANGED <<dom, dir, countVars, loc>> /\ pc[r] = "deleteHost" /\ Goto(r, "deleteDir")
      /\ loc[r].id \in used /\ loc[r].id # NoID /\ loc[r].op = "delete" /\ Fits(r, "deleteHost", loc[r])
      /\ loc[r] \in Task
  BY OpAt, InHand DEF DeleteHost, SameStore, Asking
<1>2. Fits(r, "deleteDir", loc[r]) /\ "deleteDir" \in Pcs
  BY <1>1 DEF Fits, Stages, Pcs
<1>3. Recalls /\ (\/ res' = Unreserve(loc[r].vm.ip, loc[r].id)
                  \/ res' = res /\ <<"cleanup", loc[r].id>> \in causes')
  <2>1. CASE res' = Unreserve(loc[r].vm.ip, loc[r].id) /\ UNCHANGED causes
    BY <2>1 DEF Recalls
  <2>2. CASE UNCHANGED res /\ Because("cleanup", {loc[r].id})
    BY <1>1, <2>2, Blame
  <2>3. QED
    BY <2>1, <2>2 DEF DeleteHost
<1>4. res' \in [Addrs -> Host]
  BY <1>1, <1>3, UnreserveTyped
<1>5. QED
  BY <1>1, <1>2, <1>3, <1>4, Typed, Move DEF SameStore, Goto

LEMMA DeleteDirDoes ==
  ASSUME Types, NEW r \in Requests, DeleteDir(r)
  PROVE  /\ Types' /\ SameStore /\ UNCHANGED <<dom, res, used, tokens, causes>> /\ pc[r] = "deleteDir"
         /\ Goes(r, "deleteRecord", loc[r]) /\ loc[r].op = "delete" /\ dir' = dir \ {loc[r].id}
<1>1. /\ SameStore /\ UNCHANGED <<dom, res, countVars, loc, causes>> /\ pc[r] = "deleteDir"
      /\ Goto(r, "deleteRecord") /\ dir' = dir \ {loc[r].id}
      /\ loc[r].op = "delete" /\ Fits(r, "deleteDir", loc[r]) /\ loc[r] \in Task
  BY OpAt, InHand DEF DeleteDir, SameStore, Asking
<1>2. Fits(r, "deleteRecord", loc[r]) /\ "deleteRecord" \in Pcs
  BY <1>1 DEF Fits, Stages, Pcs
<1>3. QED
  BY <1>1, <1>2, Typed, Move DEF SameStore, Goto

\* The record is gone; how often it was written is remembered.
Deleted(i) ==
  stored' = stored \ {i} /\ rec' = [rec EXCEPT ![i] = [NoRecord EXCEPT !.updated = rec[i].updated]]

LEMMA DeleteRecordDoes ==
  ASSUME Types, NEW r \in Requests, DeleteRecord(r)
  PROVE  /\ Types' /\ SameHost /\ UNCHANGED used /\ pc[r] = "deleteRecord" /\ Recalls /\ Ends(r)
         /\ loc[r].op = "delete"
         /\ \/ /\ Deleted(loc[r].id) /\ <<"deleted", loc[r].id>> \in causes'
               /\ Overwrites(r) => <<"stale", loc[r].id>> \in causes'
            \/ SameStore /\ <<"halfDeleted", loc[r].id>> \in causes'
<1>1. /\ SameHost /\ UNCHANGED <<used, ops, crashes>> /\ pc[r] = "deleteRecord" /\ Return(r)
      /\ loc[r].id \in used /\ loc[r].id # NoID /\ loc[r].op = "delete"
  BY OpAt, InHand DEF DeleteRecord, SameHost, Asking
<1>2. CASE Deleted(loc[r].id)
           /\ causes' = causes \cup {<<"deleted", loc[r].id>>}
                \cup (IF Overwrites(r) THEN {<<"stale", loc[r].id>>} ELSE {})
  <2>1. PICK i \in used : i = loc[r].id /\ i \in IDs
    BY <1>1, Typed
  <2>2. [NoRecord EXCEPT !.updated = rec[i].updated] \in Record
    BY <2>1, Constants DEF Types, Values, Record
  <2>3. stored' \subseteq used' /\ rec' \in [IDs -> Record]
    BY <1>1, <1>2, <2>1, <2>2 DEF Types, Values, Deleted
  <2>4. \A j \in stored' : rec'[j].name \in Names
    BY <1>2, <2>1 DEF Types, Values, Deleted
  <2>5. Recalls /\ <<"deleted", loc[r].id>> \in causes' /\ (Overwrites(r) => <<"stale", loc[r].id>> \in causes')
    BY <1>2 DEF Recalls
  <2>6. Domain' = Domain /\ Host' = Host
    BY <1>1 DEF Domain, Host
  <2>7. QED
    BY <1>1, <1>2, <2>3, <2>4, <2>5, <2>6, Typed, EndStep DEF SameHost
<1>3. CASE UNCHANGED storeVars /\ Because("halfDeleted", {loc[r].id})
  BY <1>1, <1>3, Blame, LocalEnd DEF Same, SameStore, SameHost
<1>4. QED
  BY <1>2, <1>3 DEF DeleteRecord, Deleted

-----------------------------------------------------------------------------
(* The IP monitor, the guest and the crash. *)

\* A monitor looks after its own VM.
LEMMA MonitorHas ==
  ASSUME Types, NEW i \in Monitors, pc[i] # "idle"
  PROVE  /\ i \in Actors /\ i \in used /\ i # NoID /\ loc[i].id = i /\ loc[i].op = "monitor" /\ Name(i) \in Names
         /\ loc[i] \in Task /\ loc[i].vm \in Record /\ Fits(i, pc[i], loc[i])
<1>1. loc[i] \in Task /\ Shaped(i) /\ loc[i].op # "none"
  BY OpAt
<1>2. loc[i].op = "monitor" /\ loc[i].id = i
  BY <1>1 DEF Shaped, Fits
<1>3. ~Asking(i)
  BY <1>1, <1>2 DEF Asking, Shaped, Fits, Stages
<1>4. QED
  BY <1>1, <1>2, <1>3, InHand DEF Task

LEMMA SeesIPDoes ==
  ASSUME Types, NEW i \in Monitors, MonitorSeesIP(i)
  PROVE  Types' /\ Same /\ UNCHANGED <<used, causes>> /\ pc[i] = "wait" /\ Ends(i)
<1>1. Same /\ UNCHANGED <<used, ops, crashes, causes>> /\ pc[i] = "wait" /\ Return(i)
  BY DEF MonitorSeesIP, Same, SameStore, SameHost
<1>2. QED
  BY <1>1, LocalEnd

LEMMA TimesOutDoes ==
  ASSUME Types, NEW i \in Monitors, MonitorTimesOut(i)
  PROVE  /\ Types' /\ Same /\ UNCHANGED <<used, causes>> /\ pc[i] = "wait"
         /\ \/ \E a \in Addrs : Goes(i, "fallback", [loc[i] EXCEPT !.ip = a]) /\ tokens' = tokens
            \/ Ends(i)
<1>1. /\ Same /\ UNCHANGED <<used, ops, crashes, causes>> /\ pc[i] = "wait" /\ loc[i] \in Task
      /\ loc[i].op = "monitor" /\ Fits(i, "wait", loc[i])
  BY MonitorHas DEF MonitorTimesOut, Same, SameStore, SameHost
<1>2. ASSUME NEW a \in Addrs, loc' = [loc EXCEPT ![i].ip = a], Goto(i, "fallback"), UNCHANGED tokens
      PROVE  Types' /\ Goes(i, "fallback", [loc[i] EXCEPT !.ip = a])
  <2> DEFINE w == [loc[i] EXCEPT !.ip = a]
  <2>1. w \in Task /\ loc' = [loc EXCEPT ![i] = w] /\ Fits(i, "fallback", w)
    BY <1>1, <1>2 DEF Task, Types, Values, Fits, Stages
  <2>2. pc' = [pc EXCEPT ![i] = "fallback"] /\ "fallback" \in Pcs
    BY <1>2 DEF Goto, Pcs, Stages
  <2>3. QED
    BY <1>1, <1>2, <2>1, <2>2, Typed, Move DEF Same, SameStore, SameHost
<1>3. CASE Return(i)
  BY <1>1, <1>3, LocalEnd
<1>4. QED
  BY <1>1, <1>2, <1>3 DEF MonitorTimesOut, Available

LEMMA ReservesDoes ==
  ASSUME Types, NEW i \in Monitors, MonitorReserves(i)
  PROVE  /\ Types' /\ SameStore /\ UNCHANGED <<dom, dir, used, causes>> /\ pc[i] = "fallback" /\ Name(i) \in Names
         /\ loc[i].id = i /\ loc[i].ip \in Addrs
         /\ LET a == loc[i].ip IN
            \/ /\ CanReserve(a, i, Name(i)) /\ res' = [res EXCEPT ![a] = [id |-> i, name |-> Name(i)]]
               /\ Goes(i, "bounce", loc[i]) /\ tokens' = tokens
            \/ res' = res /\ Ends(i)
<1>1. /\ SameStore /\ UNCHANGED <<dom, dir, used, ops, crashes, causes>> /\ pc[i] = "fallback" /\ loc[i] \in Task
      /\ loc[i].op = "monitor" /\ Fits(i, "fallback", loc[i]) /\ Name(i) \in Names /\ loc[i].ip \in Addrs
      /\ i \in used /\ loc[i].id = i
  BY MonitorHas DEF MonitorReserves, SameStore, Fits
<1>2. Fits(i, "bounce", loc[i]) /\ "bounce" \in Pcs
  BY <1>1 DEF Fits, Stages, Pcs
<1>3. CASE /\ CanReserve(loc[i].ip, i, Name(i)) /\ res' = [res EXCEPT ![loc[i].ip] = [id |-> i, name |-> Name(i)]]
           /\ Goto(i, "bounce") /\ UNCHANGED <<loc, tokens>>
  <2>1. [res EXCEPT ![loc[i].ip] = [id |-> i, name |-> Name(i)]] \in [Addrs -> Host]
    BY <1>1, Typed
  <2>2. QED
    BY <1>1, <1>2, <1>3, <2>1, Typed, Move DEF SameStore, Goto
<1>4. CASE UNCHANGED res /\ Return(i)
  BY <1>1, <1>4, Typed, EndMove DEF SameStore
<1>5. QED
  BY <1>3, <1>4 DEF MonitorReserves

LEMMA BouncesDoes ==
  ASSUME Types, NEW i \in Monitors, MonitorBounces(i)
  PROVE  /\ Types' /\ SameStore /\ UNCHANGED <<res, dir, used>> /\ pc[i] = "bounce" /\ Recalls /\ SameOwners
         /\ loc[i].id = i
         /\ \/ Goes(i, "ping", loc[i]) /\ tokens' = tokens
            \/ Ends(i) /\ <<"monitor", i>> \in causes'
<1>1. /\ SameStore /\ UNCHANGED <<res, dir, used, ops, crashes>> /\ pc[i] = "bounce" /\ loc[i] \in Task
      /\ loc[i].op = "monitor" /\ Fits(i, "bounce", loc[i]) /\ Name(i) \in Names /\ i \in Actors
      /\ i \in used /\ loc[i].id = i /\ i # NoID
  BY MonitorHas DEF MonitorBounces, SameStore
<1>2. Fits(i, "ping", loc[i]) /\ "ping" \in Pcs
  BY <1>1 DEF Fits, Stages, Pcs
<1>3. dom[Name(i)] \in Domain
  BY <1>1, Typed
<1>4. CASE /\ dom[Name(i)] # NoDomain /\ SetState(Name(i), "running") /\ Goto(i, "ping")
           /\ Because("bounced", {dom[Name(i)].id} \ {i}) /\ UNCHANGED <<loc, tokens>>
  <2>1. dom[Name(i)].id # NoID
    BY <1>3, <1>4, Typed, IdentityAssumption DEF Domain
  <2>2. Recalls
    BY <1>4, Blame
  <2>3. QED
    BY <1>1, <1>2, <1>4, <2>1, <2>2, StateStep DEF SameStore, Goto
<1>5. CASE /\ dom' \in {dom, [dom EXCEPT ![Name(i)].st = IF @ = "none" THEN @ ELSE "off"]}
           /\ Return(i) /\ Because("monitor", {i})
  <2>1. dom' = dom \/ (dom[Name(i)].id # NoID /\ SetState(Name(i), "off"))
    <3>1. CASE dom[Name(i)] = NoDomain
      <4>1. [dom EXCEPT ![Name(i)].st = IF @ = "none" THEN @ ELSE "off"] = dom
        BY <1>1, <3>1, Typed DEF NoDomain
      <4>2. QED
        BY <1>5, <4>1
    <3>2. CASE dom[Name(i)] # NoDomain
      <4>1. dom[Name(i)].id # NoID /\ dom[Name(i)].st # "none"
        BY <1>3, <3>2, Typed, IdentityAssumption DEF Domain
      <4>2. QED
        BY <1>5, <4>1 DEF SetState
    <3>3. QED
      BY <3>1, <3>2
  <2>2. QED
    BY <1>1, <1>5, <2>1, StateEnd, Blame DEF SameStore
<1>6. QED
  BY <1>4, <1>5 DEF MonitorBounces

LEMMA PingsDoes ==
  ASSUME Types, NEW i \in Monitors, MonitorPings(i)
  PROVE  /\ Types' /\ Same /\ UNCHANGED used /\ pc[i] = "ping" /\ Recalls /\ loc[i].id = i
         /\ \/ i \in stored /\ Goes(i, "monitorPut", [loc[i] EXCEPT !.vm = rec[i]]) /\ tokens' = tokens
            \/ Ends(i) /\ <<"monitor", i>> \in causes'
<1>1. /\ Same /\ UNCHANGED <<used, ops, crashes>> /\ pc[i] = "ping" /\ loc[i] \in Task
      /\ loc[i].op = "monitor" /\ Fits(i, "ping", loc[i]) /\ i \in Actors /\ i # NoID /\ loc[i].id = i
  BY MonitorHas DEF MonitorPings, Same, SameStore, SameHost
<1>2. CASE /\ i \in stored /\ loc' = [loc EXCEPT ![i].vm = rec[i]] /\ Goto(i, "monitorPut")
           /\ UNCHANGED <<tokens, causes>>
  <2> DEFINE w == [loc[i] EXCEPT !.vm = rec[i]]
  <2>1. rec[i] \in Record /\ rec[i].name \in Names
    BY <1>2 DEF Types, Values
  <2>2. w \in Task /\ loc' = [loc EXCEPT ![i] = w] /\ Fits(i, "monitorPut", w)
    BY <1>1, <1>2, <2>1 DEF Task, Types, Values, Fits, Stages
  <2>3. pc' = [pc EXCEPT ![i] = "monitorPut"] /\ "monitorPut" \in Pcs
    BY <1>2 DEF Goto, Pcs, Stages
  <2>4. QED
    BY <1>1, <1>2, <2>2, <2>3, Typed, Move DEF Same, SameStore, SameHost, Recalls
<1>3. CASE Return(i) /\ Because("monitor", {i})
  BY <1>1, <1>3, LocalEnd, Blame
<1>4. QED
  BY <1>2, <1>3 DEF MonitorPings

LEMMA PutsDoes ==
  ASSUME Types, NEW i \in Monitors, MonitorPuts(i)
  PROVE  /\ Types' /\ SameHost /\ UNCHANGED used /\ pc[i] = "monitorPut" /\ Recalls /\ Ends(i) /\ loc[i].id = i
         /\ \/ /\ Written(i, [loc[i].vm EXCEPT !.ip = loc[i].ip])
               /\ Overwrites(i) => <<"stale", i>> \in causes'
            \/ SameStore /\ <<"monitor", i>> \in causes'
<1>1. /\ SameHost /\ UNCHANGED <<used, ops, crashes>> /\ pc[i] = "monitorPut" /\ loc[i] \in Task /\ Return(i)
      /\ loc[i].vm \in Record /\ Name(i) \in Names /\ i \in Actors /\ i # NoID /\ loc[i].id = i /\ i \in used
  BY MonitorHas DEF MonitorPuts, SameHost
<1>2. CASE /\ PutVM(i, [loc[i].vm EXCEPT !.ip = loc[i].ip])
           /\ IF Overwrites(i) THEN Because("stale", {i}) ELSE UNCHANGED causes
  <2> DEFINE vm == [loc[i].vm EXCEPT !.ip = loc[i].ip]
  <2>1. vm \in Record /\ vm.name \in Names
    BY <1>1 DEF Record, Task, Name
  <2>2. Types' /\ Ends(i) /\ Written(i, vm)
    BY <1>1, <1>2, <2>1, PutEnd
  <2>3. Recalls /\ (Overwrites(i) => <<"stale", i>> \in causes')
    <3>1. CASE Overwrites(i)
      BY <1>1, <1>2, <3>1, Blame
    <3>2. CASE ~Overwrites(i)
      BY <1>2, <3>2 DEF Recalls
    <3>3. QED
      BY <3>1, <3>2
  <2>4. QED
    BY <1>1, <2>2, <2>3
<1>3. CASE UNCHANGED storeVars /\ Because("monitor", {i})
  BY <1>1, <1>3, LocalEnd, Blame DEF Same, SameStore, SameHost
<1>4. QED
  BY <1>2, <1>3 DEF MonitorPuts

LEMMA GuestDoes ==
  ASSUME Types, NEW n \in Names, GuestShutsDown(n)
  PROVE  Types' /\ SameStore /\ UNCHANGED <<res, dir, countVars, pc, loc, causes>> /\ SameOwners
<1>1. SameStore /\ UNCHANGED <<res, dir, countVars, pc, loc, causes>> /\ SetState(n, "off") /\ dom[n].st = "running"
  BY DEF GuestShutsDown, SameStore
<1>2. dom[n].id # NoID
  BY <1>1, Typed, IdentityAssumption DEF Domain, NoDomain
<1>3. dom' \in [Names -> Domain]
  BY <1>1, <1>2, Typed DEF SetState
<1>4. Domain' = Domain /\ Host' = Host
  BY <1>1 DEF Domain, Host
<1>5. Values' /\ \A x \in Actors : Shaped(x)'
  BY <1>1, <1>3, <1>4 DEF Types, Values, SameStore, Shaped, Fits
<1>6. QED
  BY <1>1, <1>5, OwnerKept DEF Types, SameStore

LEMMA CrashDoes ==
  ASSUME Types, Crash
  PROVE  /\ Types' /\ Same /\ UNCHANGED used /\ Recalls /\ tokens' = MaxCreates
         /\ \A x \in Actors : pc'[x] = "idle" /\ loc'[x] = NoWork
         /\ \A x \in Actors : loc[x].id # NoID => <<"crash", loc[x].id>> \in causes'
<1> DEFINE ids == {loc[x].id : x \in {y \in Actors : pc[y] # "idle"}}
<1>1. /\ Same /\ UNCHANGED <<used, ops>> /\ tokens' = MaxCreates /\ Because("crash", ids)
      /\ crashes < MaxCrashes /\ crashes' = crashes + 1
      /\ pc' = [x \in Actors |-> "idle"] /\ loc' = [x \in Actors |-> NoWork]
  BY DEF Crash, Same, SameStore, SameHost
<1>2. Recalls /\ \A i \in ids : i # NoID => <<"crash", i>> \in causes'
  BY <1>1, Blame
<1>3. \A x \in Actors : loc[x].id # NoID => loc[x].id \in ids
  <2>1. \A x \in Actors : pc[x] = "idle" => loc[x].id = NoID
    BY DEF Types, Shaped, Fits
  <2>2. QED
    BY <2>1
<1>4. \A x \in Actors : Shaped(x)'
  BY <1>1, Constants DEF Shaped, Fits, Stages
<1>5. Values'
  <2>1. pc' \in [Actors -> Pcs] /\ loc' \in [Actors -> Task]
    BY <1>1, Constants
  <2>2. tokens' \in Int /\ ops' \in 0..MaxOps /\ crashes' \in 0..MaxCrashes
    BY <1>1, QuotaAssumption, LimitAssumption DEF Types, Values
  <2>3. Domain' = Domain /\ Host' = Host
    BY <1>1 DEF Domain, Host
  <2>4. QED
    BY <1>1, <2>1, <2>2, <2>3 DEF Types, Values, Same, SameStore, SameHost
<1>6. Types'
  BY <1>1, <1>4, <1>5 DEF Types, Same, SameStore
<1>7. QED
  BY <1>1, <1>2, <1>3, <1>6

-----------------------------------------------------------------------------
(* Types. *)

LEMMA InitTypes == Init => Types
<1> SUFFICES ASSUME Init PROVE Types
  OBVIOUS
<1>1. \A x \in Actors : Shaped(x)
  BY Constants DEF Init, Shaped, Fits, Stages
<1>2. Values
  BY Constants, QuotaAssumption, LimitAssumption DEF Init, Values, Domain, Host
<1>3. QED
  BY <1>1, <1>2 DEF Init, Types

LEMMA NextTypes ==
  ASSUME Types, Next
  PROVE  Types'
<1>1. ASSUME NEW r \in Requests, CreateStep(r) PROVE Types'
  BY <1>1, CreateVMDoes, AcquireDoes, CloneVMDoes, CheckQuotaDoes, ReadSourceDoes, FindDoes, ByNameDoes, AddDoes,
     MkdirDoes, ReapDoes, DefineDoes, BootDoes, StoreDoes, UndoDomainDoes, UndoHostDoes DEF CreateStep
<1>2. ASSUME NEW r \in Requests, ChangeStep(r) PROVE Types'
  BY <1>2, PowerVMDoes, PowerDomainDoes, PowerPutDoes, UpdateVMDoes, UpdateStopDoes, GrowDiskDoes, RedefineDoes,
     DropOldDoes, AddNewDoes, RegenerateDoes, UpdatePutDoes, UpdateBootDoes, DeleteVMDoes, DeleteDomainDoes,
     DeleteHostDoes, DeleteDirDoes, DeleteRecordDoes DEF ChangeStep
<1>3. ASSUME NEW i \in Monitors, MonitorStep(i) PROVE Types'
  BY <1>3, SeesIPDoes, TimesOutDoes, ReservesDoes, BouncesDoes, PingsDoes, PutsDoes DEF MonitorStep
<1>4. QED
  BY <1>1, <1>2, <1>3, GuestDoes, CrashDoes DEF Next

LEMMA StutterTypes ==
  ASSUME Types, UNCHANGED vars
  PROVE  Types'
<1>1. Domain' = Domain /\ Host' = Host
  BY DEF vars, Domain, Host
<1>2. Values' /\ \A x \in Actors : Shaped(x)'
  BY <1>1 DEF Types, Values, vars, Shaped, Fits
<1>3. QED
  BY <1>2 DEF Types, vars

-----------------------------------------------------------------------------
(* The create slots. *)

SlotHolders == {r \in Requests : loc[r].op = "create" /\ pc[r] # "slot"}
Slots ==
  /\ IsFiniteSet(SlotHolders) /\ tokens \in Nat
  /\ tokens + Cardinality(SlotHolders) = MaxCreates

LEMMA SlotsKept ==
  ASSUME Types, Slots, NEW x \in Actors, NEW q, NEW w, Goes(x, q, w), tokens' = tokens,
         (w.op = "create" /\ q # "slot") <=> (loc[x].op = "create" /\ pc[x] # "slot")
  PROVE  Slots'
<1>1. SlotHolders' = SlotHolders
  BY DEF SlotHolders, Goes, Others
<1>2. QED
  BY <1>1 DEF Slots

\* A goroutine that gives its slot back.
LEMMA SlotFreed ==
  ASSUME Types, Slots, NEW x \in Actors, pc'[x] = "idle", loc'[x] = NoWork,
         tokens' = IF loc[x].op = "create" /\ pc[x] # "slot" THEN tokens + 1 ELSE tokens,
         \A y \in Requests \ {x} : pc'[y] = pc[y] /\ loc'[y] = loc[y]
  PROVE  Slots'
<1>1. CASE x \in SlotHolders
  <2>1. SlotHolders' = SlotHolders \ {x}
    BY <1>1, Constants DEF SlotHolders
  <2>2. IsFiniteSet(SlotHolders') /\ Cardinality(SlotHolders') = Cardinality(SlotHolders) - 1
    BY <1>1, <2>1, FS_RemoveElement DEF Slots
  <2>3. tokens' = tokens + 1
    BY <1>1 DEF SlotHolders
  <2>4. Cardinality(SlotHolders) \in Nat /\ tokens \in Nat /\ tokens + Cardinality(SlotHolders) = MaxCreates
    BY FS_CardinalityType DEF Slots
  <2>5. QED
    BY <2>2, <2>3, <2>4 DEF Slots
<1>2. CASE x \notin SlotHolders
  <2>1. ~(loc[x].op = "create" /\ pc[x] # "slot")
    BY <1>2 DEF SlotHolders, Types, Shaped, Fits
  <2>2. SlotHolders' = SlotHolders
    BY <1>2, Constants DEF SlotHolders
  <2>3. QED
    BY <2>1, <2>2 DEF Slots
<1>3. QED
  BY <1>1, <1>2

LEMMA SlotsEnd ==
  ASSUME Types, Slots, NEW x \in Actors, Ends(x)
  PROVE  Slots'
BY SlotFreed DEF Ends, Goes, Others

LEMMA SlotTaken ==
  ASSUME Types, Slots, NEW r \in Requests, pc[r] = "slot", tokens > 0, tokens' = tokens - 1, Goes(r, "quota", loc[r])
  PROVE  Slots'
<1>1. loc[r].op = "create"
  BY OpAt
<1>2. SlotHolders' = SlotHolders \cup {r} /\ r \notin SlotHolders
  BY <1>1 DEF SlotHolders, Goes, Others
<1>3. IsFiniteSet(SlotHolders') /\ Cardinality(SlotHolders') = Cardinality(SlotHolders) + 1
  BY <1>2, FS_AddElement DEF Slots
<1>4. Cardinality(SlotHolders) \in Nat /\ tokens \in Nat /\ tokens + Cardinality(SlotHolders) = MaxCreates
  BY FS_CardinalityType DEF Slots
<1>5. QED
  BY <1>3, <1>4 DEF Slots

LEMMA InitSlots == Init => Slots
<1> SUFFICES ASSUME Init PROVE Slots
  OBVIOUS
<1>1. SlotHolders = {}
  BY Constants DEF Init, SlotHolders
<1>2. QED
  BY <1>1, FS_EmptySet, QuotaAssumption DEF Init, Slots

LEMMA NextSlots ==
  ASSUME Types, Slots, Next
  PROVE  Slots'
<1>1. ASSUME NEW r \in Requests, CreateStep(r) PROVE Slots'
  <2>1. CASE CreateVM(r)
    <3>1. PICK w : Goes(r, "slot", w) /\ tokens' = tokens /\ pc[r] = "idle"
      BY <2>1, CreateVMDoes
    <3>2. QED
      BY <3>1, SlotsKept, OpAt
  <2>2. CASE AcquireCreateSlot(r)
    BY <2>2, AcquireDoes, SlotTaken, SlotsEnd
  <2>3. CASE CloneVM(r)
    <3>1. PICK i \in stored, n \in Names : Goes(r, "quota", [NoWork EXCEPT !.op = "clone", !.dom = i, !.vm.name = n])
      BY <2>3, CloneVMDoes
    <3>2. [NoWork EXCEPT !.op = "clone", !.dom = i, !.vm.name = n].op = "clone"
      BY DEF NoWork
    <3>3. QED
      BY <2>3, <3>1, <3>2, CloneVMDoes, SlotsKept, OpAt
  <2>4. CASE CheckQuota(r)
    <3>1. CASE Ends(r)
      BY <3>1, SlotsEnd
    <3>2. CASE ~Ends(r)
      <4>1. PICK i \in IDs \ used, q \in {"find", "mkdir", "source"} :
              tokens' = tokens /\ Goes(r, q, [loc[r] EXCEPT !.id = i])
        BY <2>4, <3>2, CheckQuotaDoes
      <4>2. [loc[r] EXCEPT !.id = i].op = loc[r].op /\ pc[r] = "quota"
        BY <2>4, CheckQuotaDoes, OpAt DEF Task
      <4>3. QED
        BY <4>1, <4>2, SlotsKept
    <3>3. QED
      BY <3>1, <3>2
  <2>5. CASE ReadSource(r)
    <3>1. CASE Ends(r)
      BY <3>1, SlotsEnd
    <3>2. CASE ~Ends(r)
      <4>1. PICK l \in BOOLEAN :
              tokens' = tokens /\ Goes(r, "mkdir", [loc[r] EXCEPT !.dom = NoID, !.vm.locked = l])
        BY <2>5, <3>2, ReadSourceDoes
      <4>2. [loc[r] EXCEPT !.dom = NoID, !.vm.locked = l].op = loc[r].op /\ pc[r] = "source"
        BY <2>5, ReadSourceDoes, OpAt DEF Task
      <4>3. QED
        BY <4>1, <4>2, SlotsKept
    <3>3. QED
      BY <3>1, <3>2
  <2>6. CASE FindAvailableIP(r)
    <3>1. \A a \in Addrs : [loc[r] EXCEPT !.ip = a].op = loc[r].op
      BY OpAt DEF Task
    <3>2. QED
      BY <2>6, <3>1, FindDoes, SlotsKept
  <2>7. CASE RemoveDHCPHostByName(r) \/ ReapOrphan(r) \/ BootDomain(r) \/ UndoDomain(r)
    BY <2>7, ByNameDoes, ReapDoes, BootDoes, UndoDomainDoes, SlotsKept
  <2>8. CASE AddDHCPHost(r)
    <3>1. /\ [loc[r] EXCEPT !.vm.ip = loc[r].ip, !.ip = NoIP].op = loc[r].op
          /\ [loc[r] EXCEPT !.ip = NoIP].op = loc[r].op
      BY OpAt DEF Task
    <3>2. QED
      BY <2>8, <3>1, AddDoes, SlotsKept
  <2>9. CASE MkdirAll(r)
    BY <2>9, MkdirDoes, SlotsKept, SlotsEnd
  <2>10. CASE DomainDefineXML(r)
    <3>1. [loc[r] EXCEPT !.dom = loc[r].id].op = loc[r].op
      BY OpAt DEF Task
    <3>2. QED
      BY <2>10, <3>1, DefineDoes, SlotsKept
  <2>11. CASE StoreNewVM(r)
    <3>1. CASE Goes(r, "undoDom", loc[r]) /\ tokens' = tokens
      BY <2>11, <3>1, StoreDoes, SlotsKept
    <3>2. CASE ~(Goes(r, "undoDom", loc[r]) /\ tokens' = tokens)
      <4>1. pc[r] = "put" /\ loc[r].id \in IDs
        BY <2>11, StoreDoes, InHand DEF Asking
      <4>2. /\ pc'[r] = "idle" /\ loc'[r] = NoWork /\ tokens' = IF loc[r].op = "create" THEN tokens + 1 ELSE tokens
            /\ \A y \in Requests \ {r} : pc'[y] = pc[y] /\ loc'[y] = loc[y]
        <5>1. \A y \in Requests \ {r} : y \in Actors \ {r, loc[r].id}
          BY <4>1, IdentityAssumption
        <5>2. QED
          BY <2>11, <3>2, <4>1, <5>1, StoreDoes
      <4>3. QED
        BY <4>1, <4>2, SlotFreed
    <3>3. QED
      BY <3>1, <3>2
  <2>12. CASE UndoHost(r)
    BY <2>12, UndoHostDoes, SlotsEnd
  <2>13. QED
    BY <1>1, <2>1, <2>2, <2>3, <2>4, <2>5, <2>6, <2>7, <2>8, <2>9, <2>10, <2>11, <2>12 DEF CreateStep
<1>2. ASSUME NEW r \in Requests, ChangeStep(r) PROVE Slots'
  <2>1. CASE PowerVM(r) \/ UpdateVM(r) \/ DeleteVM(r)
    <3>1. PICK q, w : Goes(r, q, w) /\ w.op # "create" /\ tokens' = tokens /\ pc[r] = "idle"
      BY <2>1, PowerVMDoes, UpdateVMDoes, DeleteVMDoes DEF Copied, Patches
    <3>2. QED
      BY <3>1, SlotsKept, OpAt
  <2>2. CASE PowerDomain(r)
    <3>1. loc[r].op # "create" /\ [loc[r] EXCEPT !.op = "start"].op = "start"
      BY <2>2, PowerDomainDoes, OpAt DEF Task
    <3>2. QED
      BY <2>2, <3>1, PowerDomainDoes, SlotsKept, SlotsEnd
  <2>3. CASE PowerPut(r) \/ UpdateStop(r) \/ GrowDisk(r) \/ RedefineDomain(r) \/ RegenerateISO(r)
    BY <2>3, PowerPutDoes, UpdateStopDoes, GrowDiskDoes, RedefineDoes, RegenerateDoes, SlotsKept, SlotsEnd
  <2>4. CASE UpdatePut(r) \/ UpdateBoot(r) \/ DropOldAddress(r)
    BY <2>4, UpdatePutDoes, UpdateBootDoes, DropOldDoes, SlotsKept, SlotsEnd
  <2>5. CASE AddNewAddress(r)
    <3>1. \A a \in Addrs : [loc[r] EXCEPT !.ip = a].op = loc[r].op
      BY OpAt DEF Task
    <3>2. QED
      BY <2>5, <3>1, AddNewDoes, SlotsKept, SlotsEnd
  <2>6. CASE DeleteDomain(r) \/ DeleteHost(r) \/ DeleteDir(r) \/ DeleteRecord(r)
    BY <2>6, DeleteDomainDoes, DeleteHostDoes, DeleteDirDoes, DeleteRecordDoes, SlotsKept, SlotsEnd
  <2>7. QED
    BY <1>2, <2>1, <2>2, <2>3, <2>4, <2>5, <2>6 DEF ChangeStep
<1>3. ASSUME NEW i \in Monitors, MonitorStep(i) PROVE Slots'
  <2>1. CASE MonitorSeesIP(i) \/ MonitorReserves(i) \/ MonitorBounces(i) \/ MonitorPuts(i)
    BY <2>1, SeesIPDoes, ReservesDoes, BouncesDoes, PutsDoes, SlotsKept, SlotsEnd
  <2>2. CASE MonitorTimesOut(i) \/ MonitorPings(i)
    <3>1. /\ \A a \in Addrs : [loc[i] EXCEPT !.ip = a].op = loc[i].op
          /\ [loc[i] EXCEPT !.vm = rec[i]].op = loc[i].op
      BY OpAt DEF Task
    <3>2. CASE MonitorTimesOut(i)
      BY <3>1, <3>2, TimesOutDoes, SlotsKept, SlotsEnd
    <3>3. CASE MonitorPings(i)
      <4>1. pc[i] = "ping" /\ i \in Actors
        BY <3>3, PingsDoes
      <4>2. \/ Goes(i, "monitorPut", [loc[i] EXCEPT !.vm = rec[i]]) /\ tokens' = tokens
            \/ Ends(i)
        BY <3>3, PingsDoes
      <4>3. CASE Ends(i)
        BY <4>1, <4>3, SlotsEnd
      <4>4. CASE Goes(i, "monitorPut", [loc[i] EXCEPT !.vm = rec[i]]) /\ tokens' = tokens
        BY <3>1, <4>1, <4>4, SlotsKept
      <4>5. QED
        BY <4>2, <4>3, <4>4
    <3>4. QED
      BY <2>2, <3>2, <3>3
  <2>3. QED
    BY <1>3, <2>1, <2>2 DEF MonitorStep
<1>4. ASSUME NEW n \in Names, GuestShutsDown(n) PROVE Slots'
  <2>1. SlotHolders' = SlotHolders /\ tokens' = tokens
    BY <1>4, GuestDoes DEF SlotHolders
  <2>2. QED
    BY <2>1 DEF Slots
<1>5. CASE Crash
  <2>1. SlotHolders' = {} /\ tokens' = MaxCreates
    BY <1>5, CrashDoes, Constants DEF SlotHolders
  <2>2. QED
    BY <2>1, FS_EmptySet, QuotaAssumption DEF Slots
<1>6. QED
  BY <1>1, <1>2, <1>3, <1>4, <1>5 DEF Next

-----------------------------------------------------------------------------
(* What a step does to the records and to the work in hand. *)

Kept == SameStore /\ used' = used
\* The goroutine goes on with the same VM; only the monitor reads it again.
Continues(x) ==
  /\ Kept /\ Others(x) /\ pc[x] # "idle" /\ pc'[x] # "idle" /\ loc'[x].id = loc[x].id
  /\ loc'[x].op = loc[x].op \/ {loc[x].op, loc'[x].op} \subseteq {"power", "start"}
  /\ \/ loc'[x].vm.name = Name(x) /\ loc'[x].vm.updated = loc[x].vm.updated
     \/ loc[x].id \in stored /\ loc'[x].vm = rec[loc[x].id] /\ ~Building(x)
  /\ (Building(x)' <=> Building(x)) /\ (Asking(x)' <=> Asking(x))
  /\ loc'[x].dom \in {NoID, loc[x].id} \/ (loc'[x].dom = loc[x].dom /\ pc[x] # "source")

\* It returns, and has written nothing.
Stops(x) == Kept /\ Others(x) /\ pc'[x] = "idle" /\ loc'[x] = NoWork
\* A create or clone is asked for.
Asks(r) ==
  /\ Kept /\ Others(r) /\ pc[r] = "idle" /\ Asking(r)'
  /\ loc'[r].id = NoID /\ loc'[r].vm.updated = 0 /\ loc'[r].op \in {"create", "clone"}
  /\ loc'[r].op = "create" => loc'[r].dom = NoID

\* An operation on a stored VM begins with its record.
Copies(r) ==
  /\ Kept /\ Others(r) /\ pc[r] = "idle" /\ ~Asking(r)' /\ ~Building(r)'
  /\ \E i \in stored : /\ loc'[r].id = i /\ loc'[r].vm = rec[i]
                       /\ loc'[r].dom \in {NoID, dom[rec[i].name].id}
  /\ loc'[r].op \notin {"create", "clone"}

\* A new VM gets its ID.
Registers(r) ==
  /\ SameStore /\ Others(r) /\ pc[r] = "quota" /\ WithinQuota /\ tokens' = tokens
  /\ \E i \in IDs \ used :
       /\ used' = used \cup {i} /\ loc'[r] = [loc[r] EXCEPT !.id = i] /\ Building(r)'
       /\ loc[r].op = "clone" => <<"clone", i>> \in causes' /\ pc'[r] = "source"

\* The record of an existing VM is written.
Writes(x) ==
  /\ used' = used /\ Others(x) /\ pc[x] # "idle" /\ ~Building(x) /\ ~Asking(x)
  /\ \E vm \in Record : vm.name = Name(x) /\ Written(loc[x].id, vm)
  /\ Overwrites(x) => <<"stale", loc[x].id>> \in causes'
  /\ \/ pc'[x] = "idle" /\ loc'[x] = NoWork
     \/ pc'[x] = "updateBoot" /\ loc'[x] = loc[x]

\* The record of a new VM is written, and its monitor may start.
Stores(r) ==
  /\ used' = used /\ pc[r] = "put" /\ Written(loc[r].id, loc[r].vm) /\ pc'[r] = "idle" /\ loc'[r] = NoWork
  /\ \/ pc'[loc[r].id] = "idle" /\ loc'[loc[r].id] = NoWork
     \/ /\ pc'[loc[r].id] = "wait" /\ loc[r].op = "create" /\ loc[r].vm.ip = NoIP
        /\ loc'[loc[r].id] = [NoWork EXCEPT !.op = "monitor", !.id = loc[r].id, !.vm = loc[r].vm]
  /\ \A y \in Actors \ {r, loc[r].id} : pc'[y] = pc[y] /\ loc'[y] = loc[y]

\* A record is removed.
Removes(r) ==
  /\ used' = used /\ Others(r) /\ pc[r] = "deleteRecord" /\ pc'[r] = "idle" /\ loc'[r] = NoWork
  /\ Deleted(loc[r].id) /\ <<"deleted", loc[r].id>> \in causes'
  /\ Overwrites(r) => <<"stale", loc[r].id>> \in causes'
Stands == Kept /\ UNCHANGED <<pc, loc>>
Dies == Kept /\ \A x \in Actors : pc'[x] = "idle" /\ loc'[x] = NoWork

ActorStep(x) ==
  \/ Continues(x) \/ Stops(x) \/ Writes(x)
  \/ x \in Requests /\ (Asks(x) \/ Copies(x) \/ Registers(x) \/ Stores(x) \/ Removes(x))
Kind == causes \subseteq causes' /\ (Stands \/ Dies \/ \E x \in Actors : ActorStep(x))

LEMMA EndsStops ==
  ASSUME NEW x \in Actors, Ends(x), SameStore, used' = used
  PROVE  Stops(x)
BY DEF Ends, Goes, Stops, Kept

\* A step that leaves the work in hand.
LEMMA GoesOn ==
  ASSUME Types, NEW x \in Actors, NEW q, Goes(x, q, loc[x]), SameStore, used' = used, pc[x] # "idle", q # "idle",
         Building(x)' <=> Building(x), Asking(x)' <=> Asking(x), pc[x] # "source"
  PROVE  Continues(x)
BY DEF Goes, Continues, Kept, Name

LEMMA Fields ==
  ASSUME Types, NEW x \in Actors
  PROVE  LET w == loc[x] IN
         /\ \A a : LET v == [w EXCEPT !.ip = a] IN
              v.op = w.op /\ v.id = w.id /\ v.vm = w.vm /\ v.dom = w.dom /\ v.ip = a
         /\ \A i : LET v == [w EXCEPT !.id = i] IN
              v.op = w.op /\ v.id = i /\ v.vm = w.vm /\ v.dom = w.dom /\ v.ip = w.ip
         /\ \A i : LET v == [w EXCEPT !.dom = i] IN
              v.op = w.op /\ v.id = w.id /\ v.vm = w.vm /\ v.dom = i /\ v.ip = w.ip
         /\ \A m : LET v == [w EXCEPT !.vm = m] IN
              v.op = w.op /\ v.id = w.id /\ v.vm = m /\ v.dom = w.dom /\ v.ip = w.ip
         /\ \A o : LET v == [w EXCEPT !.op = o] IN
              v.op = o /\ v.id = w.id /\ v.vm = w.vm /\ v.dom = w.dom /\ v.ip = w.ip
         /\ \A i, l : LET v == [w EXCEPT !.dom = i, !.vm.locked = l] IN
              /\ v.op = w.op /\ v.id = w.id /\ v.dom = i /\ v.ip = w.ip
              /\ v.vm.name = w.vm.name /\ v.vm.ip = w.vm.ip /\ v.vm.updated = w.vm.updated
         /\ \A a, b : LET v == [w EXCEPT !.vm.ip = a, !.ip = b] IN
              /\ v.op = w.op /\ v.id = w.id /\ v.dom = w.dom /\ v.ip = b
              /\ v.vm.name = w.vm.name /\ v.vm.ip = a /\ v.vm.updated = w.vm.updated
BY OpAt DEF Task, Record

LEMMA GoesOnWith ==
  ASSUME Types, NEW x \in Actors, NEW q, NEW w, Goes(x, q, w), SameStore, used' = used,
         pc[x] # "idle", q # "idle", w.id = loc[x].id,
         w.op = loc[x].op \/ {loc[x].op, w.op} \subseteq {"power", "start"},
         \/ w.vm.name = Name(x) /\ w.vm.updated = loc[x].vm.updated
         \/ loc[x].id \in stored /\ w.vm = rec[loc[x].id] /\ ~Building(x),
         Building(x)' <=> Building(x), Asking(x)' <=> Asking(x),
         w.dom \in {NoID, loc[x].id} \/ (w.dom = loc[x].dom /\ pc[x] # "source")
  PROVE  Continues(x)
BY DEF Goes, Continues, Kept

LEMMA CreateKind ==
  ASSUME Types, NEW r \in Requests, CreateStep(r)
  PROVE  causes \subseteq causes' /\ ActorStep(r)
<1>1. CASE CreateVM(r)
  <2>1. PICK n \in Names, a \in Addrs \cup {NoIP} :
          Goes(r, "slot", [NoWork EXCEPT !.op = "create", !.vm.name = n, !.vm.ip = a])
    BY <1>1, CreateVMDoes
  <2> DEFINE w == [NoWork EXCEPT !.op = "create", !.vm.name = n, !.vm.ip = a]
  <2>2. w.id = NoID /\ w.op = "create" /\ w.dom = NoID /\ w.vm.updated = 0
    BY DEF NoWork, NoRecord
  <2> HIDE DEF w
  <2>3. Asks(r)
    BY <1>1, <2>1, <2>2, CreateVMDoes DEF Goes, Asks, Kept, Same, Asking, w
  <2>4. QED
    BY <1>1, <2>3, CreateVMDoes DEF ActorStep
<1>2. CASE AcquireCreateSlot(r)
  <2>1. CASE Ends(r)
    BY <1>2, <2>1, AcquireDoes, EndsStops DEF ActorStep, Same
  <2>2. CASE Goes(r, "quota", loc[r])
    BY <1>2, <2>2, AcquireDoes, GoesOn DEF ActorStep, Same, Goes, Building, Asking
  <2>3. QED
    BY <1>2, <2>1, <2>2, AcquireDoes
<1>3. CASE CloneVM(r)
  <2>1. PICK i \in stored, n \in Names : Goes(r, "quota", [NoWork EXCEPT !.op = "clone", !.dom = i, !.vm.name = n])
    BY <1>3, CloneVMDoes
  <2> DEFINE w == [NoWork EXCEPT !.op = "clone", !.dom = i, !.vm.name = n]
  <2>2. w.id = NoID /\ w.op = "clone" /\ w.vm.updated = 0
    BY DEF NoWork, NoRecord
  <2> HIDE DEF w
  <2>3. Asks(r)
    BY <1>3, <2>1, <2>2, CloneVMDoes DEF Goes, Asks, Kept, Same, Asking, w
  <2>4. QED
    BY <1>3, <2>3, CloneVMDoes DEF ActorStep
<1>4. CASE CheckQuota(r)
  <2>1. CASE Ends(r) /\ UNCHANGED <<used, causes>>
    BY <1>4, <2>1, CheckQuotaDoes, EndsStops DEF ActorStep, Same
  <2>2. CASE ~(Ends(r) /\ UNCHANGED <<used, causes>>)
    <3>1. PICK i \in IDs \ used, q \in {"find", "mkdir", "source"} :
            /\ used' = used \cup {i} /\ Goes(r, q, [loc[r] EXCEPT !.id = i]) /\ WithinQuota /\ tokens' = tokens
            /\ loc[r].op = "clone" => q = "source" /\ <<"clone", i>> \in causes'
      BY <1>4, <2>2, CheckQuotaDoes
    <3>2. Registers(r)
      BY <1>4, <3>1, CheckQuotaDoes DEF Registers, Goes, Same, Building
    <3>3. QED
      BY <1>4, <3>2, CheckQuotaDoes DEF ActorStep
  <2>3. QED
    BY <2>1, <2>2
<1>5. CASE ReadSource(r)
  <2>1. CASE Ends(r)
    BY <1>5, <2>1, ReadSourceDoes, EndsStops DEF ActorStep, Same
  <2>2. CASE ~Ends(r)
    <3>1. PICK l \in BOOLEAN : Goes(r, "mkdir", [loc[r] EXCEPT !.dom = NoID, !.vm.locked = l])
      BY <1>5, <2>2, ReadSourceDoes
    <3> DEFINE w == [loc[r] EXCEPT !.dom = NoID, !.vm.locked = l]
    <3>2. /\ w.op = loc[r].op /\ w.id = loc[r].id /\ w.dom = NoID
          /\ w.vm.name = Name(r) /\ w.vm.updated = loc[r].vm.updated
      BY Fields DEF Name
    <3>3. Goes(r, "mkdir", w)
      BY <3>1
    <3> HIDE DEF w
    <3>4. pc[r] = "source" /\ Kept /\ causes' = causes
      BY <1>5, ReadSourceDoes DEF Same, Kept
    <3>5. (Building(r)' <=> Building(r)) /\ (Asking(r)' <=> Asking(r))
      BY <3>3, <3>4 DEF Goes, Building, Asking
    <3>6. QED
      BY <3>2, <3>3, <3>4, <3>5, GoesOnWith DEF ActorStep, Kept
  <2>3. QED
    BY <2>1, <2>2
<1>6. CASE FindAvailableIP(r)
  <2>1. CASE \E a \in Addrs : Goes(r, "byname", [loc[r] EXCEPT !.ip = a])
    <3>1. PICK a \in Addrs : Goes(r, "byname", [loc[r] EXCEPT !.ip = a])
      BY <2>1
    <3>2. Continues(r)
      BY <1>6, <3>1, Fields, FindDoes DEF Continues, Kept, Goes, Same, Building, Asking, Name
    <3>3. QED
      BY <1>6, <3>2, FindDoes DEF ActorStep
  <2>2. CASE Goes(r, IF loc[r].op = "create" THEN "mkdir" ELSE "define", loc[r])
    <3>1. Continues(r)
      BY <1>6, <2>2, FindDoes DEF Continues, Kept, Goes, Same, Building, Asking, Name
    <3>2. QED
      BY <1>6, <3>1, FindDoes DEF ActorStep
  <2>3. QED
    BY <1>6, <2>1, <2>2, FindDoes
<1>7. CASE RemoveDHCPHostByName(r)
  BY <1>7, ByNameDoes, GoesOn DEF ActorStep, Goes, Building, Asking, Recalls
<1>8. CASE AddDHCPHost(r)
  <2> DEFINE q == IF loc[r].op = "create" THEN "mkdir" ELSE "define"
  <2>1. \/ Goes(r, q, [loc[r] EXCEPT !.vm.ip = loc[r].ip, !.ip = NoIP])
        \/ Goes(r, q, [loc[r] EXCEPT !.ip = NoIP])
    BY <1>8, AddDoes
  <2>2. PICK w : /\ Goes(r, q, w) /\ w.op = loc[r].op /\ w.id = loc[r].id /\ w.dom = loc[r].dom
                 /\ w.vm.name = Name(r) /\ w.vm.updated = loc[r].vm.updated
    <3> DEFINE v == [loc[r] EXCEPT !.vm.ip = loc[r].ip, !.ip = NoIP]
               u == [loc[r] EXCEPT !.ip = NoIP]
    <3>1. /\ v.op = loc[r].op /\ v.id = loc[r].id /\ v.dom = loc[r].dom
          /\ v.vm.name = loc[r].vm.name /\ v.vm.updated = loc[r].vm.updated
          /\ u.op = loc[r].op /\ u.id = loc[r].id /\ u.dom = loc[r].dom /\ u.vm = loc[r].vm
      BY Fields
    <3>2. Goes(r, q, v) \/ Goes(r, q, u)
      BY <2>1
    <3> HIDE DEF v, u
    <3>3. QED
      BY <3>1, <3>2 DEF Name
  <2>3. pc[r] = "add" /\ Kept /\ causes' = causes
    BY <1>8, AddDoes DEF Kept
  <2>4. (Building(r)' <=> Building(r)) /\ (Asking(r)' <=> Asking(r))
    BY <2>2, <2>3 DEF Goes, Building, Asking
  <2>5. QED
    BY <2>2, <2>3, <2>4, GoesOnWith DEF ActorStep, Kept
<1>9. CASE MkdirAll(r)
  <2>1. CASE Ends(r)
    BY <1>9, <2>1, MkdirDoes, EndsStops DEF ActorStep, Recalls
  <2>2. CASE ~Ends(r)
    BY <1>9, <2>2, MkdirDoes, GoesOn DEF ActorStep, Goes, Building, Asking, Recalls
  <2>3. QED
    BY <2>1, <2>2
<1>10. CASE ReapOrphan(r)
  BY <1>10, ReapDoes, GoesOn DEF ActorStep, Goes, Building, Asking, Recalls
<1>11. CASE DomainDefineXML(r)
  <2>1. CASE Goes(r, "undoDom", loc[r])
    BY <1>11, <2>1, DefineDoes, GoesOn DEF ActorStep, Goes, Building, Asking
  <2>2. CASE ~Goes(r, "undoDom", loc[r])
    <3>1. Goes(r, IF loc[r].op = "create" THEN "boot" ELSE "put", [loc[r] EXCEPT !.dom = loc[r].id])
      BY <1>11, <2>2, DefineDoes
    <3> DEFINE w == [loc[r] EXCEPT !.dom = loc[r].id]
    <3>2. w.op = loc[r].op /\ w.id = loc[r].id /\ w.dom = loc[r].id /\ w.vm = loc[r].vm
      BY Fields
    <3>3. \E q \in {"boot", "put"} : Goes(r, q, w)
      BY <3>1
    <3> HIDE DEF w
    <3>4. pc[r] = "define" /\ Kept /\ causes' = causes
      BY <1>11, DefineDoes DEF Kept
    <3>5. (Building(r)' <=> Building(r)) /\ (Asking(r)' <=> Asking(r))
      BY <3>3, <3>4 DEF Goes, Building, Asking
    <3>6. QED
      BY <3>2, <3>3, <3>4, <3>5, GoesOnWith DEF ActorStep, Kept, Name
  <2>3. QED
    BY <2>1, <2>2
<1>12. CASE BootDomain(r)
  BY <1>12, BootDoes, GoesOn DEF ActorStep, Goes, Building, Asking
<1>13. CASE StoreNewVM(r)
  <2>1. CASE SameStore /\ Goes(r, "undoDom", loc[r])
    BY <1>13, <2>1, StoreDoes, GoesOn DEF ActorStep, Goes, Building, Asking
  <2>2. CASE ~(SameStore /\ Goes(r, "undoDom", loc[r]))
    <3>1. Stores(r)
      BY <1>13, <2>2, StoreDoes DEF Stores
    <3>2. QED
      BY <1>13, <3>1, StoreDoes DEF ActorStep
  <2>3. QED
    BY <2>1, <2>2
<1>14. CASE UndoDomain(r)
  BY <1>14, UndoDomainDoes, GoesOn DEF ActorStep, Goes, Building, Asking, Recalls
<1>15. CASE UndoHost(r)
  BY <1>15, UndoHostDoes, EndsStops DEF ActorStep, Recalls
<1>16. QED
  BY <1>1, <1>2, <1>3, <1>4, <1>5, <1>6, <1>7, <1>8, <1>9, <1>10, <1>11, <1>12, <1>13, <1>14, <1>15 DEF CreateStep

\* No operation on an existing VM is about one without a record.
LEMMA NotBuilding ==
  ASSUME Types, NEW x \in Actors, pc[x] \notin {"slot", "quota"},
         loc[x].op \in {"power", "start", "lock", "resize", "readdress", "delete", "monitor"}
  PROVE  ~Building(x) /\ ~Asking(x)
BY OpAt DEF Building, Asking, Shaped, Fits, Stages

LEMMA ChangeKind ==
  ASSUME Types, NEW r \in Requests, ChangeStep(r)
  PROVE  causes \subseteq causes' /\ ActorStep(r)
<1>1. CASE PowerVM(r) \/ UpdateVM(r) \/ DeleteVM(r)
  <2>1. PICK i \in stored, op \in {"power", "delete"} \cup Patches,
             q \in {"power", "updatePut", "updateStop", "disk", "deleteDomain"}, w \in Task :
          Goes(r, q, w) /\ Copied(r, i, op, w)
    BY <1>1, PowerVMDoes, UpdateVMDoes, DeleteVMDoes
  <2>2. Same /\ UNCHANGED <<used, causes>> /\ pc[r] = "idle"
    BY <1>1, PowerVMDoes, UpdateVMDoes, DeleteVMDoes
  <2>3. Copies(r)
    BY <2>1, <2>2 DEF Copied, Copies, Kept, Same, Goes, Building, Asking, Patches
  <2>4. QED
    BY <2>2, <2>3 DEF ActorStep
<1>2. CASE PowerDomain(r)
  <2>1. CASE Ends(r)
    BY <1>2, <2>1, PowerDomainDoes, EndsStops DEF ActorStep
  <2>2. CASE ~Ends(r)
    <3>1. Goes(r, "powerPut", loc[r]) \/ Goes(r, "power", [loc[r] EXCEPT !.op = "start"])
      BY <1>2, <2>2, PowerDomainDoes
    <3>2. pc[r] = "power" /\ Kept /\ causes' = causes /\ loc[r].op \in {"power", "start"}
      BY <1>2, PowerDomainDoes, OpAt DEF Kept
    <3>3. CASE Goes(r, "powerPut", loc[r])
      BY <3>2, <3>3, GoesOn DEF ActorStep, Kept, Goes, Building, Asking
    <3>4. CASE Goes(r, "power", [loc[r] EXCEPT !.op = "start"])
      <4> DEFINE w == [loc[r] EXCEPT !.op = "start"]
      <4>1. w.op = "start" /\ w.id = loc[r].id /\ w.dom = loc[r].dom /\ w.vm = loc[r].vm
        BY Fields
      <4>2. Goes(r, "power", w)
        BY <3>4
      <4> HIDE DEF w
      <4>3. (Building(r)' <=> Building(r)) /\ (Asking(r)' <=> Asking(r))
        BY <3>2, <4>2 DEF Goes, Building, Asking
      <4>4. QED
        BY <3>2, <4>1, <4>2, <4>3, GoesOnWith DEF ActorStep, Kept, Name
    <3>5. QED
      BY <3>1, <3>3, <3>4
  <2>3. QED
    BY <2>1, <2>2
<1>3. CASE PowerPut(r)
  <2>1. /\ pc[r] = "powerPut" /\ used' = used /\ Ends(r) /\ causes \subseteq causes'
        /\ loc[r].vm \in Record /\ ~Building(r) /\ ~Asking(r)
    BY <1>3, PowerPutDoes, OpAt DEF Recalls, Task, Building, Asking
  <2>2. CASE SameStore
    BY <2>1, <2>2, EndsStops DEF ActorStep
  <2>3. CASE ~SameStore
    <3>1. Writes(r)
      BY <1>3, <2>1, <2>3, PowerPutDoes DEF Writes, Ends, Goes, Name
    <3>2. QED
      BY <2>1, <3>1 DEF ActorStep
  <2>4. QED
    BY <2>2, <2>3
<1>4. CASE UpdateStop(r)
  <2>1. CASE Ends(r)
    BY <1>4, <2>1, UpdateStopDoes, EndsStops DEF ActorStep
  <2>2. CASE ~Ends(r)
    BY <1>4, <2>2, UpdateStopDoes, GoesOn DEF ActorStep, Goes, Building, Asking
  <2>3. QED
    BY <2>1, <2>2
<1>5. CASE GrowDisk(r)
  <2>1. CASE Ends(r)
    BY <1>5, <2>1, GrowDiskDoes, EndsStops DEF ActorStep
  <2>2. CASE ~Ends(r)
    <3>1. PICK q \in {"redefine", "oldAddress"} : Goes(r, q, loc[r])
      BY <1>5, <2>2, GrowDiskDoes
    <3>2. QED
      BY <1>5, <3>1, GrowDiskDoes, GoesOn DEF ActorStep, Goes, Building, Asking
  <2>3. QED
    BY <2>1, <2>2
<1>6. CASE RedefineDomain(r)
  <2>1. CASE Ends(r)
    BY <1>6, <2>1, RedefineDoes, EndsStops DEF ActorStep, Recalls
  <2>2. CASE ~Ends(r)
    BY <1>6, <2>2, RedefineDoes, GoesOn DEF ActorStep, Goes, Building, Asking, Recalls
  <2>3. QED
    BY <2>1, <2>2
<1>7. CASE DropOldAddress(r)
  BY <1>7, DropOldDoes, GoesOn DEF ActorStep, Goes, Building, Asking, Recalls
<1>8. CASE AddNewAddress(r)
  <2>1. CASE Ends(r)
    BY <1>8, <2>1, AddNewDoes, EndsStops DEF ActorStep, Recalls
  <2>2. CASE ~Ends(r)
    <3>1. PICK a \in Addrs : Goes(r, "newISO", [loc[r] EXCEPT !.ip = a])
      BY <1>8, <2>2, AddNewDoes
    <3> DEFINE w == [loc[r] EXCEPT !.ip = a]
    <3>2. w.op = loc[r].op /\ w.id = loc[r].id /\ w.dom = loc[r].dom /\ w.vm = loc[r].vm
      BY Fields
    <3>3. Goes(r, "newISO", w)
      BY <3>1
    <3> HIDE DEF w
    <3>4. pc[r] = "newAddress" /\ Kept /\ causes \subseteq causes'
      BY <1>8, AddNewDoes DEF Kept, Recalls
    <3>5. (Building(r)' <=> Building(r)) /\ (Asking(r)' <=> Asking(r))
      BY <3>3, <3>4 DEF Goes, Building, Asking
    <3>6. QED
      BY <3>2, <3>3, <3>4, <3>5, GoesOnWith DEF ActorStep, Kept, Name
  <2>3. QED
    BY <2>1, <2>2
<1>9. CASE RegenerateISO(r)
  <2>1. CASE Ends(r)
    BY <1>9, <2>1, RegenerateDoes, EndsStops DEF ActorStep, Recalls, Same
  <2>2. CASE ~Ends(r)
    BY <1>9, <2>2, RegenerateDoes, GoesOn DEF ActorStep, Goes, Building, Asking, Recalls, Same
  <2>3. QED
    BY <2>1, <2>2
<1>10. CASE UpdatePut(r)
  <2>1. /\ pc[r] = "updatePut" /\ used' = used /\ causes \subseteq causes'
        /\ ~Building(r) /\ ~Asking(r) /\ Patched(loc[r]) \in Record /\ Patched(loc[r]).name = Name(r)
    BY <1>10, UpdatePutDoes, PatchedIs DEF Recalls, Building, Asking
  <2>2. CASE SameStore /\ Ends(r)
    BY <2>1, <2>2, EndsStops DEF ActorStep
  <2>3. CASE ~(SameStore /\ Ends(r))
    <3>1. /\ Written(loc[r].id, Patched(loc[r])) /\ (Overwrites(r) => <<"stale", loc[r].id>> \in causes')
          /\ Ends(r) \/ Goes(r, "updateBoot", loc[r])
      BY <1>10, <2>3, UpdatePutDoes
    <3>2. Writes(r)
      BY <2>1, <3>1 DEF Writes, Ends, Goes
    <3>3. QED
      BY <2>1, <3>2 DEF ActorStep
  <2>4. QED
    BY <2>2, <2>3
<1>11. CASE UpdateBoot(r)
  BY <1>11, UpdateBootDoes, EndsStops DEF ActorStep
<1>12. CASE DeleteDomain(r)
  BY <1>12, DeleteDomainDoes, GoesOn DEF ActorStep, Goes, Building, Asking, Recalls
<1>13. CASE DeleteHost(r)
  BY <1>13, DeleteHostDoes, GoesOn DEF ActorStep, Goes, Building, Asking, Recalls
<1>14. CASE DeleteDir(r)
  BY <1>14, DeleteDirDoes, GoesOn DEF ActorStep, Goes, Building, Asking
<1>15. CASE DeleteRecord(r)
  <2>1. CASE SameStore
    BY <1>15, <2>1, DeleteRecordDoes, EndsStops DEF ActorStep, Recalls
  <2>2. CASE ~SameStore
    <3>1. Removes(r)
      BY <1>15, <2>2, DeleteRecordDoes DEF Removes, Ends, Goes
    <3>2. QED
      BY <1>15, <3>1, DeleteRecordDoes DEF ActorStep, Recalls
  <2>3. QED
    BY <2>1, <2>2
<1>16. QED
  BY <1>1, <1>2, <1>3, <1>4, <1>5, <1>6, <1>7, <1>8, <1>9, <1>10, <1>11, <1>12, <1>13, <1>14, <1>15 DEF ChangeStep

LEMMA MonitorKind ==
  ASSUME Types, NEW i \in Monitors, MonitorStep(i)
  PROVE  causes \subseteq causes' /\ ActorStep(i)
<1>1. CASE MonitorSeesIP(i)
  BY <1>1, SeesIPDoes, EndsStops DEF ActorStep, Same
<1>2. CASE MonitorTimesOut(i)
  <2>1. CASE Ends(i)
    BY <1>2, <2>1, TimesOutDoes, EndsStops DEF ActorStep, Same
  <2>2. CASE ~Ends(i)
    <3>1. PICK a \in Addrs : Goes(i, "fallback", [loc[i] EXCEPT !.ip = a])
      BY <1>2, <2>2, TimesOutDoes
    <3>2. Continues(i)
      BY <1>2, <3>1, Fields, TimesOutDoes DEF Continues, Kept, Goes, Same, Building, Asking, Name
    <3>3. QED
      BY <1>2, <3>2, TimesOutDoes DEF ActorStep
  <2>3. QED
    BY <2>1, <2>2
<1>3. CASE MonitorReserves(i)
  <2>1. CASE Ends(i)
    BY <1>3, <2>1, ReservesDoes, EndsStops DEF ActorStep
  <2>2. CASE ~Ends(i)
    BY <1>3, <2>2, ReservesDoes, GoesOn DEF ActorStep, Goes, Building, Asking
  <2>3. QED
    BY <2>1, <2>2
<1>4. CASE MonitorBounces(i)
  <2>1. CASE Ends(i)
    BY <1>4, <2>1, BouncesDoes, EndsStops DEF ActorStep, Recalls
  <2>2. CASE ~Ends(i)
    BY <1>4, <2>2, BouncesDoes, GoesOn DEF ActorStep, Goes, Building, Asking, Recalls
  <2>3. QED
    BY <2>1, <2>2
<1>5. CASE MonitorPings(i)
  <2>1. CASE Ends(i)
    BY <1>5, <2>1, PingsDoes, EndsStops DEF ActorStep, Recalls, Same
  <2>2. CASE ~Ends(i)
    <3>1. i \in stored /\ Goes(i, "monitorPut", [loc[i] EXCEPT !.vm = rec[i]])
      BY <1>5, <2>2, PingsDoes
    <3> DEFINE w == [loc[i] EXCEPT !.vm = rec[i]]
    <3>2. w.op = loc[i].op /\ w.id = loc[i].id /\ w.dom = loc[i].dom /\ w.vm = rec[i]
      BY Fields
    <3>3. Goes(i, "monitorPut", w)
      BY <3>1
    <3> HIDE DEF w
    <3>4. pc[i] = "ping" /\ Kept /\ causes \subseteq causes' /\ loc[i].id = i /\ i \in stored
      BY <1>5, <3>1, PingsDoes DEF Kept, Same, Recalls
    <3>5. (Building(i)' <=> Building(i)) /\ (Asking(i)' <=> Asking(i)) /\ ~Building(i)
      BY <3>3, <3>4 DEF Goes, Building, Asking
    <3>6. QED
      BY <3>2, <3>3, <3>4, <3>5, GoesOnWith DEF ActorStep, Kept
  <2>3. QED
    BY <2>1, <2>2
<1>6. CASE MonitorPuts(i)
  <2>1. /\ pc[i] = "monitorPut" /\ used' = used /\ Ends(i) /\ causes \subseteq causes' /\ loc[i].id = i
        /\ loc[i].vm \in Record /\ loc[i].ip \in Addrs \cup {NoIP} /\ ~Building(i) /\ ~Asking(i)
    BY <1>6, PutsDoes, OpAt DEF Recalls, Task, Building, Asking
  <2>2. CASE SameStore
    BY <2>1, <2>2, EndsStops DEF ActorStep
  <2>3. CASE ~SameStore
    <3>1. [loc[i].vm EXCEPT !.ip = loc[i].ip] \in Record /\ [loc[i].vm EXCEPT !.ip = loc[i].ip].name = Name(i)
      BY <2>1 DEF Record, Name
    <3>2. /\ Written(loc[i].id, [loc[i].vm EXCEPT !.ip = loc[i].ip])
          /\ Overwrites(i) => <<"stale", loc[i].id>> \in causes'
      BY <1>6, <2>1, <2>3, PutsDoes
    <3>3. Writes(i)
      BY <2>1, <3>1, <3>2 DEF Writes, Ends, Goes
    <3>4. QED
      BY <2>1, <3>3 DEF ActorStep
  <2>4. QED
    BY <2>2, <2>3
<1>7. QED
  BY <1>1, <1>2, <1>3, <1>4, <1>5, <1>6 DEF MonitorStep

LEMMA NextKind ==
  ASSUME Types, Next
  PROVE  Kind
<1>1. ASSUME NEW n \in Names, GuestShutsDown(n) PROVE Kind
  BY <1>1, GuestDoes DEF Kind, Stands, Kept
<1>2. CASE Crash
  BY <1>2, CrashDoes DEF Kind, Dies, Kept, Same, Recalls
<1>3. QED
  BY <1>1, <1>2, CreateKind, ChangeKind, MonitorKind DEF Kind, Next

-----------------------------------------------------------------------------
(* Whose record, and which copy of it, a goroutine works on. *)

\* A VM without a record is being built, or was deleted.
Known ==
  \A x \in Actors : loc[x].id # NoID =>
    Building(x) \/ loc[x].id \in stored \/ <<"deleted", loc[x].id>> \in causes

\* Nobody else has in hand a VM that is being built.
Exclusive ==
  \A r \in Actors : Building(r) => loc[r].id \notin stored /\ \A y \in Actors : loc[y].id = loc[r].id => y = r

\* No copy is newer than the record.
Versions ==
  \A x \in Actors : /\ Asking(x) => loc[x].vm.updated = 0
                    /\ loc[x].id # NoID => loc[x].vm.updated <= rec[loc[x].id].updated

\* Clones are told apart.
Cloning == \A x \in Actors : loc[x].op = "clone" /\ Building(x) => <<"clone", loc[x].id>> \in causes
Tracked == Known /\ Exclusive /\ Versions /\ Cloning

LEMMA HasID ==
  ASSUME Types
  PROVE  /\ \A x \in Actors : pc[x] = "idle" \/ Asking(x) => loc[x].id = NoID
         /\ \A x \in Actors : pc[x] # "idle" /\ ~Asking(x) =>
              loc[x].id \in used /\ loc[x].id \in IDs /\ loc[x].id # NoID
         /\ \A x \in Actors : Building(x) => pc[x] # "idle" /\ ~Asking(x) /\ x \in Requests
         /\ \A i \in stored : i \in used /\ i \in IDs /\ i # NoID /\ rec[i] \in Record
         /\ used \subseteq IDs /\ NoID \notin used
         /\ \A i \in IDs : rec[i] \in Record /\ rec[i].updated \in Nat
         /\ \A x \in Actors : loc[x] \in Task /\ loc[x].vm \in Record /\ loc[x].vm.updated \in Nat
<1>1. \A x \in Actors : pc[x] = "idle" \/ Asking(x) => loc[x].id = NoID
  BY DEF Types, Shaped, Fits, Asking
<1>2. \A x \in Actors : pc[x] # "idle" /\ ~Asking(x) => loc[x].id \in used /\ loc[x].id \in IDs /\ loc[x].id # NoID
  BY InHand
<1>3. \A x \in Actors : Building(x) => pc[x] # "idle" /\ ~Asking(x) /\ x \in Requests
  BY OpAt DEF Building, Asking, Shaped, Fits
<1>4. /\ \A i \in stored : i \in used /\ i \in IDs /\ i # NoID /\ rec[i] \in Record
      /\ used \subseteq IDs /\ NoID \notin used
      /\ \A i \in IDs : rec[i] \in Record /\ rec[i].updated \in Nat
  BY IdentityAssumption DEF Types, Values, Record
<1>5. \A x \in Actors : loc[x] \in Task /\ loc[x].vm \in Record /\ loc[x].vm.updated \in Nat
  BY DEF Types, Values, Task, Record
<1>6. QED
  BY <1>1, <1>2, <1>3, <1>4, <1>5

LEMMA InitTracked == Init => Tracked
<1> SUFFICES ASSUME Init PROVE Tracked
  OBVIOUS
<1>1. \A x \in Actors : pc[x] = "idle" /\ loc[x] = NoWork
  BY DEF Init
<1>2. QED
  BY <1>1, Constants DEF Tracked, Known, Exclusive, Versions, Cloning, Building, Asking

\* What a write or a removal does to the records.
LEMMA WriteEffect ==
  ASSUME Types, NEW i \in used, NEW vm \in Record, Written(i, vm)
  PROVE  /\ stored' = stored \cup {i} /\ rec'[i] = [vm EXCEPT !.updated = rec[i].updated + 1]
         /\ rec'[i].updated = rec[i].updated + 1 /\ rec'[i].ip = vm.ip /\ rec'[i].name = vm.name
         /\ \A j \in IDs \ {i} : rec'[j] = rec[j]
<1>1. i \in IDs /\ rec \in [IDs -> Record]
  BY DEF Types, Values
<1>2. stored' = stored \cup {i} /\ rec'[i] = [vm EXCEPT !.updated = rec[i].updated + 1]
      /\ \A j \in IDs \ {i} : rec'[j] = rec[j]
  BY <1>1 DEF Written
<1>3. QED
  BY <1>1, <1>2 DEF Record

LEMMA DeleteEffect ==
  ASSUME Types, NEW i \in used, Deleted(i)
  PROVE  /\ stored' = stored \ {i} /\ rec'[i].updated = rec[i].updated
         /\ \A j \in IDs \ {i} : rec'[j] = rec[j]
<1>1. i \in IDs /\ rec \in [IDs -> Record]
  BY DEF Types, Values
<1>2. QED
  BY <1>1 DEF Deleted, NoRecord

LEMMA ActorTracked ==
  ASSUME Types, Types', Tracked, causes \subseteq causes', NEW x \in Actors, ActorStep(x)
  PROVE  Tracked'
<1> USE DEF Tracked, Known, Exclusive, Versions, Cloning
<1>1. CASE Stops(x)
  <2>1. \A y \in Actors : Building(y)' => y # x
    BY <1>1 DEF Stops, Building
  <2>2. \A y \in Actors \ {x} : (Building(y)' <=> Building(y)) /\ (Asking(y)' <=> Asking(y))
    BY <1>1 DEF Stops, Others, Building, Asking
  <2>3. ~Asking(x)'
    BY <1>1 DEF Stops, Asking
  <2>4. QED
    <3>1. loc'[x].id = NoID /\ stored' = stored /\ rec' = rec /\ \A y \in Actors \ {x} : loc'[y] = loc[y]
      BY <1>1, Constants DEF Stops, Others, Kept, SameStore
    <3>2. Known'
      BY <2>1, <2>2, <3>1
    <3>3. Exclusive'
      <4>1. \A r \in Actors : Building(r)' => r # x /\ Building(r) /\ loc'[r].id = loc[r].id /\ loc[r].id # NoID
        BY <2>1, <2>2, <3>1, HasID
      <4>2. QED
        BY <3>1, <4>1
    <3>4. Versions'
      BY <2>2, <2>3, <3>1
    <3>5. Cloning'
      BY <2>1, <2>2, <3>1
    <3>6. QED
      BY <3>2, <3>3, <3>4, <3>5
<1>2. CASE Continues(x)
  <2>1. \A y \in Actors : (Building(y)' <=> Building(y)) /\ (Asking(y)' <=> Asking(y)) /\ loc'[y].id = loc[y].id
    BY <1>2 DEF Continues, Others, Building, Asking
  <2>2. Building(x) => loc'[x].op = loc[x].op \/ loc'[x].op # "clone"
    BY <1>2 DEF Continues
  <2>3. loc'[x].vm.updated = loc[x].vm.updated \/ loc'[x].vm = rec[loc[x].id]
    BY <1>2 DEF Continues
  <2>4. loc[x].id # NoID => loc[x].id \in IDs
    BY HasID
  <2>5. Versions'
    <3>1. \A y \in Actors \ {x} : loc'[y] = loc[y]
      BY <1>2 DEF Continues, Others
    <3>2. Asking(x) => loc'[x].vm.updated = 0
      BY <1>2, <2>3, HasID DEF Continues
    <3>3. loc[x].id # NoID => loc'[x].vm.updated <= rec[loc[x].id].updated
      BY <2>3, <2>4, HasID
    <3>4. QED
      BY <1>2, <2>1, <3>1, <3>2, <3>3 DEF Continues, Kept, SameStore
  <2>6. Known' /\ Exclusive'
    BY <1>2, <2>1 DEF Continues, Kept, SameStore
  <2>7. Cloning'
    BY <1>2, <2>1, <2>2 DEF Continues, Others
  <2>8. QED
    BY <2>5, <2>6, <2>7
<1>3. CASE Asks(x)
  <2>1. \A y \in Actors : (Building(y)' <=> Building(y)) /\ loc'[y].id = loc[y].id
    BY <1>3, HasID DEF Asks, Others, Building, Asking
  <2>2. \A y \in Actors \ {x} : (Asking(y)' <=> Asking(y)) /\ loc'[y] = loc[y]
    BY <1>3 DEF Asks, Others, Asking
  <2>3. ~Building(x)'
    BY <1>3 DEF Asks, Building, Asking
  <2>4. QED
    BY <1>3, <2>1, <2>2, <2>3 DEF Asks, Kept, SameStore
<1>4. CASE Copies(x)
  <2>1. \A y \in Actors \ {x} : (Building(y)' <=> Building(y)) /\ (Asking(y)' <=> Asking(y)) /\ loc'[y] = loc[y]
    BY <1>4 DEF Copies, Others, Building, Asking
  <2>2. ~Building(x)' /\ ~Asking(x)' /\ loc'[x].id \in stored /\ loc'[x].vm = rec[loc'[x].id]
    BY <1>4 DEF Copies
  <2>3. QED
    BY <1>4, <2>1, <2>2, HasID DEF Copies, Kept, SameStore
<1>5. CASE Registers(x)
  <2>1. PICK i \in IDs \ used :
          /\ used' = used \cup {i} /\ loc'[x] = [loc[x] EXCEPT !.id = i] /\ Building(x)'
          /\ loc[x].op = "clone" => <<"clone", i>> \in causes'
    BY <1>5 DEF Registers
  <2>2. loc'[x].id = i /\ loc'[x].vm = loc[x].vm /\ loc'[x].op = loc[x].op
    BY <2>1, Fields
  <2>3. \A y \in Actors \ {x} : (Building(y)' <=> Building(y)) /\ (Asking(y)' <=> Asking(y)) /\ loc'[y] = loc[y]
    BY <1>5 DEF Registers, Others, Building, Asking
  <2>4. i \notin stored /\ \A y \in Actors : loc[y].id # i
    BY HasID, IdentityAssumption
  <2>5. loc[x].vm.updated = 0 /\ rec[i].updated \in Nat /\ ~Asking(x)'
    BY <1>5, <2>1, HasID DEF Registers, Asking, Building
  <2>6. QED
    <3>1. stored' = stored /\ rec' = rec
      BY <1>5 DEF Registers, SameStore
    <3>2. Known'
      BY <2>1, <2>3, <3>1
    <3>3. Exclusive'
      BY <2>1, <2>2, <2>3, <2>4, <3>1
    <3>4. Versions'
      BY <2>2, <2>3, <2>5, <3>1
    <3>5. Cloning'
      BY <2>1, <2>2, <2>3, <3>1
    <3>6. QED
      BY <3>2, <3>3, <3>4, <3>5
<1>6. CASE Writes(x)
  <2>1. PICK vm \in Record : Written(loc[x].id, vm)
    BY <1>6 DEF Writes
  <2>2. PICK i \in used : i = loc[x].id /\ i \in IDs /\ i # NoID
    BY <1>6, HasID DEF Writes
  <2>3. /\ stored' = stored \cup {i} /\ rec'[i].updated = rec[i].updated + 1
        /\ \A j \in IDs \ {i} : rec'[j] = rec[j]
    BY <2>1, <2>2, WriteEffect
  <2>4. \A y \in Actors \ {x} : (Building(y)' <=> Building(y)) /\ (Asking(y)' <=> Asking(y)) /\ loc'[y] = loc[y]
    BY <1>6 DEF Writes, Others, Building, Asking
  <2>5. ~Building(x)' /\ ~Asking(x)' /\ ~Building(x) /\ (loc'[x] = loc[x] \/ loc'[x].id = NoID)
    BY <1>6, Constants DEF Writes, Building, Asking
  <2>6. \A j \in IDs : rec'[j].updated >= rec[j].updated
    BY <2>2, <2>3, HasID
  <2>7. Versions'
    <3>1. \A y \in Actors : loc'[y].id # NoID =>
            loc'[y] = loc[y] /\ loc[y].id \in IDs /\ loc[y].vm.updated \in Nat /\ rec[loc[y].id].updated \in Nat
              /\ rec'[loc[y].id].updated \in Nat
      BY <2>4, <2>5, <2>2, <2>3, HasID
    <3>2. QED
      BY <2>4, <2>5, <2>6, <3>1
  <2>8. Known' /\ Exclusive' /\ Cloning'
    <3>1. Known'
      BY <2>2, <2>3, <2>4, <2>5
    <3>2. Exclusive'
      <4>1. \A r \in Actors : Building(r)' => r # x /\ Building(r) /\ loc[r].id # NoID /\ loc'[r].id = loc[r].id
        BY <2>4, <2>5, HasID
      <4>2. \A r \in Actors : Building(r) => loc[r].id # i
        BY <2>2, <2>5
      <4>3. \A y \in Actors : loc'[y].id # NoID => loc'[y].id = loc[y].id
        BY <2>4, <2>5
      <4>4. QED
        BY <2>3, <4>1, <4>2, <4>3
    <3>3. Cloning'
      BY <2>4, <2>5
    <3>4. QED
      BY <3>1, <3>2, <3>3
  <2>9. QED
    BY <2>7, <2>8
<1>7. CASE x \in Requests /\ Stores(x)
  <2>1. PICK i \in used : i = loc[x].id /\ i \in IDs /\ i # NoID /\ x # i
    BY <1>7, HasID, IdentityAssumption DEF Stores, Asking
  <2>2. Building(x) /\ loc[x].vm \in Record /\ loc[x].vm.updated <= rec[i].updated
    BY <1>7, <2>1, HasID DEF Stores, Building
  <2>3. /\ stored' = stored \cup {i} /\ rec'[i].updated = rec[i].updated + 1
        /\ \A j \in IDs \ {i} : rec'[j] = rec[j]
    BY <1>7, <2>1, <2>2, WriteEffect DEF Stores
  <2>4. \A y \in Actors \ {x, i} : (Building(y)' <=> Building(y)) /\ (Asking(y)' <=> Asking(y)) /\ loc'[y] = loc[y]
    BY <1>7, <2>1 DEF Stores, Building, Asking
  <2>5. /\ ~Building(x)' /\ ~Asking(x)' /\ ~Building(i)' /\ ~Asking(i)' /\ loc'[x] = NoWork
        /\ loc'[i].id = NoID \/ (loc'[i].id = i /\ loc'[i].vm = loc[x].vm)
    BY <1>7, <2>1, Constants DEF Stores, Building, Asking, NoWork
  <2>6. \A y \in Actors \ {x, i} : loc[y].id # i
    BY <2>1, <2>2
  <2>7. Versions'
    <3>1. \A y \in Actors \ {x, i} : loc[y].id # NoID => rec'[loc[y].id] = rec[loc[y].id]
      BY <2>3, <2>6, HasID
    <3>2. loc'[i].id = i => loc'[i].vm.updated <= rec'[i].updated
      BY <2>1, <2>2, <2>3, <2>5, HasID
    <3>3. QED
      BY <2>1, <2>4, <2>5, <3>1, <3>2, Constants
  <2>8. Known' /\ Exclusive'
    <3>1. Known'
      BY <2>1, <2>3, <2>4, <2>5, Constants
    <3>2. \A r \in Actors : Building(r)' => r \notin {x, i} /\ Building(r) /\ loc[r].id \notin {i, NoID}
      BY <2>4, <2>5, <2>6, HasID
    <3>3. \A y \in Actors : loc'[y].id \in {NoID, i} \/ (y \notin {x, i} /\ loc'[y] = loc[y])
      BY <2>4, <2>5, Constants
    <3>4. Exclusive'
      BY <2>3, <2>4, <3>2, <3>3
    <3>5. QED
      BY <3>1, <3>4
  <2>9. Cloning'
    BY <2>4, <2>5
  <2>10. QED
    BY <2>7, <2>8, <2>9
<1>8. CASE x \in Requests /\ Removes(x)
  <2>1. PICK i \in used : i = loc[x].id /\ i \in IDs /\ i # NoID
    BY <1>8, HasID DEF Removes, Asking
  <2>2. /\ stored' = stored \ {i} /\ rec'[i].updated = rec[i].updated /\ <<"deleted", i>> \in causes'
        /\ \A j \in IDs \ {i} : rec'[j] = rec[j]
    BY <1>8, <2>1, DeleteEffect DEF Removes
  <2>3. \A y \in Actors \ {x} : (Building(y)' <=> Building(y)) /\ (Asking(y)' <=> Asking(y)) /\ loc'[y] = loc[y]
    BY <1>8 DEF Removes, Others, Building, Asking
  <2>4. ~Building(x)' /\ ~Asking(x)' /\ loc'[x].id = NoID
    BY <1>8, Constants DEF Removes, Building, Asking
  <2>5. QED
    BY <2>1, <2>2, <2>3, <2>4, HasID
<1>9. QED
  BY <1>1, <1>2, <1>3, <1>4, <1>5, <1>6, <1>7, <1>8 DEF ActorStep

LEMMA NextTracked ==
  ASSUME Types, Types', Tracked, Kind
  PROVE  Tracked'
<1>1. CASE Stands
  BY <1>1 DEF Kind, Stands, Kept, SameStore, Tracked, Known, Exclusive, Versions, Cloning, Building, Asking
<1>2. CASE Dies
  BY <1>2, Constants DEF Dies, Tracked, Known, Exclusive, Versions, Cloning, Building, Asking
<1>3. QED
  BY <1>1, <1>2, ActorTracked DEF Kind

-----------------------------------------------------------------------------
(* The quota. *)

Uncounted(i) == <<"deleted", i>> \in causes \/ <<"clone", i>> \in causes
Creating(r, i) == loc[r].op = "create" /\ Building(r) /\ loc[r].id = i
\* What the quota admitted: VMs that are stored or are being created.
Admitted == {i \in used : ~Uncounted(i) /\ (i \in stored \/ \E r \in Requests : Creating(r, i))}
Bounded ==
  /\ IsFiniteSet(stored) /\ IsFiniteSet(Admitted)
  /\ Cardinality(Admitted) <= MaxVMs - 1 + MaxCreates

LEMMA BoundedKept ==
  ASSUME Bounded, Admitted' \subseteq Admitted, IsFiniteSet(stored')
  PROVE  Bounded'
<1>1. IsFiniteSet(Admitted') /\ Cardinality(Admitted') <= Cardinality(Admitted)
  BY FS_Subset DEF Bounded
<1>2. Cardinality(Admitted) \in Nat /\ Cardinality(Admitted') \in Nat
  BY <1>1, FS_CardinalityType DEF Bounded
<1>3. QED
  BY <1>1, <1>2, QuotaAssumption DEF Bounded

\* No step but the quota check admits a VM.
LEMMA AdmittedKept ==
  ASSUME Types, Tracked, causes \subseteq causes', used' = used,
         \A i \in stored' : i \in stored \/ Uncounted(i) \/ (\E r \in Requests : Creating(r, i)),
         \A r \in Requests, i \in used : Creating(r, i)' => Creating(r, i)
  PROVE  Admitted' \subseteq Admitted
<1>1. \A i : Uncounted(i) => Uncounted(i)'
  BY DEF Uncounted
<1>2. QED
  BY <1>1 DEF Admitted

LEMMA Admission ==
  ASSUME Types, Slots, Tracked, Bounded, causes \subseteq causes', NEW r \in Requests, Registers(r), NEW i \in IDs,
         used' = used \cup {i}, loc'[r] = [loc[r] EXCEPT !.id = i]
  PROVE  Bounded'
<1> DEFINE others == SlotHolders \ {r}
           ids == {loc[y].id : y \in others}
           id == [y \in others |-> loc[y].id]
<1>1. Uncounted(i)' \/ loc[r].op = "create"
  <2>1. loc[r].op \in {"create", "clone"}
    BY OpAt DEF Registers
  <2>2. loc[r].op = "clone" => <<"clone", i>> \in causes'
    <3>1. PICK j \in IDs \ used :
            used' = used \cup {j} /\ loc'[r] = [loc[r] EXCEPT !.id = j]
              /\ (loc[r].op = "clone" => <<"clone", j>> \in causes')
      BY DEF Registers
    <3>2. loc'[r].id = j /\ loc'[r].id = i
      BY <3>1, Fields
    <3>3. QED
      BY <3>1, <3>2
  <2>3. QED
    BY <2>1, <2>2 DEF Uncounted
<1>2. \A y \in Requests \ {r} : pc'[y] = pc[y] /\ loc'[y] = loc[y]
  BY DEF Registers, Others
<1>3. stored' = stored
  BY DEF Registers, SameStore
<1>4. Admitted' \subseteq Admitted \cup {i}
  <2>1. loc'[r].id = i
    BY Fields
  <2>2. \A y \in Requests, j \in used' : Creating(y, j)' => Creating(y, j) \/ j = i
    BY <1>2, <2>1 DEF Creating, Building
  <2>3. QED
    BY <1>3, <2>2 DEF Admitted, Uncounted
<1>5. Admitted \subseteq stored \cup ids
  <2>1. \A y \in Requests : Building(y) => y # r /\ pc[y] # "slot"
    BY DEF Registers, Building
  <2>2. QED
    BY <2>1 DEF Admitted, Creating, SlotHolders
<1>6. CASE loc[r].op = "create"
  <2>1. r \in SlotHolders
    BY <1>6 DEF SlotHolders, Registers
  <2>2. /\ IsFiniteSet(others) /\ Cardinality(others) = Cardinality(SlotHolders) - 1
    BY <2>1, FS_RemoveElement DEF Slots
  <2>3. id \in Surjection(others, ids)
    BY DEF Surjection
  <2>4. IsFiniteSet(ids) /\ Cardinality(ids) <= Cardinality(others)
    BY <2>2, <2>3, FS_Surjection
  <2>5. /\ IsFiniteSet(stored \cup ids)
        /\ Cardinality(stored \cup ids) = Cardinality(stored) + Cardinality(ids) - Cardinality(stored \cap ids)
    BY <2>4, FS_Union DEF Bounded
  <2>6. IsFiniteSet(stored \cap ids)
    BY <2>4, FS_Intersection
  <2>7. Cardinality(Admitted) <= Cardinality(stored \cup ids)
    BY <1>5, <2>5, FS_Subset
  <2>8. IsFiniteSet(Admitted \cup {i}) /\ Cardinality(Admitted \cup {i}) <= Cardinality(Admitted) + 1
    <3>1. Cardinality(Admitted) \in Nat
      BY FS_CardinalityType DEF Bounded
    <3>2. IsFiniteSet(Admitted)
      BY DEF Bounded
    <3> HIDE DEF others, ids, id
    <3>3. /\ IsFiniteSet(Admitted \cup {i})
          /\ Cardinality(Admitted \cup {i}) =
               IF i \in Admitted THEN Cardinality(Admitted) ELSE Cardinality(Admitted) + 1
      BY <3>2, FS_AddElement
    <3>4. QED
      BY <3>1, <3>3
  <2>9. IsFiniteSet(Admitted') /\ Cardinality(Admitted') <= Cardinality(Admitted \cup {i})
    BY <1>4, <2>8, FS_Subset
  <2>10. Cardinality(stored) + 1 <= MaxVMs
    BY DEF Registers, WithinQuota
  <2>11. tokens \in Nat /\ tokens + Cardinality(SlotHolders) = MaxCreates /\ Cardinality(SlotHolders) \in Nat
    BY FS_CardinalityType DEF Slots
  <2>12. /\ Cardinality(stored) \in Nat /\ Cardinality(ids) \in Nat /\ Cardinality(stored \cap ids) \in Nat
         /\ Cardinality(Admitted) \in Nat /\ Cardinality(Admitted') \in Nat
         /\ Cardinality(Admitted \cup {i}) \in Nat /\ Cardinality(others) \in Nat
         /\ Cardinality(stored \cup ids) \in Nat
    BY <2>2, <2>4, <2>5, <2>6, <2>8, <2>9, FS_CardinalityType DEF Bounded
  <2> HIDE DEF others, ids, id
  <2>13. Cardinality(Admitted') <= MaxVMs - 1 + MaxCreates
    BY <2>2, <2>4, <2>5, <2>7, <2>8, <2>9, <2>10, <2>11, <2>12, QuotaAssumption
  <2>14. QED
    BY <1>3, <2>9, <2>13 DEF Bounded
<1>7. CASE Uncounted(i)'
  <2>1. Admitted' \subseteq Admitted
    BY <1>4, <1>7 DEF Admitted
  <2>2. QED
    BY <1>3, <2>1, BoundedKept DEF Bounded
<1>8. QED
  BY <1>1, <1>6, <1>7

LEMMA ActorBounded ==
  ASSUME Types, Slots, Tracked, Bounded, causes \subseteq causes', NEW x \in Actors, ActorStep(x)
  PROVE  Bounded'
<1>1. CASE Stops(x) \/ Continues(x) \/ Asks(x) \/ Copies(x)
  <2>1. Kept /\ Others(x)
    BY <1>1 DEF Stops, Continues, Asks, Copies
  <2>2. \A r \in Requests, i \in used : Creating(r, i)' => Creating(r, i)
    <3>1. CASE Stops(x)
      BY <3>1 DEF Stops, Others, Creating, Building
    <3>2. CASE Continues(x)
      BY <3>2 DEF Continues, Others, Creating, Building
    <3>3. CASE Asks(x)
      BY <3>3, HasID DEF Asks, Others, Creating, Building, Asking
    <3>4. CASE Copies(x)
      BY <3>4 DEF Copies, Others, Creating, Building
    <3>5. QED
      BY <1>1, <3>1, <3>2, <3>3, <3>4
  <2>3. QED
    BY <2>1, <2>2, AdmittedKept, BoundedKept DEF Kept, SameStore, Bounded
<1>2. CASE Registers(x) /\ x \in Requests
  BY <1>2, Admission DEF Registers
<1>3. CASE Writes(x)
  <2>1. PICK i \in used : i = loc[x].id /\ stored' = stored \cup {i} /\ i # NoID
    BY <1>3, HasID DEF Writes, Written
  <2>2. i \in stored \/ Uncounted(i)
    BY <1>3, <2>1 DEF Writes, Tracked, Known, Uncounted
  <2>3. \A r \in Requests, j \in used : Creating(r, j)' => Creating(r, j)
    BY <1>3 DEF Writes, Others, Creating, Building
  <2>4. IsFiniteSet(stored')
    BY <2>1, FS_AddElement DEF Bounded
  <2>5. QED
    BY <1>3, <2>1, <2>2, <2>3, <2>4, AdmittedKept, BoundedKept DEF Writes
<1>4. CASE x \in Requests /\ Stores(x)
  <2>1. PICK i \in used : i = loc[x].id /\ stored' = stored \cup {i}
    BY <1>4, HasID DEF Stores, Written, Asking
  <2>2. loc[x].op \in {"create", "clone"} /\ Building(x)
    BY <1>4, OpAt DEF Stores, Building
  <2>3. Creating(x, i) \/ Uncounted(i)
    BY <2>1, <2>2 DEF Creating, Tracked, Cloning, Uncounted
  <2>4. \A r \in Requests, j \in used : Creating(r, j)' => Creating(r, j)
    <3>1. \A r \in Requests \ {x} : r \in Actors \ {x, loc[x].id}
      BY <1>4, HasID, IdentityAssumption DEF Stores, Asking
    <3>2. QED
      BY <1>4, <3>1 DEF Stores, Creating, Building
  <2>5. IsFiniteSet(stored')
    BY <2>1, FS_AddElement DEF Bounded
  <2>6. QED
    BY <1>4, <2>1, <2>3, <2>4, <2>5, AdmittedKept, BoundedKept DEF Stores
<1>5. CASE x \in Requests /\ Removes(x)
  <2>1. stored' \subseteq stored
    BY <1>5 DEF Removes, Deleted
  <2>2. \A r \in Requests, j \in used : Creating(r, j)' => Creating(r, j)
    BY <1>5 DEF Removes, Others, Creating, Building
  <2>3. IsFiniteSet(stored')
    BY <2>1, FS_Subset DEF Bounded
  <2>4. QED
    BY <1>5, <2>1, <2>2, <2>3, AdmittedKept, BoundedKept DEF Removes
<1>6. QED
  BY <1>1, <1>2, <1>3, <1>4, <1>5 DEF ActorStep

LEMMA NextBounded ==
  ASSUME Types, Slots, Tracked, Bounded, Kind
  PROVE  Bounded'
<1>1. CASE Stands
  <2>1. \A r \in Requests, i \in used : Creating(r, i)' => Creating(r, i)
    BY <1>1 DEF Stands, Creating, Building
  <2>2. QED
    BY <1>1, <2>1, AdmittedKept, BoundedKept DEF Kind, Stands, Kept, SameStore, Bounded
<1>2. CASE Dies
  <2>1. \A r \in Requests, i \in used : Creating(r, i)' => Creating(r, i)
    BY <1>2 DEF Dies, Creating, Building
  <2>2. QED
    BY <1>2, <2>1, AdmittedKept, BoundedKept DEF Kind, Dies, Kept, SameStore, Bounded
<1>3. QED
  BY <1>1, <1>2, ActorBounded DEF Kind

LEMMA InitBounded == Init => Bounded
<1> SUFFICES ASSUME Init PROVE Bounded
  OBVIOUS
<1>1. Admitted = {} /\ stored = {}
  BY DEF Init, Admitted
<1>2. QED
  BY <1>1, FS_EmptySet, QuotaAssumption DEF Bounded

-----------------------------------------------------------------------------
QuotaInv == Types /\ Slots /\ Tracked /\ Bounded

LEMMA QuotaInvariant == Spec => []QuotaInv
<1>1. Init => QuotaInv
  BY InitTypes, InitSlots, InitTracked, InitBounded DEF QuotaInv
<1>2. QuotaInv /\ [Next]_vars => QuotaInv'
  <2> SUFFICES ASSUME QuotaInv, [Next]_vars PROVE QuotaInv'
    OBVIOUS
  <2>1. CASE Next
    <3>1. Types' /\ Slots' /\ Kind
      BY <2>1, NextTypes, NextSlots, NextKind DEF QuotaInv
    <3>2. QED
      BY <3>1, NextTracked, NextBounded DEF QuotaInv
  <2>2. CASE UNCHANGED vars
    <3>1. Types'
      BY <2>2, StutterTypes DEF QuotaInv
    <3>2. Slots'
      BY <2>2 DEF QuotaInv, Slots, SlotHolders, vars
    <3>3. Tracked'
      BY <2>2 DEF QuotaInv, Tracked, Known, Exclusive, Versions, Cloning, Building, Asking, vars
    <3>4. Bounded'
      BY <2>2 DEF QuotaInv, Bounded, Admitted, Uncounted, Creating, Building, vars
    <3>5. QED
      BY <3>1, <3>2, <3>3, <3>4 DEF QuotaInv
  <2>3. QED
    BY <2>1, <2>2
<1>3. QED
  BY <1>1, <1>2, PTL DEF Spec

\* However many creates pass acquireCreateSlot and the two quota checks of
\* checkQuota at the same time, the VMs admitted exceed quotas.max_vms by at
\* most daemon.max_concurrent_creates - 1.
THEOREM QuotaOvershoot == Spec => []QuotaOvershootBounded
<1>1. QuotaInv => QuotaOvershootBounded
  <2> SUFFICES ASSUME QuotaInv PROVE QuotaOvershootBounded
    OBVIOUS
  <2> DEFINE counted == {i \in stored : ~HasCause(i, {"deleted", "clone"})}
  <2>1. counted \subseteq Admitted
    BY HasID DEF QuotaInv, HasCause, Admitted, Uncounted
  <2>2. Cardinality(counted) <= Cardinality(Admitted) /\ IsFiniteSet(counted)
    BY <2>1, FS_Subset DEF QuotaInv, Bounded
  <2>3. Cardinality(counted) \in Nat /\ Cardinality(Admitted) \in Nat
    BY <2>2, FS_CardinalityType DEF QuotaInv, Bounded
  <2>4. QED
    BY <2>2, <2>3, QuotaAssumption DEF QuotaInv, Bounded, QuotaOvershootBounded
<1>2. QED
  BY <1>1, QuotaInvariant, PTL

-----------------------------------------------------------------------------
(* The VM directories. *)

HasDir(x) == pc[x] \in {"reap", "define", "boot", "put"} \/ (loc[x].op = "clone" /\ pc[x] \in {"find", "byname", "add"})
NoDir(x) == pc[x] \in {"mkdir", "source"} \/ (loc[x].op = "create" /\ pc[x] \in {"find", "byname", "add"})

\* A VM has its directory from mkdir on and until the last step but one of
\* its removal.
Dirs ==
  /\ \A x \in Actors : HasDir(x) => loc[x].id \in dir
  /\ \A x \in Actors : NoDir(x) \/ pc[x] = "deleteRecord" => loc[x].id \notin dir
  /\ \A i \in stored : \/ i \in dir \/ HasCause(i, {"crash", "stale", "halfDeleted"})
                      \/ \E x \in Actors : pc[x] = "deleteRecord" /\ loc[x].id = i
  /\ \A i \in dir : \/ i \in stored \/ HasCause(i, {"crash"})
                   \/ \E x \in Actors : Building(x) /\ loc[x].id = i

\* What a step of x does to them.
DirStep(x) ==
  LET i == loc[x].id IN
  /\ \/ dir' = dir
     \/ dir' = dir \cup {i} /\ Building(x) /\ Building(x)'
     \/ dir' = dir \ {i} /\ (pc[x] = "undoHost" \/ pc'[x] = "deleteRecord")
  /\ (Building(x) /\ Building(x)') \/ pc'[x] = "deleteRecord" => loc'[x].id = i
  /\ HasDir(x)' => loc'[x].id = i /\ (i \in dir' \/ (HasDir(x) /\ dir' = dir))
  /\ NoDir(x)' => dir' = dir /\ (loc'[x].id \notin used \/ (NoDir(x) /\ loc'[x].id = i))
  /\ pc'[x] = "deleteRecord" => dir' = dir \ {i}
  /\ pc[x] = "deleteRecord" => dir' = dir /\ (Removes(x) \/ (SameStore /\ <<"halfDeleted", i>> \in causes'))
  /\ Building(x) /\ ~Building(x)' =>
       dir' = dir \ {i} \/ (dir' = dir /\ (NoDir(x) \/ (HasDir(x) /\ i \in stored')))
  /\ \A j \in stored \ stored' : j = i /\ pc[x] = "deleteRecord"

LEMMA CreateDir ==
  ASSUME Types, NEW r \in Requests, CreateStep(r)
  PROVE  DirStep(r)
<1> USE DEF HasDir, NoDir, Building, Same, SameStore, SameHost
<1>1. CASE CreateVM(r)
  BY <1>1, CreateVMDoes, Constants DEF DirStep, Goes
<1>2. CASE AcquireCreateSlot(r)
  BY <1>2, AcquireDoes, Constants DEF DirStep, Goes, Ends
<1>3. CASE CloneVM(r)
  BY <1>3, CloneVMDoes, Constants DEF DirStep, Goes
<1>4. CASE CheckQuota(r)
  <2>1. CASE Ends(r)
    BY <1>4, <2>1, CheckQuotaDoes, Constants DEF DirStep, Goes, Ends
  <2>2. CASE ~Ends(r)
    <3>1. PICK i \in IDs \ used, q \in {"find", "mkdir", "source"} :
            Goes(r, q, [loc[r] EXCEPT !.id = i]) /\ (loc[r].op = "clone" => q = "source")
      BY <1>4, <2>2, CheckQuotaDoes
    <3>2. pc'[r] = q /\ loc'[r].id = i /\ (loc'[r].op = "clone" => q = "source")
      BY <3>1, Fields DEF Goes
    <3>3. QED
      BY <1>4, <3>2, CheckQuotaDoes DEF DirStep
  <2>3. QED
    BY <2>1, <2>2
<1>5. CASE ReadSource(r)
  <2>1. CASE Ends(r)
    BY <1>5, <2>1, ReadSourceDoes, Constants DEF DirStep, Goes, Ends
  <2>2. CASE ~Ends(r)
    <3>1. PICK l \in BOOLEAN : Goes(r, "mkdir", [loc[r] EXCEPT !.dom = NoID, !.vm.locked = l])
      BY <1>5, <2>2, ReadSourceDoes
    <3>2. pc'[r] = "mkdir" /\ loc'[r].id = loc[r].id /\ loc'[r].op = loc[r].op
      BY <3>1, Fields DEF Goes
    <3>3. QED
      BY <1>5, <3>2, ReadSourceDoes DEF DirStep
  <2>3. QED
    BY <2>1, <2>2
<1>6. CASE FindAvailableIP(r)
  <2>1. pc'[r] \in {"byname", IF loc[r].op = "create" THEN "mkdir" ELSE "define"}
    BY <1>6, FindDoes DEF Goes
  <2>2. loc'[r].id = loc[r].id /\ loc'[r].op = loc[r].op
    <3>1. CASE loc'[r] = loc[r]
      BY <3>1
    <3>2. CASE loc'[r] # loc[r]
      <4>1. PICK a \in Addrs : loc'[r] = [loc[r] EXCEPT !.ip = a]
        BY <1>6, <3>2, FindDoes DEF Goes
      <4>2. QED
        BY <4>1, Fields
    <3>3. QED
      BY <3>1, <3>2
  <2>3. QED
    BY <1>6, <2>1, <2>2, FindDoes, OpAt DEF DirStep
<1>7. CASE RemoveDHCPHostByName(r)
  BY <1>7, ByNameDoes, OpAt DEF DirStep, Goes
<1>8. CASE AddDHCPHost(r)
  <2>1. pc'[r] = IF loc[r].op = "create" THEN "mkdir" ELSE "define"
    BY <1>8, AddDoes DEF Goes
  <2>2. loc'[r] = [loc[r] EXCEPT !.vm.ip = loc[r].ip, !.ip = NoIP] \/ loc'[r] = [loc[r] EXCEPT !.ip = NoIP]
    BY <1>8, AddDoes DEF Goes
  <2>3. loc'[r].id = loc[r].id /\ loc'[r].op = loc[r].op
    BY <2>2, OpAt DEF Task, Record
  <2>4. QED
    BY <1>8, <2>1, <2>3, AddDoes, OpAt DEF DirStep
<1>9. CASE MkdirAll(r)
  BY <1>9, MkdirDoes, OpAt DEF DirStep, Goes, Ends
<1>10. CASE ReapOrphan(r)
  BY <1>10, ReapDoes DEF DirStep, Goes
<1>11. CASE DomainDefineXML(r)
  <2>1. pc'[r] \in {"undoDom", IF loc[r].op = "create" THEN "boot" ELSE "put"}
    BY <1>11, DefineDoes DEF Goes
  <2>2. loc'[r] = loc[r] \/ loc'[r] = [loc[r] EXCEPT !.dom = loc[r].id]
    BY <1>11, DefineDoes DEF Goes
  <2>3. loc'[r].id = loc[r].id
    BY <2>2, OpAt DEF Task
  <2>4. QED
    BY <1>11, <2>1, <2>3, DefineDoes DEF DirStep
<1>12. CASE BootDomain(r)
  BY <1>12, BootDoes DEF DirStep, Goes
<1>13. CASE StoreNewVM(r)
  BY <1>13, StoreDoes DEF DirStep, Goes, Written
<1>14. CASE UndoDomain(r)
  BY <1>14, UndoDomainDoes DEF DirStep, Goes
<1>15. CASE UndoHost(r)
  BY <1>15, UndoHostDoes DEF DirStep, Goes, Ends
<1>16. QED
  BY <1>1, <1>2, <1>3, <1>4, <1>5, <1>6, <1>7, <1>8, <1>9, <1>10, <1>11, <1>12, <1>13, <1>14, <1>15 DEF CreateStep

LEMMA ChangeDir ==
  ASSUME Types, NEW r \in Requests, ChangeStep(r)
  PROVE  DirStep(r)
<1> USE DEF HasDir, NoDir, Building, Same, SameStore, SameHost, Goes, Ends
<1>1. CASE PowerVM(r) \/ UpdateVM(r) \/ DeleteVM(r)
  BY <1>1, PowerVMDoes, UpdateVMDoes, DeleteVMDoes DEF DirStep
<1>2. CASE PowerDomain(r) \/ UpdateStop(r) \/ GrowDisk(r) \/ UpdateBoot(r)
  BY <1>2, PowerDomainDoes, UpdateStopDoes, GrowDiskDoes, UpdateBootDoes DEF DirStep
<1>3. CASE RedefineDomain(r) \/ DropOldAddress(r) \/ AddNewAddress(r) \/ RegenerateISO(r)
  BY <1>3, RedefineDoes, DropOldDoes, AddNewDoes, RegenerateDoes DEF DirStep
<1>4. CASE PowerPut(r) \/ UpdatePut(r)
  BY <1>4, PowerPutDoes, UpdatePutDoes DEF DirStep, Written
<1>5. CASE DeleteDomain(r) \/ DeleteHost(r) \/ DeleteDir(r)
  BY <1>5, DeleteDomainDoes, DeleteHostDoes, DeleteDirDoes DEF DirStep
<1>6. CASE DeleteRecord(r)
  BY <1>6, DeleteRecordDoes DEF DirStep, Removes, Deleted
<1>7. QED
  BY <1>1, <1>2, <1>3, <1>4, <1>5, <1>6 DEF ChangeStep

LEMMA MonitorDir ==
  ASSUME Types, NEW i \in Monitors, MonitorStep(i)
  PROVE  DirStep(i)
<1> USE DEF HasDir, NoDir, Building, Same, SameStore, SameHost, Goes, Ends
<1>1. CASE MonitorSeesIP(i) \/ MonitorTimesOut(i) \/ MonitorReserves(i)
  BY <1>1, SeesIPDoes, TimesOutDoes, ReservesDoes DEF DirStep
<1>2. CASE MonitorBounces(i) \/ MonitorPings(i) \/ MonitorPuts(i)
  BY <1>2, BouncesDoes, PingsDoes, PutsDoes DEF DirStep, Written
<1>3. QED
  BY <1>1, <1>2 DEF MonitorStep

\* What the other goroutines see of it: nothing, except that the monitor of a
\* VM that is stored starts.
LEMMA Bystanders ==
  ASSUME Types, Tracked, NEW x \in Actors, ActorStep(x), NEW y \in Actors \ {x}
  PROVE  \/ pc'[y] = pc[y] /\ loc'[y] = loc[y]
         \/ /\ Stores(x) /\ y = loc[x].id /\ pc[y] = "idle" /\ loc[y] = NoWork
            /\ \/ pc'[y] = "idle" /\ loc'[y] = NoWork
               \/ /\ pc'[y] = "wait" /\ loc[x].vm.ip = NoIP
                  /\ loc'[y] = [NoWork EXCEPT !.op = "monitor", !.id = y, !.vm = loc[x].vm]
<1>1. ASSUME Stores(x), y = loc[x].id PROVE pc[y] = "idle" /\ loc[y] = NoWork
  <2>1. Building(x) /\ y \in Monitors
    BY <1>1, HasID DEF Stores, Building
  <2>2. pc[y] = "idle"
    BY <1>1, <2>1, MonitorHas DEF Tracked, Exclusive
  <2>3. QED
    BY <2>2, OpAt DEF Shaped, Fits
<1>2. QED
  BY <1>1 DEF ActorStep, Continues, Stops, Writes, Asks, Copies, Registers, Stores, Removes, Others

LEMMA ActorDirs ==
  ASSUME Types, Tracked, Dirs, causes \subseteq causes', NEW x \in Actors, ActorStep(x), DirStep(x)
  PROVE  Dirs'
<1> DEFINE i == loc[x].id
<1>1. \A y \in Actors \ {x} :
        /\ (HasDir(y)' => HasDir(y) /\ loc'[y].id = loc[y].id) /\ (NoDir(y)' => NoDir(y) /\ loc'[y].id = loc[y].id)
        /\ (pc'[y] = "deleteRecord" => pc[y] = "deleteRecord" /\ loc'[y].id = loc[y].id)
  BY Bystanders DEF HasDir, NoDir
<1>2. Building(x) => \A y \in Actors \ {x} : loc[y].id # i
  BY DEF Tracked, Exclusive
<1>3. \A y \in Actors \ {x} : Building(y) => loc[y].id # i /\ Building(y)' /\ loc'[y].id = loc[y].id
  <2>1. \A y \in Actors \ {x} : Building(y) => loc[y].id # i
    BY DEF Tracked, Exclusive
  <2>2. QED
    BY <2>1, Bystanders DEF Building
<1>4. \A y \in Actors \ {x} : pc[y] = "deleteRecord" => pc'[y] = "deleteRecord" /\ loc'[y].id = loc[y].id
  BY Bystanders
<1>5. dir' \subseteq dir \cup {i} /\ (dir' \subseteq dir \/ Building(x)) /\ dir \ {i} \subseteq dir' /\ dir \subseteq used
  BY DEF DirStep, Types, Values
<1>6. \A y \in Actors : (HasDir(y)' => loc'[y].id \in dir')
  <2>1. ASSUME NEW y \in Actors \ {x}, HasDir(y)' PROVE loc'[y].id \in dir'
    <3>1. Building(y) /\ HasDir(y) /\ loc'[y].id = loc[y].id
      BY <1>1, <2>1 DEF HasDir, Building
    <3>2. QED
      BY <1>3, <1>5, <3>1 DEF Dirs
  <2>2. HasDir(x)' => loc'[x].id \in dir'
    BY DEF DirStep, Dirs
  <2>3. QED
    BY <2>1, <2>2
<1>7. \A y \in Actors : (NoDir(y)' \/ pc'[y] = "deleteRecord" => loc'[y].id \notin dir')
  <2>1. ASSUME NEW y \in Actors \ {x}, NoDir(y)' \/ pc'[y] = "deleteRecord" PROVE loc'[y].id \notin dir'
    BY <1>1, <1>2, <1>5, <2>1 DEF Dirs
  <2>2. NoDir(x)' \/ pc'[x] = "deleteRecord" => loc'[x].id \notin dir'
    BY <1>5 DEF DirStep, Dirs
  <2>3. QED
    BY <2>1, <2>2
<1>8. ASSUME NEW j \in stored'
      PROVE  \/ j \in dir' \/ HasCause(j, {"crash", "stale", "halfDeleted"})'
             \/ \E y \in Actors : pc'[y] = "deleteRecord" /\ loc'[y].id = j
  <2>1. CASE j \in stored
    <3>1. CASE j \in dir /\ j \notin dir'
      <4>1. j = i /\ (pc[x] = "undoHost" \/ pc'[x] = "deleteRecord")
        BY <3>1 DEF DirStep
      <4>2. pc[x] # "undoHost"
        BY <2>1, <4>1 DEF Tracked, Exclusive, Building
      <4>3. QED
        BY <4>1, <4>2 DEF DirStep
    <3>2. CASE HasCause(j, {"crash", "stale", "halfDeleted"})
      BY <3>2 DEF HasCause
    <3>3. ASSUME NEW y \in Actors, pc[y] = "deleteRecord", loc[y].id = j
          PROVE  HasCause(j, {"halfDeleted"})' \/ \E z \in Actors : pc'[z] = "deleteRecord" /\ loc'[z].id = j
      <4>1. CASE y = x
        BY <3>3, <4>1 DEF DirStep, Removes, Deleted, HasCause
      <4>2. CASE y # x
        BY <1>4, <3>3, <4>2
      <4>3. QED
        BY <4>1, <4>2
    <3>4. QED
      BY <2>1, <3>1, <3>2, <3>3 DEF Dirs, HasCause
  <2>2. CASE j \notin stored
    <3>1. CASE Writes(x)
      BY <2>2, <3>1 DEF Writes, Written, Overwrites, HasCause
    <3>2. CASE Stores(x)
      BY <2>2, <3>2 DEF Stores, Written, Dirs, HasDir, DirStep, NoDir, Building
    <3>3. QED
      BY <2>2, <3>1, <3>2 DEF ActorStep, Continues, Stops, Asks, Copies, Registers, Removes, Deleted, Kept, SameStore
  <2>3. QED
    BY <2>1, <2>2
<1>9. ASSUME NEW j \in dir'
      PROVE  \/ j \in stored' \/ HasCause(j, {"crash"})'
             \/ \E y \in Actors : Building(y)' /\ loc'[y].id = j
  <2>1. CASE j \notin dir
    BY <2>1 DEF DirStep
  <2>2. CASE j \in stored /\ j \in dir
    BY <2>2 DEF DirStep, Dirs
  <2>3. CASE HasCause(j, {"crash"})
    BY <2>3 DEF HasCause
  <2>4. ASSUME j \in dir, NEW y \in Actors, Building(y), loc[y].id = j
        PROVE  j \in stored' \/ \E z \in Actors : Building(z)' /\ loc'[z].id = j
    <3>1. CASE y # x
      BY <1>3, <2>4, <3>1
    <3>2. CASE y = x /\ Building(x)'
      BY <2>4, <3>2 DEF DirStep
    <3>3. CASE y = x /\ ~Building(x)'
      BY <2>4, <3>3 DEF DirStep, Dirs
    <3>4. QED
      BY <3>1, <3>2, <3>3
  <2>5. QED
    BY <2>1, <2>2, <2>3, <2>4 DEF Dirs
<1>10. QED
  BY <1>6, <1>7, <1>8, <1>9 DEF Dirs

LEMMA NextDirs ==
  ASSUME Types, Tracked, Dirs, Next
  PROVE  Dirs'
<1>1. ASSUME NEW r \in Requests, CreateStep(r) \/ ChangeStep(r) PROVE Dirs'
  BY <1>1, CreateKind, ChangeKind, CreateDir, ChangeDir, ActorDirs
<1>2. ASSUME NEW i \in Monitors, MonitorStep(i) PROVE Dirs'
  BY <1>2, MonitorKind, MonitorDir, ActorDirs
<1>3. ASSUME NEW n \in Names, GuestShutsDown(n) PROVE Dirs'
  BY <1>3, GuestDoes DEF Dirs, HasDir, NoDir, Building, HasCause, SameStore
<1>4. CASE Crash
  <2>1. /\ stored' = stored /\ rec' = rec /\ dir' = dir /\ causes \subseteq causes'
        /\ \A x \in Actors : pc'[x] = "idle"
        /\ \A x \in Actors : loc[x].id # NoID => <<"crash", loc[x].id>> \in causes'
    BY <1>4, CrashDoes DEF Same, SameStore, SameHost, Recalls
  <2>2. \A x \in Actors : Building(x) \/ pc[x] = "deleteRecord" => loc[x].id # NoID
    BY HasID DEF Asking
  <2>3. QED
    BY <2>1, <2>2 DEF Dirs, HasDir, NoDir, Building, HasCause
<1>5. QED
  BY <1>1, <1>2, <1>3, <1>4 DEF Next

LEMMA InitDirs == Init => Dirs
BY DEF Init, Dirs, HasDir, NoDir

-----------------------------------------------------------------------------
(* The domains. *)

\* A VM keeps its name: called[i] is the name of i, in every record, copy,
\* definition and domain of it.
Named(called) ==
  /\ \A i \in stored : rec[i].name = called[i]
  /\ \A x \in Actors : loc[x].id # NoID => Name(x) = called[loc[x].id]
  /\ \A x \in Actors : loc[x].dom # NoID /\ ~Asking(x) /\ pc[x] # "source" => Name(x) = called[loc[x].dom]
  /\ \A n \in Names : dom[n].id # NoID => n = called[dom[n].id]
Naming ==
  /\ \E called \in [IDs -> Names \cup {NoName}] : Named(called)
  /\ \A x \in Actors : Asking(x) /\ loc[x].op = "create" => loc[x].dom = NoID

LeftDom == {"crash", "cleanup", "redefined"}
\* i has no domain, other than one left behind.
NoDom(i) == \A n \in Names : dom[n].id = i => HasCause(i, LeftDom)
Deleting(x) == pc[x] \in {"deleteHost", "deleteDir", "deleteRecord"}

\* A domain is defined just before the record is stored, and undefined first
\* when the VM is deleted.
DomBuilt ==
  \A x \in Actors : Building(x) /\ pc[x] # "source" =>
    /\ loc[x].dom \in {NoID, loc[x].id}
    /\ loc[x].dom = NoID => NoDom(loc[x].id)
    /\ loc[x].dom # NoID => pc[x] \in {"boot", "put", "undoDom", "undoHost"}
    /\ pc[x] \in {"boot", "put"} => dom[Name(x)].id = loc[x].id \/ HasCause(loc[x].id, Spoiled)
DomGone == \A x \in Actors : pc[x] \in {"source", "undoHost"} \/ Deleting(x) => NoDom(loc[x].id)
DomBacked ==
  \A i \in stored : \/ dom[rec[i].name].id = i \/ HasCause(i, Spoiled)
                   \/ \E x \in Actors : Deleting(x) /\ loc[x].id = i
DomOwned ==
  \A n \in Names : LET i == dom[n].id IN
    \/ i = NoID \/ i \in stored \/ HasCause(i, LeftDom)
    \/ \E x \in Actors : loc[x].id = i /\ pc[x] \in {"boot", "put", "undoDom"}
Doms == DomBuilt /\ DomGone /\ DomBacked /\ DomOwned

\* The step leaves i with one of these causes.
Marked(i, why) == \E w \in why : <<w, i>> \in causes'

\* What a step of x does to the domains.
DomStep(x) ==
  LET i == loc[x].id
      n == Name(x)
      owner == dom[n].id IN
  /\ \A m \in Names : dom'[m].id # dom[m].id =>
       /\ m = n
       /\ \/ dom'[n].id = NoID /\ Marked(owner, {"byname", "reaped"})
          \/ dom'[n].id = NoID /\ owner = i /\ pc[x] = "deleteDomain"
          \/ dom'[n].id = NoID /\ Handle(x) /\ pc[x] = "undoDom"
          \/ owner = NoID /\ dom'[n].id = i /\ pc[x] = "define" /\ pc'[x] \in {"boot", "put"}
          \/ owner = NoID /\ dom'[n].id = loc[x].dom /\ pc[x] = "redefine" /\ Marked(loc[x].dom, {"redefined"})
  /\ Building(x) /\ Building(x)' =>
       /\ loc'[x].id = i /\ loc'[x].vm.name = n /\ pc'[x] # "source" /\ pc[x] # "undoHost"
       /\ loc'[x].dom = IF pc[x] = "source" THEN NoID
                        ELSE IF pc[x] = "define" /\ pc'[x] # "undoDom" THEN i ELSE loc[x].dom
       /\ pc[x] = "define" /\ pc'[x] # "undoDom" => pc'[x] \in {"boot", "put"} /\ dom'[n].id = i
       /\ pc'[x] \in {"boot", "put"} => pc[x] \in {"define", "boot"}
       /\ pc[x] \in {"boot", "put", "undoDom"} => pc'[x] \in {"put", "undoDom", "undoHost"}
       /\ (pc'[x] = "undoHost" <=> pc[x] = "undoDom")
  /\ pc[x] = "undoDom" => pc'[x] = "undoHost" /\ (~Handle(x) \/ dom'[n].id = NoID \/ Marked(i, {"cleanup"}))
  /\ Deleting(x)' =>
       /\ loc'[x].id = i
       /\ \/ Deleting(x)
          \/ pc[x] = "deleteDomain" /\ n \in Names /\ (dom'[n].id = NoID \/ Marked(owner, {"cleanup"}))
  /\ Deleting(x) /\ ~Deleting(x)' => pc[x] = "deleteRecord"
  /\ pc[x] = "deleteDomain" => Deleting(x)'
  /\ pc[x] \in {"boot", "put", "undoDom"} => Building(x)' \/ (pc[x] = "put" /\ i \in stored')
  /\ ~Building(x) /\ Building(x)' =>
       /\ pc[x] = "quota" /\ loc'[x].id \notin used /\ pc'[x] \in {"source", "find", "mkdir"}
       /\ pc'[x] # "source" => loc[x].op = "create" /\ loc'[x].dom = loc[x].dom

LEMMA CreateDom ==
  ASSUME Types, NEW r \in Requests, CreateStep(r)
  PROVE  DomStep(r)
<1> USE DEF Building, Deleting, Same, SameStore, SameHost, SameOwners, Marked, Name
<1>1. CASE CreateVM(r)
  BY <1>1, CreateVMDoes, Constants DEF DomStep, Goes
<1>2. CASE AcquireCreateSlot(r)
  BY <1>2, AcquireDoes, Constants DEF DomStep, Goes, Ends
<1>3. CASE CloneVM(r)
  BY <1>3, CloneVMDoes, Constants DEF DomStep, Goes
<1>4. CASE CheckQuota(r)
  <2>1. CASE Ends(r)
    BY <1>4, <2>1, CheckQuotaDoes, Constants DEF DomStep, Goes, Ends
  <2>2. CASE ~Ends(r)
    <3>1. PICK i \in IDs \ used, q \in {"find", "mkdir", "source"} :
            Goes(r, q, [loc[r] EXCEPT !.id = i]) /\ (loc[r].op = "clone" => q = "source")
      BY <1>4, <2>2, CheckQuotaDoes
    <3>2. pc'[r] = q /\ loc'[r].id = i /\ loc'[r].dom = loc[r].dom /\ (q # "source" => loc[r].op = "create")
      BY <1>4, <3>1, CheckQuotaDoes, Fields, OpAt DEF Goes
    <3>3. QED
      BY <1>4, <3>2, CheckQuotaDoes DEF DomStep
  <2>3. QED
    BY <2>1, <2>2
<1>5. CASE ReadSource(r)
  <2>1. CASE Ends(r)
    BY <1>5, <2>1, ReadSourceDoes, Constants DEF DomStep, Goes, Ends
  <2>2. CASE ~Ends(r)
    <3>1. PICK l \in BOOLEAN : Goes(r, "mkdir", [loc[r] EXCEPT !.dom = NoID, !.vm.locked = l])
      BY <1>5, <2>2, ReadSourceDoes
    <3>2. /\ pc'[r] = "mkdir" /\ loc'[r].id = loc[r].id /\ loc'[r].op = loc[r].op /\ loc'[r].dom = NoID
          /\ loc'[r].vm.name = loc[r].vm.name
      BY <3>1, Fields DEF Goes
    <3>3. QED
      BY <1>5, <3>2, ReadSourceDoes DEF DomStep
  <2>3. QED
    BY <2>1, <2>2
<1>6. CASE FindAvailableIP(r)
  <2>1. pc'[r] \in {"byname", IF loc[r].op = "create" THEN "mkdir" ELSE "define"}
    BY <1>6, FindDoes DEF Goes
  <2>2. loc'[r].id = loc[r].id /\ loc'[r].dom = loc[r].dom /\ loc'[r].vm = loc[r].vm
    <3>1. CASE loc'[r] = loc[r]
      BY <3>1
    <3>2. CASE loc'[r] # loc[r]
      <4>1. PICK a \in Addrs : loc'[r] = [loc[r] EXCEPT !.ip = a]
        BY <1>6, <3>2, FindDoes DEF Goes
      <4>2. QED
        BY <4>1, Fields
    <3>3. QED
      BY <3>1, <3>2
  <2>3. QED
    BY <1>6, <2>1, <2>2, FindDoes, OpAt DEF DomStep
<1>7. CASE RemoveDHCPHostByName(r)
  BY <1>7, ByNameDoes, OpAt DEF DomStep, Goes
<1>8. CASE AddDHCPHost(r)
  <2>1. pc'[r] = IF loc[r].op = "create" THEN "mkdir" ELSE "define"
    BY <1>8, AddDoes DEF Goes
  <2>2. loc'[r] = [loc[r] EXCEPT !.vm.ip = loc[r].ip, !.ip = NoIP] \/ loc'[r] = [loc[r] EXCEPT !.ip = NoIP]
    BY <1>8, AddDoes DEF Goes
  <2>3. loc'[r].id = loc[r].id /\ loc'[r].dom = loc[r].dom /\ loc'[r].vm.name = loc[r].vm.name
    <3>1. CASE loc'[r] = [loc[r] EXCEPT !.vm.ip = loc[r].ip, !.ip = NoIP]
      BY <3>1, Fields
    <3>2. CASE loc'[r] = [loc[r] EXCEPT !.ip = NoIP]
      BY <3>2, Fields
    <3>3. QED
      BY <2>2, <3>1, <3>2
  <2>4. QED
    BY <1>8, <2>1, <2>3, AddDoes, OpAt DEF DomStep
<1>9. CASE MkdirAll(r)
  BY <1>9, MkdirDoes, OpAt DEF DomStep, Goes, Ends
<1>10. CASE ReapOrphan(r)
  <2>1. \A m \in Names : dom'[m].id # dom[m].id =>
          m = Name(r) /\ dom'[m].id = NoID /\ Marked(dom[m].id, {"byname", "reaped"})
    <3>1. Name(r) \in Names /\ (dom' = dom \/ dom' = Undefined(Name(r)))
          /\ (dom' # dom /\ dom[Name(r)].id # NoID => <<"reaped", dom[Name(r)].id>> \in causes')
      BY <1>10, ReapDoes
    <3>2. dom' # dom => dom'[Name(r)] = NoDomain /\ \A m \in Names : m # Name(r) => dom'[m] = dom[m]
      BY <3>1, Typed DEF Undefined
    <3>3. QED
      BY <3>1, <3>2, Constants
  <2>2. QED
    BY <1>10, <2>1, ReapDoes DEF DomStep, Goes
<1>11. CASE DomainDefineXML(r)
  <2>1. pc'[r] \in {"undoDom", IF loc[r].op = "create" THEN "boot" ELSE "put"}
    BY <1>11, DefineDoes DEF Goes
  <2>2. CASE dom' = dom /\ Goes(r, "undoDom", loc[r])
    BY <1>11, <2>2, DefineDoes DEF DomStep, Goes
  <2>3. CASE ~(dom' = dom /\ Goes(r, "undoDom", loc[r]))
    <3>1. loc'[r] = [loc[r] EXCEPT !.dom = loc[r].id] /\ pc'[r] \in {"boot", "put"}
      BY <1>11, <2>3, DefineDoes DEF Goes
    <3>2. loc'[r].id = loc[r].id /\ loc'[r].dom = loc[r].id /\ loc'[r].vm = loc[r].vm
      BY <3>1, OpAt DEF Task
    <3>3. dom[Name(r)].id = NoID /\ dom'[Name(r)].id = loc[r].id /\ \A m \in Names : m # Name(r) => dom'[m] = dom[m]
      <4>1. /\ dom[Name(r)] = NoDomain /\ Name(r) \in Names
            /\ dom' = [dom EXCEPT ![Name(r)] = [id |-> loc[r].id, st |-> "off"]]
        BY <1>11, <2>3, DefineDoes
      <4>2. QED
        BY <4>1, Typed, Constants
    <3>4. QED
      BY <1>11, <3>1, <3>2, <3>3, DefineDoes DEF DomStep
  <2>4. QED
    BY <2>2, <2>3
<1>12. CASE BootDomain(r)
  BY <1>12, BootDoes DEF DomStep, Goes
<1>13. CASE StoreNewVM(r)
  BY <1>13, StoreDoes DEF DomStep, Goes, Written
<1>14. CASE UndoDomain(r)
  <2>1. pc[r] = "undoDom" /\ pc'[r] = "undoHost" /\ loc'[r] = loc[r] /\ Name(r) \in Names
    BY <1>14, UndoDomainDoes DEF Goes
  <2>2. CASE Handle(r) /\ dom' = Undefined(Name(r))
    <3>1. dom'[Name(r)].id = NoID /\ \A m \in Names : m # Name(r) => dom'[m] = dom[m]
      BY <2>1, <2>2, Typed, Constants DEF Undefined
    <3>2. QED
      BY <2>1, <2>2, <3>1 DEF DomStep
  <2>3. CASE dom' = dom
    <3>1. ~Handle(r) \/ dom'[Name(r)].id = NoID \/ Marked(loc[r].id, {"cleanup"})
      BY <1>14, <2>1, <2>3, UndoDomainDoes, Typed, Constants DEF Undefined
    <3>2. QED
      BY <2>1, <2>3, <3>1 DEF DomStep
  <2>4. QED
    BY <1>14, <2>2, <2>3, UndoDomainDoes
<1>15. CASE UndoHost(r)
  BY <1>15, UndoHostDoes DEF DomStep, Goes, Ends
<1>16. QED
  BY <1>1, <1>2, <1>3, <1>4, <1>5, <1>6, <1>7, <1>8, <1>9, <1>10, <1>11, <1>12, <1>13, <1>14, <1>15 DEF CreateStep

LEMMA ChangeDom ==
  ASSUME Types, NEW r \in Requests, ChangeStep(r)
  PROVE  DomStep(r)
<1> USE DEF Building, Deleting, Same, SameStore, SameHost, SameOwners, Goes, Ends, Marked, Name
<1>1. CASE PowerVM(r) \/ UpdateVM(r) \/ DeleteVM(r)
  BY <1>1, PowerVMDoes, UpdateVMDoes, DeleteVMDoes DEF DomStep
<1>2. CASE PowerDomain(r) \/ UpdateStop(r) \/ GrowDisk(r) \/ UpdateBoot(r)
  BY <1>2, PowerDomainDoes, UpdateStopDoes, GrowDiskDoes, UpdateBootDoes DEF DomStep
<1>3. CASE RedefineDomain(r)
  <2>1. pc[r] = "redefine" /\ pc'[r] \in {"updatePut", "idle"} /\ Name(r) \in Names
    BY <1>3, RedefineDoes
  <2>2. CASE dom' = dom
    BY <2>1, <2>2 DEF DomStep
  <2>3. CASE dom' # dom
    <3>1. /\ dom'[Name(r)].id = loc[r].dom /\ Marked(loc[r].dom, {"redefined"}) /\ dom[Name(r)].id = NoID
          /\ \A m \in Names : m # Name(r) => dom'[m] = dom[m]
      <4>1. /\ Name(r) \in Names /\ <<"redefined", loc[r].dom>> \in causes'
            /\ dom' = [dom EXCEPT ![Name(r)] = [id |-> loc[r].dom, st |-> "off"]] /\ dom[Name(r)] = NoDomain
        BY <1>3, <2>3, RedefineDoes
      <4>2. QED
        BY <4>1, Typed, Constants DEF Marked
    <3>2. QED
      BY <2>1, <3>1 DEF DomStep
  <2>4. QED
    BY <2>2, <2>3
<1>4. CASE DropOldAddress(r) \/ AddNewAddress(r) \/ RegenerateISO(r)
  BY <1>4, DropOldDoes, AddNewDoes, RegenerateDoes DEF DomStep
<1>5. CASE PowerPut(r) \/ UpdatePut(r)
  BY <1>5, PowerPutDoes, UpdatePutDoes DEF DomStep
<1>6. CASE DeleteDomain(r)
  <2>1. pc[r] = "deleteDomain" /\ pc'[r] = "deleteHost" /\ loc'[r] = loc[r] /\ Name(r) \in Names
    BY <1>6, DeleteDomainDoes
  <2>2. CASE dom' = Undefined(Name(r)) /\ (dom[Name(r)].id \in {NoID, loc[r].id} \/ <<"byname", dom[Name(r)].id>> \in causes')
    <3>1. dom'[Name(r)].id = NoID /\ \A m \in Names : m # Name(r) => dom'[m] = dom[m]
      BY <2>1, <2>2, Typed, Constants DEF Undefined
    <3>2. \A m \in Names : dom'[m].id # dom[m].id =>
            /\ m = Name(r) /\ dom'[m].id = NoID
            /\ dom[m].id = loc[r].id \/ Marked(dom[m].id, {"byname", "reaped"})
      BY <2>1, <2>2, <3>1
    <3>3. QED
      BY <2>1, <3>1, <3>2 DEF DomStep
  <2>3. CASE dom' = dom /\ <<"cleanup", dom[Name(r)].id>> \in causes'
    BY <2>1, <2>3 DEF DomStep
  <2>4. QED
    BY <1>6, <2>2, <2>3, DeleteDomainDoes
<1>7. CASE DeleteHost(r) \/ DeleteDir(r) \/ DeleteRecord(r)
  BY <1>7, DeleteHostDoes, DeleteDirDoes, DeleteRecordDoes DEF DomStep
<1>8. QED
  BY <1>1, <1>2, <1>3, <1>4, <1>5, <1>6, <1>7 DEF ChangeStep

LEMMA MonitorDom ==
  ASSUME Types, NEW i \in Monitors, MonitorStep(i)
  PROVE  DomStep(i)
<1> USE DEF Building, Deleting, Same, SameStore, SameHost, SameOwners, Goes, Ends
<1>1. CASE MonitorSeesIP(i) \/ MonitorTimesOut(i) \/ MonitorReserves(i)
  BY <1>1, SeesIPDoes, TimesOutDoes, ReservesDoes DEF DomStep
<1>2. CASE MonitorBounces(i) \/ MonitorPings(i) \/ MonitorPuts(i)
  BY <1>2, BouncesDoes, PingsDoes, PutsDoes DEF DomStep
<1>3. QED
  BY <1>1, <1>2 DEF MonitorStep

LEMMA ActorNaming ==
  ASSUME Types, Types', Tracked, Naming, NEW x \in Actors, ActorStep(x), DomStep(x)
  PROVE  Naming'
<1> DEFINE i == loc[x].id
<1>1. PICK called \in [IDs -> Names \cup {NoName}] : Named(called)
  BY DEF Naming
<1>2. \A y \in Actors : Asking(y)' /\ loc'[y].op = "create" => loc'[y].dom = NoID
  <2>1. ASSUME NEW y \in Actors \ {x}, Asking(y)', loc'[y].op = "create" PROVE loc'[y].dom = NoID
    <3>1. pc'[y] = pc[y] /\ loc'[y] = loc[y]
      BY <2>1, Bystanders DEF Asking
    <3>2. QED
      BY <2>1, <3>1 DEF Naming, Asking
  <2>2. ASSUME Asking(x)', loc'[x].op = "create" PROVE loc'[x].dom = NoID
    <3>1. CASE Continues(x)
      <4>1. loc[x].op = "create" /\ Asking(x) /\ loc[x].id = NoID
        BY <2>2, <3>1, HasID DEF Continues
      <4>2. QED
        BY <3>1, <4>1 DEF Continues, Naming
    <3>2. QED
      BY <2>2, <3>1 DEF ActorStep, Stops, Writes, Asks, Copies, Registers, Stores, Removes, Asking, Building
  <2>3. QED
    BY <2>1, <2>2
<1>3. \A m \in Names : dom'[m].id # NoID => m = called[dom'[m].id]
  <2>1. ASSUME NEW m \in Names, dom'[m].id # NoID, dom'[m].id # dom[m].id PROVE m = called[dom'[m].id]
    <3>1. m = Name(x)
      BY <2>1 DEF DomStep
    <3>2. CASE pc[x] = "define" /\ dom'[m].id = i
      BY <1>1, <3>1, <3>2, HasID DEF Named, Asking
    <3>3. CASE pc[x] = "redefine" /\ dom'[m].id = loc[x].dom
      BY <1>1, <2>1, <3>1, <3>3 DEF Named, Asking
    <3>4. QED
      BY <2>1, <3>2, <3>3 DEF DomStep
  <2>2. QED
    BY <1>1, <2>1 DEF Named
<1>4. CASE ~Registers(x)
  <2>1. i # NoID => Name(x) = called[i] /\ (i \in stored => rec[i].name = called[i])
    BY <1>1 DEF Named
  <2>2. ASSUME NEW j \in stored' PROVE rec'[j].name = called[j]
    <3>1. CASE j \in stored /\ rec'[j] = rec[j]
      BY <1>1, <3>1 DEF Named
    <3>2. CASE Writes(x)
      <4>1. PICK vm \in Record : vm.name = Name(x) /\ Written(i, vm)
        BY <3>2 DEF Writes
      <4>2. i \in used /\ i # NoID
        BY <3>2, HasID DEF Writes
      <4>3. rec'[i].name = Name(x) /\ stored' = stored \cup {i} /\ \A l \in IDs \ {i} : rec'[l] = rec[l]
        BY <4>1, <4>2, WriteEffect
      <4>4. stored \subseteq IDs
        BY HasID
      <4>5. QED
        BY <2>1, <3>1, <4>2, <4>3, <4>4
    <3>3. CASE Stores(x)
      <4>1. i \in used /\ i # NoID /\ loc[x].vm \in Record /\ Written(i, loc[x].vm)
        BY <3>3, HasID DEF Stores, Asking
      <4>2. rec'[i].name = Name(x) /\ stored' = stored \cup {i} /\ \A l \in IDs \ {i} : rec'[l] = rec[l]
        BY <4>1, WriteEffect DEF Name
      <4>3. stored \subseteq IDs
        BY HasID
      <4>4. QED
        BY <2>1, <3>1, <4>1, <4>2, <4>3
    <3>4. CASE Removes(x)
      <4>1. i \in used
        BY <3>4, HasID DEF Removes, Asking
      <4>2. stored' = stored \ {i} /\ \A l \in IDs \ {i} : rec'[l] = rec[l]
        BY <3>4, <4>1, DeleteEffect DEF Removes
      <4>3. QED
        BY <3>1, <4>2, HasID
    <3>5. QED
      BY <1>4, <3>1, <3>2, <3>3, <3>4 DEF ActorStep, Continues, Stops, Asks, Copies, Kept, SameStore
  <2>3. loc'[x].id # NoID => loc'[x].vm.name = called[loc'[x].id]
    <3>1. CASE Continues(x)
      BY <2>1, <3>1 DEF Continues
    <3>2. CASE Copies(x)
      <4>1. PICK j \in stored : loc'[x].id = j /\ loc'[x].vm = rec[j]
        BY <3>2 DEF Copies
      <4>2. QED
        BY <1>1, <4>1 DEF Named
    <3>3. CASE Writes(x)
      BY <2>1, <3>3, Constants DEF Writes, Name
    <3>4. QED
      BY <1>4, <3>1, <3>2, <3>3, Constants DEF ActorStep, Stops, Asks, Stores, Removes
  <2>4. loc'[x].dom # NoID /\ ~Asking(x)' /\ pc'[x] # "source" => loc'[x].vm.name = called[loc'[x].dom]
    <3>1. CASE Continues(x)
      <4>1. CASE loc'[x].dom = i
        BY <2>3, <3>1, <4>1 DEF Continues
      <4>2. CASE loc'[x].dom = loc[x].dom /\ pc[x] # "source" /\ ~Asking(x)
        <5>1. loc[x].dom # NoID => Name(x) = called[loc[x].dom]
          BY <1>1, <4>2 DEF Named
        <5>2. i # NoID
          BY <3>1, <4>2, HasID DEF Continues
        <5>3. loc'[x].vm.name = Name(x)
          BY <2>1, <3>1, <5>2 DEF Continues
        <5>4. QED
          BY <4>2, <5>1, <5>3
      <4>3. QED
        BY <3>1, <4>1, <4>2 DEF Continues
    <3>2. CASE Copies(x)
      <4>1. PICK j \in stored : loc'[x].vm = rec[j] /\ loc'[x].dom \in {NoID, dom[rec[j].name].id}
        BY <3>2 DEF Copies
      <4>2. rec[j].name \in Names
        BY DEF Types
      <4>3. QED
        BY <1>1, <4>1, <4>2 DEF Named
    <3>3. CASE Writes(x)
      BY <1>1, <3>3, Constants DEF Writes, Named, Name, Building
    <3>4. QED
      BY <1>4, <3>1, <3>2, <3>3, Constants DEF ActorStep, Stops, Asks, Stores, Removes
  <2>5. ASSUME NEW y \in Actors \ {x}
        PROVE  /\ loc'[y].id # NoID => loc'[y].vm.name = called[loc'[y].id]
               /\ loc'[y].dom # NoID /\ ~Asking(y)' /\ pc'[y] # "source" => loc'[y].vm.name = called[loc'[y].dom]
    <3>1. CASE pc'[y] = pc[y] /\ loc'[y] = loc[y]
      BY <1>1, <3>1 DEF Named, Asking, Name
    <3>2. CASE loc'[y] = NoWork
      BY <3>2, Constants
    <3>3. CASE y = i /\ Stores(x) /\ loc'[y] = [NoWork EXCEPT !.op = "monitor", !.id = y, !.vm = loc[x].vm]
      <4>1. loc'[y].id = i /\ loc'[y].vm = loc[x].vm /\ loc'[y].dom = NoID
        BY <3>3 DEF NoWork
      <4>2. QED
        BY <2>1, <4>1 DEF Name
    <3>4. QED
      BY <3>1, <3>2, <3>3, Bystanders
  <2>6. Named(called)'
    BY <1>3, <2>2, <2>3, <2>4, <2>5 DEF Named, Name
  <2>7. QED
    BY <1>2, <2>6 DEF Naming
<1>5. CASE Registers(x)
  <2>1. PICK j \in IDs \ used :
          /\ used' = used \cup {j} /\ loc'[x] = [loc[x] EXCEPT !.id = j] /\ Building(x)'
          /\ loc[x].op = "clone" => pc'[x] = "source"
    BY <1>5 DEF Registers
  <2>2. stored' = stored /\ rec' = rec /\ pc[x] = "quota" /\ Others(x)
    BY <1>5 DEF Registers, SameStore
  <2>3. loc'[x].id = j /\ loc'[x].vm = loc[x].vm /\ loc'[x].dom = loc[x].dom
    BY <2>1, Fields
  <2>4. loc'[x].dom # NoID => pc'[x] = "source"
    BY <2>1, <2>2, <2>3, OpAt DEF Naming, Asking
  <2>5. j \notin stored /\ Name(x) \in Names
        /\ \A y \in Actors : loc[y].id # j /\ loc[y].dom # j
    BY <2>2, HasID, IdentityAssumption, InHand DEF Types, Shaped, Fits
  <2>6. \A m \in Names : dom'[m].id # j
    <3>1. \A m \in Names : dom'[m].id = dom[m].id \/ dom'[m].id = NoID
      BY <2>2 DEF DomStep
    <3>2. QED
      BY <2>1, <3>1, Typed, IdentityAssumption
  <2>7. PICK now \in [IDs -> Names \cup {NoName}] : now[j] = Name(x) /\ \A l \in IDs \ {j} : now[l] = called[l]
    <3> DEFINE new == [called EXCEPT ![j] = Name(x)]
    <3>1. new \in [IDs -> Names \cup {NoName}] /\ new[j] = Name(x) /\ \A l \in IDs \ {j} : new[l] = called[l]
      BY <2>5
    <3> HIDE DEF new
    <3>2. QED
      BY <3>1
  <2>8. stored \subseteq IDs /\ \A y \in Actors : loc[y].id \in IDs \cup {NoID} /\ loc[y].dom \in IDs \cup {NoID}
    BY DEF Types, Values, Task
  <2>9. \A m \in Names : dom'[m].id \in IDs \cup {NoID}
    BY Typed, <2>2 DEF DomStep
  <2>10. \A l \in stored' : rec'[l].name = now[l]
    BY <1>1, <2>2, <2>5, <2>7, <2>8 DEF Named
  <2>11. \A y \in Actors : loc'[y].id # NoID => loc'[y].vm.name = now[loc'[y].id]
    BY <1>1, <2>2, <2>3, <2>5, <2>7, <2>8 DEF Named, Others, Name
  <2>12. \A y \in Actors : loc'[y].dom # NoID /\ ~Asking(y)' /\ pc'[y] # "source" => loc'[y].vm.name = now[loc'[y].dom]
    BY <1>1, <2>2, <2>4, <2>5, <2>7, <2>8 DEF Named, Others, Name, Asking
  <2>13. \A m \in Names : dom'[m].id # NoID => m = now[dom'[m].id]
    BY <1>3, <2>6, <2>7, <2>9
  <2>14. Named(now)'
    BY <2>10, <2>11, <2>12, <2>13 DEF Named, Name
  <2>15. QED
    BY <1>2, <2>7, <2>14 DEF Naming
<1>6. QED
  BY <1>4, <1>5

LEMMA OneName ==
  ASSUME Types, Naming
  PROVE  /\ \A y \in Actors, m \in Names : loc[y].id # NoID /\ dom[m].id = loc[y].id => m = Name(y)
         /\ \A j \in stored : rec[j].name \in Names /\ \A m \in Names : dom[m].id = j => m = rec[j].name
         /\ \A j \in stored, y \in Actors : loc[y].id = j => Name(y) = rec[j].name
BY HasID DEF Naming, Named, Types

\* A record that stays keeps its name; a new one is stored or stale.
LEMMA NameKept ==
  ASSUME Types, Naming, NEW x \in Actors, ActorStep(x), NEW j \in stored'
  PROVE  /\ j \in stored => rec'[j].name = rec[j].name
         /\ j \notin stored => j = loc[x].id /\ (<<"stale", j>> \in causes' \/ (Stores(x) /\ rec'[j].name = Name(x)))
<1>1. stored \subseteq IDs
  BY HasID
<1>2. CASE Writes(x)
  <2>1. PICK vm \in Record : vm.name = Name(x) /\ Written(loc[x].id, vm)
    BY <1>2 DEF Writes
  <2>2. PICK i \in used : i = loc[x].id /\ i # NoID
    BY <1>2, HasID DEF Writes
  <2>3. stored' = stored \cup {i} /\ rec'[i].name = Name(x) /\ \A l \in IDs \ {i} : rec'[l] = rec[l]
    BY <2>1, <2>2, WriteEffect
  <2>4. QED
    BY <1>1, <1>2, <2>2, <2>3, OneName DEF Writes, Overwrites
<1>3. CASE Stores(x)
  <2>1. PICK i \in used : i = loc[x].id /\ i # NoID /\ loc[x].vm \in Record
    BY <1>3, HasID DEF Stores, Asking
  <2>2. stored' = stored \cup {i} /\ rec'[i].name = Name(x) /\ \A l \in IDs \ {i} : rec'[l] = rec[l]
    BY <1>3, <2>1, WriteEffect DEF Stores, Name
  <2>3. QED
    BY <1>1, <1>3, <2>1, <2>2, OneName
<1>4. CASE Removes(x)
  <2>1. PICK i \in used : i = loc[x].id
    BY <1>4, HasID DEF Removes, Asking
  <2>2. stored' = stored \ {i} /\ \A l \in IDs \ {i} : rec'[l] = rec[l]
    BY <1>4, <2>1, DeleteEffect DEF Removes
  <2>3. QED
    BY <1>1, <2>2
<1>5. QED
  BY <1>2, <1>3, <1>4 DEF ActorStep, Continues, Stops, Asks, Copies, Registers, Kept, SameStore

\* Only its own builder gives a VM a domain unnoticed.
LEMMA NoDomKept ==
  ASSUME causes \subseteq causes', NEW x \in Actors, DomStep(x), NEW j, j # NoID, NoDom(j),
         j # loc[x].id \/ pc[x] # "define" \/ pc'[x] \notin {"boot", "put"}
  PROVE  NoDom(j)'
BY DEF DomStep, NoDom, HasCause, LeftDom, Marked

LEMMA ActorDoms ==
  ASSUME Types, Types', Tracked, Naming, Doms, causes \subseteq causes', NEW x \in Actors, ActorStep(x),
         DirStep(x), DomStep(x)
  PROVE  Doms'
<1> DEFINE i == loc[x].id
<1>1. \A y \in Actors \ {x} : Building(y) => loc[y].id # i
  BY DEF Tracked, Exclusive
<1>2. Building(x) => i \notin stored /\ \A y \in Actors \ {x} : loc[y].id # i
  BY DEF Tracked, Exclusive
<1>3. \A y \in Actors \ {x} : pc'[y] \notin {"idle", "wait"} => pc'[y] = pc[y] /\ loc'[y] = loc[y]
  BY Bystanders
<1>4. \A y \in Actors : Building(y) \/ Deleting(y) => loc[y].id # NoID
  BY HasID DEF Asking, Deleting
<1>5. pc[x] = "undoDom" => i # NoID /\ loc[x].dom \in {NoID, i}
  BY <1>4 DEF Doms, DomBuilt, Building
<1>6. ASSUME Building(x)', ~Building(x), NEW j, j = loc'[x].id
      PROVE  NoDom(j)' /\ (pc'[x] # "source" => loc'[x].dom = NoID) /\ pc'[x] \notin {"boot", "put", "undoHost"}
  <2>1. loc'[x].id \notin used /\ pc[x] = "quota" /\ pc'[x] \in {"source", "find", "mkdir"}
    BY <1>6 DEF DomStep
  <2>2. pc'[x] # "source" => loc'[x].dom = NoID
    BY <1>6, <2>1 DEF DomStep, Naming, Asking
  <2>3. loc'[x].id # NoID
    <3>1. Building(x)' => loc'[x].id \in used'
      BY DEF Types, Shaped, Fits, Building
    <3>2. NoID \notin used'
      BY IdentityAssumption DEF Types, Values
    <3>3. QED
      BY <1>6, <3>1, <3>2
  <2>4. \A m \in Names : dom'[m].id = dom[m].id \/ dom'[m].id = NoID
    BY <2>1 DEF DomStep
  <2>5. NoDom(j)'
    BY <1>6, <2>1, <2>3, <2>4, Typed DEF NoDom
  <2>6. QED
    BY <2>1, <2>2, <2>5
<1>7. ASSUME Building(x), Building(x)'
      PROVE  /\ loc'[x].id = i /\ loc'[x].vm.name = Name(x) /\ pc'[x] # "source"
             /\ loc'[x].dom \in {NoID, i} /\ (loc'[x].dom = NoID => NoDom(i))
             /\ loc'[x].dom = NoID => pc[x] # "define" \/ pc'[x] \notin {"boot", "put"}
             /\ loc'[x].dom # NoID => pc'[x] \in {"boot", "put", "undoDom", "undoHost"}
  BY <1>4, <1>7 DEF DomStep, Doms, DomBuilt, DomGone
<1>8. \A y \in Actors : Building(y) /\ pc[y] # "source" =>
        /\ loc[y].dom \in {NoID, loc[y].id}
        /\ loc[y].dom = NoID => NoDom(loc[y].id)
        /\ loc[y].dom # NoID => pc[y] \in {"boot", "put", "undoDom", "undoHost"}
        /\ pc[y] \in {"boot", "put"} => dom[Name(y)].id = loc[y].id \/ HasCause(loc[y].id, Spoiled)
  BY DEF Doms, DomBuilt
<1>9. DomBuilt'
  <2>1. ASSUME NEW y \in Actors \ {x}, Building(y)', pc'[y] # "source", NEW j, j = loc[y].id
        PROVE  /\ loc'[y] = loc[y] /\ pc'[y] = pc[y]
               /\ loc[y].dom \in {NoID, j}
               /\ loc[y].dom = NoID => NoDom(j)'
               /\ loc[y].dom # NoID => pc[y] \in {"boot", "put", "undoDom", "undoHost"}
               /\ pc[y] \in {"boot", "put"} => dom'[Name(y)].id = j \/ HasCause(j, Spoiled)'
    <3>1. loc'[y] = loc[y] /\ pc'[y] = pc[y] /\ Building(y)
      BY <1>3, <2>1 DEF Building
    <3>2. j # i /\ j # NoID
      BY <1>1, <1>4, <2>1, <3>1
    <3>3. loc[y].dom = NoID => NoDom(j)'
      BY <1>8, <2>1, <3>1, <3>2, NoDomKept
    <3>4. pc[y] \in {"boot", "put"} => dom'[Name(y)].id = j \/ HasCause(j, Spoiled)'
      <4>1. ASSUME HasCause(j, Spoiled) PROVE HasCause(j, Spoiled)'
        BY <4>1 DEF HasCause
      <4>2. ASSUME dom[Name(y)].id = j, dom'[Name(y)].id # j, pc[y] \in {"boot", "put"} PROVE HasCause(j, Spoiled)'
        <5>1. Name(y) \in Names
          BY <3>1, InHand DEF Building
        <5>2. Name(y) = Name(x) /\ ~(Handle(x) /\ pc[x] = "undoDom")
          BY <1>5, <3>2, <4>2, <5>1 DEF DomStep, Handle
        <5>3. Marked(j, {"byname", "reaped"})
          BY <3>2, <4>2, <5>1, <5>2 DEF DomStep
        <5>4. QED
          BY <5>3 DEF Marked, HasCause, Spoiled
      <4>3. QED
        BY <1>8, <2>1, <3>1, <4>1, <4>2
    <3>5. QED
      BY <1>8, <2>1, <3>1, <3>3, <3>4
  <2>2. ASSUME Building(x)', pc'[x] # "source", NEW j, j = loc'[x].id
        PROVE  /\ loc'[x].dom \in {NoID, j}
               /\ loc'[x].dom = NoID => NoDom(j)'
               /\ loc'[x].dom # NoID => pc'[x] \in {"boot", "put", "undoDom", "undoHost"}
               /\ pc'[x] \in {"boot", "put"} => dom'[loc'[x].vm.name].id = j \/ HasCause(j, Spoiled)'
    <3>1. CASE Building(x)
      <4>1. j = i /\ j # NoID /\ loc'[x].vm.name = Name(x)
        BY <1>4, <1>7, <2>2, <3>1
      <4>2. loc'[x].dom = NoID => NoDom(j)'
        BY <1>7, <2>2, <3>1, <4>1, NoDomKept
      <4>3. ASSUME pc'[x] \in {"boot", "put"}, pc[x] = "boot" PROVE dom'[Name(x)].id = j \/ HasCause(j, Spoiled)'
        <5>1. dom[Name(x)].id = j \/ HasCause(j, Spoiled)
          BY <1>8, <3>1, <4>1, <4>3
        <5>2. ASSUME HasCause(j, Spoiled) PROVE HasCause(j, Spoiled)'
          BY <5>2 DEF HasCause
        <5>3. ASSUME dom[Name(x)].id = j, dom'[Name(x)].id # j PROVE HasCause(j, Spoiled)'
          <6>1. Name(x) \in Names
            BY <3>1, InHand DEF Building
          <6>2. Marked(j, {"byname", "reaped"})
            BY <4>3, <5>3, <6>1 DEF DomStep
          <6>3. QED
            BY <6>2 DEF Marked, HasCause, Spoiled
        <5>4. QED
          BY <5>1, <5>2, <5>3
      <4>4. pc'[x] \in {"boot", "put"} => pc[x] = "boot" \/ dom'[Name(x)].id = j
        BY <2>2, <3>1, <4>1 DEF DomStep
      <4>5. QED
        BY <1>7, <2>2, <3>1, <4>1, <4>2, <4>3, <4>4
    <3>2. CASE ~Building(x)
      BY <1>6, <2>2, <3>2
    <3>3. QED
      BY <3>1, <3>2
  <2>3. QED
    BY <2>1, <2>2 DEF DomBuilt, Name
<1>10. \A y \in Actors : pc[y] \in {"source", "undoHost"} \/ Deleting(y) => NoDom(loc[y].id)
  BY DEF Doms, DomGone
<1>11. DomGone'
  <2>1. ASSUME NEW y \in Actors \ {x}, pc'[y] \in {"source", "undoHost"} \/ Deleting(y)', NEW j, j = loc'[y].id
        PROVE  NoDom(j)'
    <3>1. pc'[y] = pc[y] /\ loc'[y] = loc[y] /\ (pc[y] \in {"source", "undoHost"} \/ Deleting(y))
      BY <1>3, <2>1 DEF Deleting
    <3>2. j # NoID /\ NoDom(j)
      BY <1>4, <1>10, <2>1, <3>1 DEF Building
    <3>3. pc[x] # "define" \/ j # i
      BY <1>2, <2>1, <3>1 DEF Building
    <3>4. QED
      BY <3>2, <3>3, NoDomKept
  <2>2. ASSUME pc'[x] \in {"source", "undoHost"} \/ Deleting(x)', NEW j, j = loc'[x].id PROVE NoDom(j)'
    <3>1. CASE pc'[x] \in {"source", "undoHost"} /\ ~Building(x)
      BY <1>6, <2>2, <3>1 DEF Building
    <3>2. CASE pc'[x] \in {"source", "undoHost"} /\ Building(x)
      <4>1. pc[x] = "undoDom" /\ j = i /\ j # NoID
        BY <1>4, <1>7, <2>2, <3>2 DEF Building, DomStep
      <4>2. ~Handle(x) \/ dom'[Name(x)].id = NoID \/ Marked(i, {"cleanup"})
        BY <4>1 DEF DomStep
      <4>3. CASE Marked(i, {"cleanup"})
        BY <4>1, <4>3 DEF NoDom, HasCause, Marked, LeftDom
      <4>4. CASE loc[x].dom = NoID
        BY <1>8, <4>1, <4>4, NoDomKept DEF Building
      <4>5. CASE loc[x].dom = i /\ (dom[Name(x)].id # i \/ dom'[Name(x)].id = NoID)
        <5>1. ASSUME NEW m \in Names, dom'[m].id = j PROVE FALSE
          <6>1. dom[m].id = j
            BY <4>1, <5>1 DEF DomStep
          <6>2. m = Name(x)
            BY <4>1, <6>1, OneName
          <6>3. QED
            BY <4>1, <4>5, <5>1, <6>1, <6>2
        <5>2. QED
          BY <5>1 DEF NoDom
      <4>6. QED
        BY <1>5, <4>1, <4>2, <4>3, <4>4, <4>5 DEF Handle
    <3>3. CASE Deleting(x)' /\ Deleting(x)
      <4>1. j = i /\ j # NoID /\ NoDom(j) /\ pc[x] # "define"
        BY <1>4, <1>10, <2>2, <3>3 DEF DomStep, Deleting
      <4>2. QED
        BY <4>1, NoDomKept
    <3>4. CASE Deleting(x)' /\ ~Deleting(x)
      <4>1. /\ pc[x] = "deleteDomain" /\ j = i /\ Name(x) \in Names
            /\ dom'[Name(x)].id = NoID \/ Marked(dom[Name(x)].id, {"cleanup"})
        BY <2>2, <3>4 DEF DomStep
      <4>2. j # NoID
        BY <4>1, HasID DEF Asking
      <4>3. ASSUME NEW m \in Names, dom'[m].id = j PROVE HasCause(j, LeftDom)'
        <5>1. dom[m].id = j
          BY <4>1, <4>2, <4>3 DEF DomStep
        <5>2. m = Name(x)
          BY <4>1, <4>2, <5>1, OneName
        <5>3. QED
          BY <4>1, <4>2, <4>3, <5>1, <5>2 DEF Marked, HasCause, LeftDom
      <4>4. QED
        BY <4>3 DEF NoDom
    <3>5. QED
      BY <2>2, <3>1, <3>2, <3>3, <3>4
  <2>3. QED
    BY <2>1, <2>2 DEF DomGone
<1>12. DomBacked'
  <2>1. ASSUME NEW j \in stored'
        PROVE  \/ dom'[rec'[j].name].id = j \/ HasCause(j, Spoiled)'
               \/ \E y \in Actors : Deleting(y)' /\ loc'[y].id = j
    <3>1. CASE j \in stored
      <4>1. rec'[j].name = rec[j].name /\ rec[j].name \in Names /\ j # NoID
        BY <3>1, NameKept, OneName, HasID
      <4>2. CASE dom[rec[j].name].id = j /\ dom'[rec[j].name].id # j
        <5>1. ~(Handle(x) /\ pc[x] = "undoDom")
          <6>1. pc[x] = "undoDom" => loc[x].dom # j
            BY <1>2, <1>5, <3>1, <4>1 DEF Building
          <6>2. rec[j].name = Name(x)
            BY <4>1, <4>2 DEF DomStep
          <6>3. QED
            BY <4>2, <6>1, <6>2 DEF Handle
        <5>2. Marked(j, {"byname", "reaped"}) \/ (pc[x] = "deleteDomain" /\ j = i)
          BY <4>1, <4>2, <5>1 DEF DomStep
        <5>3. CASE Marked(j, {"byname", "reaped"})
          BY <5>3 DEF Marked, HasCause, Spoiled
        <5>4. CASE pc[x] = "deleteDomain" /\ j = i
          BY <5>4 DEF DomStep
        <5>5. QED
          BY <5>2, <5>3, <5>4
      <4>3. CASE HasCause(j, Spoiled)
        BY <4>3 DEF HasCause
      <4>4. ASSUME NEW y \in Actors, Deleting(y), loc[y].id = j
            PROVE  HasCause(j, Spoiled)' \/ \E z \in Actors : Deleting(z)' /\ loc'[z].id = j
        <5>1. CASE y # x
          <6>1. pc[y] \notin {"idle", "wait"}
            BY <4>4 DEF Deleting
          <6>2. pc'[y] = pc[y] /\ loc'[y] = loc[y]
            BY <5>1, <6>1, Bystanders
          <6>3. QED
            BY <4>4, <6>2 DEF Deleting
        <5>2. CASE y = x /\ Deleting(x)'
          BY <4>4, <5>2 DEF DomStep
        <5>3. CASE y = x /\ ~Deleting(x)'
          <6>1. pc[x] = "deleteRecord"
            BY <4>4, <5>3 DEF DomStep
          <6>2. <<"halfDeleted", j>> \in causes'
            BY <2>1, <4>4, <5>3, <6>1 DEF DirStep, Removes, Deleted
          <6>3. QED
            BY <6>2 DEF HasCause, Spoiled
        <5>4. QED
          BY <5>1, <5>2, <5>3
      <4>5. QED
        BY <3>1, <4>1, <4>2, <4>3, <4>4 DEF Doms, DomBacked
    <3>2. CASE j \notin stored /\ <<"stale", j>> \in causes'
      BY <3>2 DEF HasCause, Spoiled
    <3>3. CASE j = i /\ Stores(x) /\ rec'[j].name = Name(x)
      <4>1. pc[x] = "put" /\ Building(x)
        BY <3>3 DEF Stores, Building
      <4>2. dom[Name(x)].id = j \/ HasCause(j, Spoiled)
        BY <1>8, <3>3, <4>1
      <4>3. Name(x) \in Names /\ j # NoID
        BY <1>4, <3>3, <4>1, InHand
      <4>4. CASE dom[Name(x)].id = j /\ dom'[Name(x)].id # j
        BY <4>1, <4>3, <4>4 DEF DomStep, Marked, HasCause, Spoiled
      <4>5. CASE HasCause(j, Spoiled)
        BY <4>5 DEF HasCause
      <4>6. QED
        BY <3>3, <4>2, <4>4, <4>5
    <3>4. QED
      BY <2>1, <3>1, <3>2, <3>3, NameKept
  <2>2. QED
    BY <2>1 DEF DomBacked
<1>13. DomOwned'
  <2>1. ASSUME NEW m \in Names, NEW j, j = dom'[m].id, j # NoID
        PROVE  \/ j \in stored' \/ HasCause(j, LeftDom)'
               \/ \E y \in Actors : loc'[y].id = j /\ pc'[y] \in {"boot", "put", "undoDom"}
    <3>1. CASE dom[m].id # j
      <4>1. \/ j = i /\ pc[x] = "define" /\ pc'[x] \in {"boot", "put"}
            \/ Marked(j, {"redefined"})
        BY <2>1, <3>1 DEF DomStep
      <4>2. CASE Marked(j, {"redefined"})
        BY <4>2 DEF Marked, HasCause, LeftDom
      <4>3. CASE j = i /\ pc[x] = "define" /\ pc'[x] \in {"boot", "put"}
        BY <1>7, <4>3 DEF Building
      <4>4. QED
        BY <4>1, <4>2, <4>3
    <3>2. CASE dom[m].id = j /\ j \in stored /\ j \notin stored'
      <4>1. j = i /\ pc[x] = "deleteRecord"
        BY <3>2 DEF DirStep
      <4>2. QED
        BY <1>10, <3>2, <4>1 DEF NoDom, Deleting, HasCause
    <3>3. CASE HasCause(j, LeftDom)
      BY <3>3 DEF HasCause
    <3>4. ASSUME NEW y \in Actors, loc[y].id = j, pc[y] \in {"boot", "put", "undoDom"}, dom[m].id = j
          PROVE  \/ j \in stored' \/ HasCause(j, LeftDom)'
                 \/ \E z \in Actors : loc'[z].id = j /\ pc'[z] \in {"boot", "put", "undoDom"}
      <4>1. CASE y # x
        BY <3>4, <4>1, Bystanders
      <4>2. CASE y = x /\ ~Building(x)'
        BY <3>4, <4>2 DEF DomStep
      <4>3. CASE y = x /\ Building(x)'
        <5>1. Building(x) /\ loc'[x].id = j
          BY <1>7, <3>4, <4>3 DEF Building
        <5>2. CASE pc'[x] = "undoHost"
          BY <1>11, <2>1, <5>1, <5>2 DEF DomGone, NoDom
        <5>3. QED
          BY <3>4, <4>3, <5>1, <5>2 DEF DomStep
      <4>4. QED
        BY <4>1, <4>2, <4>3
    <3>5. QED
      BY <2>1, <3>1, <3>2, <3>3, <3>4 DEF Doms, DomOwned
  <2>2. QED
    BY <2>1 DEF DomOwned
<1>14. QED
  BY <1>9, <1>11, <1>12, <1>13 DEF Doms

LEMMA NextDoms ==
  ASSUME Types, Types', Tracked, Naming, Dirs, Doms, Next
  PROVE  Naming' /\ Dirs' /\ Doms'
<1>1. ASSUME NEW r \in Requests, CreateStep(r) \/ ChangeStep(r) PROVE Naming' /\ Doms'
  <2>1. causes \subseteq causes' /\ ActorStep(r) /\ DirStep(r) /\ DomStep(r)
    BY <1>1, CreateKind, ChangeKind, CreateDir, ChangeDir, CreateDom, ChangeDom
  <2>2. QED
    BY <2>1, ActorNaming, ActorDoms
<1>2. ASSUME NEW i \in Monitors, MonitorStep(i) PROVE Naming' /\ Doms'
  <2>1. causes \subseteq causes' /\ ActorStep(i) /\ DirStep(i) /\ DomStep(i)
    BY <1>2, MonitorKind, MonitorDir, MonitorDom
  <2>2. QED
    BY <2>1, ActorNaming, ActorDoms
<1>3. ASSUME NEW n \in Names, GuestShutsDown(n) PROVE Naming' /\ Doms'
  <2>1. /\ stored' = stored /\ rec' = rec /\ pc' = pc /\ loc' = loc /\ causes' = causes
        /\ \A m \in Names : dom'[m].id = dom[m].id
    BY <1>3, GuestDoes DEF SameStore, SameOwners
  <2>2. Naming'
    BY <2>1 DEF Naming, Named, Asking, Name
  <2>3. \A j \in stored : rec[j].name \in Names
    BY DEF Types
  <2>4. \A x \in Actors : Building(x) => Name(x) \in Names
    BY InHand DEF Building
  <2>5. DomBuilt' /\ DomGone'
    BY <2>1, <2>4 DEF Doms, DomBuilt, DomGone, NoDom, Building, Deleting, HasCause, Name
  <2>6. DomBacked' /\ DomOwned'
    BY <2>1, <2>3 DEF Doms, DomBacked, DomOwned, Deleting, HasCause
  <2>7. QED
    BY <2>2, <2>5, <2>6 DEF Doms
<1>4. ASSUME Crash PROVE Naming' /\ Doms'
  <2>1. /\ stored' = stored /\ rec' = rec /\ dom' = dom /\ causes \subseteq causes'
        /\ \A x \in Actors : pc'[x] = "idle" /\ loc'[x] = NoWork
        /\ \A x \in Actors : loc[x].id # NoID => <<"crash", loc[x].id>> \in causes'
    BY <1>4, CrashDoes DEF Same, SameStore, SameHost, Recalls
  <2>2. Naming'
    BY <2>1, Constants DEF Naming, Named, Asking
  <2>3. \A x \in Actors : Building(x) \/ Deleting(x) => loc[x].id # NoID
    BY HasID DEF Asking, Deleting
  <2>4. DomBuilt' /\ DomGone'
    BY <2>1 DEF DomBuilt, DomGone, Building, Deleting
  <2>5. DomBacked'
    BY <2>1, <2>3 DEF Doms, DomBacked, HasCause, Spoiled
  <2>6. DomOwned'
    BY <2>1, <2>3 DEF Doms, DomOwned, HasCause, LeftDom, Building
  <2>7. QED
    BY <2>2, <2>4, <2>5, <2>6 DEF Doms
<1>5. QED
  BY <1>1, <1>2, <1>3, <1>4, NextDirs DEF Next

LEMMA InitDoms == Init => Naming /\ Dirs /\ Doms
<1> SUFFICES ASSUME Init PROVE Naming /\ Dirs /\ Doms
  OBVIOUS
<1>1. \A x \in Actors : pc[x] = "idle" /\ loc[x] = NoWork
  BY DEF Init
<1>2. Naming
  <2>1. [i \in IDs |-> NoName] \in [IDs -> Names \cup {NoName}] /\ Named([i \in IDs |-> NoName])
    BY <1>1, Constants DEF Init, Named
  <2>2. QED
    BY <1>1, <2>1, Constants DEF Naming
<1>3. Doms
  BY <1>1, Constants DEF Init, Doms, DomBuilt, DomGone, DomBacked, DomOwned, Building, Deleting
<1>4. QED
  BY <1>2, <1>3, InitDirs

-----------------------------------------------------------------------------
(* The reservations. *)

\* An update of the address: past the removal of the old reservation, and
\* past the new one.
Moving(x) == loc[x].op = "readdress" /\ pc[x] \in {"newAddress", "newISO", "redefine", "updatePut"}
Moved(x) == loc[x].op = "readdress" /\ pc[x] \in {"newISO", "redefine", "updatePut"}
\* A delete past the removal of the reservation.
Removing(x) == pc[x] \in {"deleteDir", "deleteRecord"}
Dropped(x) == Moving(x) \/ Removing(x)
\* A monitor that has reserved a fallback address.
Fallen(x) == pc[x] \in {"bounce", "ping", "monitorPut"}
Holds(x) == Moved(x) \/ Fallen(x)
\* It works on a stale copy.
Sinking(x) == Dropped(x) /\ Overwrites(x)

\* Why a stored VM may be without the reservation of its address, or a
\* reservation without a VM.
Lost == {"crash", "stale", "halfDeleted", "byname", "update"}
Left == Lost \cup {"cleanup", "mkdir", "monitor"}
\* i is, or is about to be, a VM with such a cause.
Doomed(i) ==
  \/ HasCause(i, Lost) \/ i \notin stored
  \/ \E x \in Actors : loc[x].id = i /\ (Removing(x) \/ Sinking(x))

OneAddress == \A a, b \in Addrs : res[a].id # NoID /\ res[a].id = res[b].id => a = b
Static ==
  /\ \A i \in Monitors : pc[i] # "idle" => <<"static", i>> \notin causes
  /\ \A x \in Actors : Building(x) /\ <<"static", loc[x].id>> \in causes => loc[x].vm.ip # NoIP
  /\ \A i : <<"static", i>> \in causes => i \in used
ResBuilt ==
  \A x \in Actors : Building(x) =>
    /\ \A a \in Addrs : res[a].id = loc[x].id => loc[x].vm.ip = a
    /\ loc[x].vm.ip = NoIP \/ res[loc[x].vm.ip].id = loc[x].id \/ HasCause(loc[x].id, {"byname", "static"})
ResBacked ==
  \A i \in stored : \/ Doomed(i) \/ <<"static", i>> \in causes \/ rec[i].ip = NoIP \/ res[rec[i].ip].id = i
                   \/ \E x \in Actors : loc[x].id = i /\ Dropped(x)
ResMoved ==
  \A x \in Actors : Moved(x) =>
    /\ loc[x].ip \in Addrs /\ loc[x].ip # loc[x].vm.ip
    /\ Doomed(loc[x].id) \/ res[loc[x].ip].id = loc[x].id

\* A monitor reserves only when no update has reserved an address, and the
\* VM has none or is being moved.
ResFallen ==
  \A m \in Actors : Fallen(m) =>
    \/ Doomed(loc[m].id)
    \/ /\ res[loc[m].ip].id = loc[m].id
       /\ \A x \in Actors : loc[x].id = loc[m].id => ~Moved(x)
       /\ rec[loc[m].id].ip = NoIP \/ \E x \in Actors : loc[x].id = loc[m].id /\ Moving(x)
    \/ \E x, z \in Actors : x # z /\ loc[x].id = loc[m].id /\ loc[z].id = loc[m].id /\ Moving(x) /\ Moving(z)

\* The reservation that was dropped is gone, or somebody else's.
ResDropped ==
  \A x \in Actors, a \in Addrs : Dropped(x) /\ a = loc[x].vm.ip /\ res[a].id = loc[x].id =>
    \/ HasCause(loc[x].id, Left) \/ Overwrites(x)
    \/ \E z \in Actors : loc[z].id = loc[x].id /\ Holds(z) /\ loc[z].ip = a
ResOwned ==
  \A a \in Addrs : LET i == res[a].id IN
    \/ i = NoID \/ (i \in stored /\ rec[i].ip = a) \/ HasCause(i, Left)
    \/ \E x \in Actors :
         loc[x].id = i /\ (Sinking(x) \/ (Holds(x) /\ loc[x].ip = a) \/ (Building(x) /\ loc[x].vm.ip = a))
Reserved ==
  OneAddress /\ Static /\ ResBuilt /\ ResBacked /\ ResMoved /\ ResFallen /\ ResDropped /\ ResOwned

\* What a step of x does to the reservations.
ResStep(x) ==
  LET i == loc[x].id IN
  /\ \A a \in Addrs : res'[a].id # res[a].id =>
       \/ res'[a].id = NoID /\ Marked(res[a].id, {"byname"})
       \/ res'[a].id = NoID /\ res[a].id = i /\ a = loc[x].vm.ip /\ pc[x] \in {"undoHost", "oldAddress", "deleteHost"}
       \/ /\ res[a].id = NoID /\ res'[a].id = i
          /\ \A b \in Addrs : res[b].id # i /\ (b # a => res'[b] = res[b])
          /\ \/ pc[x] = "add" /\ Building(x)' /\ loc'[x].vm.ip = a
             \/ Moved(x)' /\ loc'[x].ip = a
             \/ Fallen(x)' /\ loc'[x].ip = a
  /\ \A j : <<"static", j>> \in causes' /\ <<"static", j>> \notin causes =>
       ~Building(x) /\ Building(x)' /\ j = loc'[x].id /\ loc'[x].vm.ip # NoIP
  /\ ~Building(x) /\ Building(x)' =>
       loc'[x].id \notin used /\ (loc'[x].vm.ip = NoIP \/ Marked(loc'[x].id, {"static"}))
  /\ Building(x) /\ Building(x)' =>
       /\ loc'[x].id = i
       /\ \/ loc'[x].vm.ip = loc[x].vm.ip
          \/ loc[x].vm.ip = NoIP /\ loc'[x].vm.ip \in Addrs /\ res'[loc'[x].vm.ip].id = i
  /\ pc[x] = "undoHost" => ~Building(x)'
  /\ Building(x) /\ ~Building(x)' =>
       \/ Stores(x) \/ loc[x].vm.ip = NoIP \/ Marked(i, {"mkdir", "cleanup"})
       \/ \A a \in Addrs : a = loc[x].vm.ip => res'[a].id # i

\* What it does to the address in hand.
MoveStep(x) ==
  LET i == loc[x].id IN
  /\ Dropped(x)' =>
       /\ loc'[x].id = i /\ loc'[x].vm = loc[x].vm /\ SameStore
       /\ \/ Dropped(x) /\ (Moving(x) <=> Moving(x)') /\ (Removing(x) <=> Removing(x)')
          \/ /\ pc[x] \in {"oldAddress", "deleteHost"}
             /\ Marked(i, {"cleanup"}) \/ \A a \in Addrs : a = loc[x].vm.ip => res'[a].id # i
  /\ pc[x] = "oldAddress" => Moving(x)'
  /\ pc[x] = "deleteHost" => Removing(x)'
  /\ Moving(x) /\ ~Moving(x)' => Marked(i, {"update"}) \/ (Moved(x) /\ Writes(x))
  /\ Removing(x) /\ ~Removing(x)' => Marked(i, {"halfDeleted"}) \/ Removes(x)
  /\ Moved(x)' =>
       \/ Moved(x) /\ loc'[x].ip = loc[x].ip
       \/ /\ loc'[x].ip \in Addrs /\ loc'[x].ip # loc[x].vm.ip /\ res'[loc'[x].ip].id = i
          /\ \A b \in Addrs : res[b].id # i
  /\ Moved(x) /\ ~Moved(x)' => ~Moving(x)'
  /\ Fallen(x)' =>
       /\ loc'[x].id = i /\ loc'[x].ip = loc[x].ip /\ SameStore
       /\ Fallen(x) \/ (res'[loc[x].ip].id = i /\ loc[x].ip \in Addrs /\ \A b \in Addrs : res[b].id # i)
  /\ Fallen(x) /\ ~Fallen(x)' => Marked(i, {"monitor"}) \/ Writes(x)
  /\ \/ SameStore \/ Stores(x) \/ Removes(x)
     \/ Writes(x) /\ Holds(x) /\ ~Holds(x)' /\ ~Dropped(x)' /\ rec'[i].ip = loc[x].ip
     \/ Writes(x) /\ ~Holds(x) /\ ~Holds(x)' /\ ~Dropped(x) /\ ~Dropped(x)' /\ rec'[i].ip = loc[x].vm.ip
MovePcs == {"oldAddress", "newAddress", "newISO", "redefine", "updatePut", "deleteHost", "deleteDir", "deleteRecord",
            "bounce", "ping", "monitorPut"}

LEMMA NoMove ==
  ASSUME NEW x \in Actors, pc[x] \notin MovePcs, pc'[x] \notin MovePcs, SameStore \/ Stores(x)
  PROVE  MoveStep(x)
BY DEF MovePcs, MoveStep, Dropped, Moving, Moved, Removing, Fallen

LEMMA NoRes ==
  ASSUME NEW x \in Actors, res' = res, ~Building(x), ~Building(x)', Recalls
  PROVE  ResStep(x)
BY DEF ResStep, Recalls

\* A step of a create or clone that leaves the reservations.
LEMMA BuildsOn ==
  ASSUME NEW x \in Actors, NEW q, Goes(x, q, loc[x]), res' = res, Recalls, Building(x)' <=> Building(x),
         pc[x] # "undoHost"
  PROVE  ResStep(x)
BY DEF ResStep, Recalls, Goes

LEMMA CreateRes ==
  ASSUME Types, NEW r \in Requests, CreateStep(r)
  PROVE  ResStep(r) /\ MoveStep(r)
<1> USE DEF Building, Same, SameStore, SameHost
<1>1. CASE CreateVM(r)
  BY <1>1, CreateVMDoes, NoMove, NoRes DEF Goes, MovePcs, Recalls
<1>2. CASE AcquireCreateSlot(r)
  BY <1>2, AcquireDoes, NoMove, NoRes DEF Goes, Ends, MovePcs, Recalls
<1>3. CASE CloneVM(r)
  BY <1>3, CloneVMDoes, NoMove, NoRes DEF Goes, MovePcs, Recalls
<1>4. CASE CheckQuota(r)
  <2>1. CASE Ends(r)
    BY <1>4, <2>1, CheckQuotaDoes, NoMove, NoRes DEF Goes, Ends, MovePcs, Recalls
  <2>2. CASE ~Ends(r)
    <3>1. PICK i \in IDs \ used, q \in {"find", "mkdir", "source"} :
            /\ Goes(r, q, [loc[r] EXCEPT !.id = i])
            /\ loc[r].vm.ip = NoIP <=> q # "mkdir"
            /\ \A j : <<"static", j>> \in causes' /\ j # i => <<"static", j>> \in causes
            /\ <<"static", i>> \in causes' => <<"static", i>> \in causes \/ q = "mkdir"
            /\ q = "mkdir" => <<"static", i>> \in causes'
      BY <1>4, <2>2, CheckQuotaDoes
    <3>2. pc'[r] = q /\ loc'[r].id = i /\ loc'[r].vm = loc[r].vm
      BY <1>4, <3>1, Fields DEF Goes
    <3>3. pc[r] = "quota" /\ res' = res /\ SameStore
      BY <1>4, CheckQuotaDoes
    <3>4. ResStep(r)
      BY <3>1, <3>2, <3>3 DEF ResStep, Marked
    <3>5. QED
      BY <3>2, <3>3, <3>4, NoMove DEF MovePcs
  <2>3. QED
    BY <2>1, <2>2
<1>5. CASE ReadSource(r)
  <2>1. MoveStep(r)
    BY <1>5, ReadSourceDoes, NoMove DEF Goes, Ends, MovePcs
  <2>2. loc[r].vm.ip = NoIP
    BY <1>5, ReadSourceDoes, OpAt DEF Shaped, Fits
  <2>3. CASE Ends(r)
    BY <1>5, <2>1, <2>2, <2>3, ReadSourceDoes DEF ResStep, Goes, Ends
  <2>4. CASE ~Ends(r)
    <3>1. PICK l \in BOOLEAN : Goes(r, "mkdir", [loc[r] EXCEPT !.dom = NoID, !.vm.locked = l])
      BY <1>5, <2>4, ReadSourceDoes
    <3>2. pc'[r] = "mkdir" /\ loc'[r].id = loc[r].id /\ loc'[r].vm.ip = loc[r].vm.ip
      BY <3>1, Fields DEF Goes
    <3>3. ResStep(r)
      BY <1>5, <3>2, ReadSourceDoes DEF ResStep
    <3>4. QED
      BY <2>1, <3>3
  <2>5. QED
    BY <2>3, <2>4
<1>6. CASE FindAvailableIP(r)
  <2>1. pc[r] = "find" /\ pc'[r] \in {"byname", "mkdir", "define"} /\ SameStore /\ res' = res /\ causes' = causes
    BY <1>6, FindDoes DEF Goes
  <2>2. loc'[r].id = loc[r].id /\ loc'[r].vm = loc[r].vm
    <3>1. CASE loc'[r] = loc[r]
      BY <3>1
    <3>2. CASE loc'[r] # loc[r]
      <4>1. PICK a \in Addrs : loc'[r] = [loc[r] EXCEPT !.ip = a]
        BY <1>6, <3>2, FindDoes DEF Goes
      <4>2. QED
        BY <4>1, Fields
    <3>3. QED
      BY <3>1, <3>2
  <2>3. ResStep(r)
    BY <2>1, <2>2 DEF ResStep
  <2>4. QED
    BY <2>1, <2>3, NoMove DEF MovePcs
<1>7. CASE RemoveDHCPHostByName(r)
  <2>1. pc[r] = "byname" /\ pc'[r] = "add" /\ loc'[r] = loc[r] /\ SameStore /\ Recalls
    BY <1>7, ByNameDoes DEF Goes
  <2>2. ASSUME NEW a \in Addrs, res'[a].id # res[a].id
        PROVE  res'[a].id = NoID /\ Marked(res[a].id, {"byname"})
    <3>1. res'[a] = NoHost /\ (res[a].id # NoID => <<"byname", res[a].id>> \in causes')
      BY <1>7, <2>2, ByNameDoes
    <3>2. QED
      BY <2>2, <3>1, Constants DEF Marked
  <2>3. ResStep(r)
    BY <2>1, <2>2 DEF ResStep, Recalls
  <2>4. QED
    BY <2>1, <2>3, NoMove DEF MovePcs
<1>8. CASE AddDHCPHost(r)
  <2>1. pc[r] = "add" /\ pc'[r] \in {"mkdir", "define"} /\ SameStore /\ causes' = causes
    BY <1>8, AddDoes DEF Goes
  <2>2. loc[r].vm.ip = NoIP /\ loc[r].ip \in Addrs /\ loc[r].id \in used /\ loc[r].id # NoID
    BY <2>1, InHand DEF Fits, Asking
  <2>3. CASE res' = res /\ loc'[r] = [loc[r] EXCEPT !.ip = NoIP]
    <3>1. loc'[r].id = loc[r].id /\ loc'[r].vm = loc[r].vm
      BY <2>3, Fields
    <3>2. ResStep(r)
      BY <2>1, <2>3, <3>1 DEF ResStep
    <3>3. QED
      BY <2>1, <3>2, NoMove DEF MovePcs
  <2>4. CASE ~(res' = res /\ loc'[r] = [loc[r] EXCEPT !.ip = NoIP])
    <3>1. PICK a \in Addrs : a = loc[r].ip
      BY <2>2
    <3>2. /\ CanReserve(a, loc[r].id, Name(r)) /\ res' = [res EXCEPT ![a] = [id |-> loc[r].id, name |-> Name(r)]]
          /\ loc'[r] = [loc[r] EXCEPT !.vm.ip = a, !.ip = NoIP]
      BY <1>8, <2>4, <3>1, AddDoes DEF Goes
    <3>3. loc'[r].id = loc[r].id /\ loc'[r].vm.ip = a
      BY <3>2, OpAt DEF Task, Record
    <3>4. /\ res[a].id = NoID /\ res'[a].id = loc[r].id
          /\ \A b \in Addrs : res[b].id # loc[r].id /\ (b # a => res'[b] = res[b])
      BY <2>2, <3>2, Typed, Constants DEF CanReserve
    <3>5. ResStep(r)
      BY <2>1, <2>2, <3>3, <3>4 DEF ResStep
    <3>6. QED
      BY <2>1, <3>5, NoMove DEF MovePcs
  <2>5. QED
    BY <2>3, <2>4
<1>9. CASE MkdirAll(r)
  <2>1. pc[r] = "mkdir" /\ pc'[r] \notin MovePcs /\ SameStore /\ res' = res /\ Recalls
    BY <1>9, MkdirDoes DEF Goes, Ends, MovePcs
  <2>2. CASE Ends(r) /\ <<"mkdir", loc[r].id>> \in causes'
    BY <2>1, <2>2, NoMove DEF ResStep, Marked, Goes, Ends, MovePcs, Recalls
  <2>3. CASE ~(Ends(r) /\ <<"mkdir", loc[r].id>> \in causes')
    BY <1>9, <2>1, <2>3, MkdirDoes, NoMove, BuildsOn DEF MovePcs, Goes
  <2>4. QED
    BY <2>2, <2>3
<1>10. CASE ReapOrphan(r)
  BY <1>10, ReapDoes, NoMove, BuildsOn DEF Goes, MovePcs
<1>11. CASE DomainDefineXML(r)
  <2>1. pc[r] = "define" /\ pc'[r] \in {"boot", "put", "undoDom"} /\ SameStore /\ res' = res /\ causes' = causes
    BY <1>11, DefineDoes DEF Goes
  <2>2. loc'[r] = loc[r] \/ loc'[r] = [loc[r] EXCEPT !.dom = loc[r].id]
    BY <1>11, DefineDoes DEF Goes
  <2>3. loc'[r].id = loc[r].id /\ loc'[r].vm = loc[r].vm
    BY <2>2, OpAt DEF Task
  <2>4. ResStep(r)
    BY <2>1, <2>3 DEF ResStep
  <2>5. QED
    BY <2>1, <2>4, NoMove DEF MovePcs
<1>12. CASE BootDomain(r)
  BY <1>12, BootDoes, NoMove, BuildsOn DEF Goes, MovePcs, Recalls
<1>13. CASE StoreNewVM(r)
  <2>1. pc[r] = "put" /\ SameHost /\ causes' = causes /\ used' = used
    BY <1>13, StoreDoes
  <2>2. CASE Goes(r, "undoDom", loc[r]) /\ SameStore
    BY <2>1, <2>2, NoMove, BuildsOn DEF Goes, MovePcs, Recalls
  <2>3. CASE ~(Goes(r, "undoDom", loc[r]) /\ SameStore)
    <3>1. Stores(r)
      BY <1>13, <2>1, <2>3, StoreDoes DEF Stores
    <3>2. QED
      BY <2>1, <3>1, NoMove DEF Stores, ResStep, MovePcs
  <2>4. QED
    BY <2>2, <2>3
<1>14. CASE UndoDomain(r)
  BY <1>14, UndoDomainDoes, NoMove, BuildsOn DEF Goes, MovePcs
<1>15. CASE UndoHost(r)
  <2>1. pc[r] = "undoHost" /\ pc'[r] = "idle" /\ SameStore /\ Recalls /\ loc[r].id \in used /\ loc[r].id # NoID
    BY <1>15, UndoHostDoes, InHand DEF Goes, Ends, Asking
  <2>2. CASE res' = res /\ <<"cleanup", loc[r].id>> \in causes'
    BY <2>1, <2>2, NoMove DEF ResStep, MovePcs, Marked, Recalls
  <2>3. CASE res' = Unreserve(loc[r].vm.ip, loc[r].id)
    <3>1. \A a \in Addrs : res'[a].id # res[a].id =>
            res'[a].id = NoID /\ res[a].id = loc[r].id /\ a = loc[r].vm.ip
      BY <2>3, Typed, Constants DEF Unreserve
    <3>2. \A a \in Addrs : a = loc[r].vm.ip => res'[a].id # loc[r].id
      BY <2>1, <2>3, Typed, Constants, IdentityAssumption DEF Unreserve
    <3>3. QED
      BY <2>1, <3>1, <3>2, NoMove DEF ResStep, MovePcs, Recalls
  <2>4. QED
    BY <1>15, <2>2, <2>3, UndoHostDoes
<1>16. QED
  BY <1>1, <1>2, <1>3, <1>4, <1>5, <1>6, <1>7, <1>8, <1>9, <1>10, <1>11, <1>12, <1>13, <1>14, <1>15 DEF CreateStep

\* A step of another operation that changes the states of domains at most.
LEMMA MovesOn ==
  ASSUME NEW x \in Actors, NEW q, Goes(x, q, loc[x]), SameStore, Moving(x)' <=> Moving(x), Moved(x)' <=> Moved(x),
         Removing(x)' <=> Removing(x), Fallen(x)' <=> Fallen(x), pc[x] \notin {"oldAddress", "deleteHost"}
  PROVE  MoveStep(x)
BY DEF MoveStep, Goes, Dropped

\* The removal of the reservation that goes with the address in hand.
LEMMA UnreserveDoes ==
  ASSUME Types, NEW x \in Actors, loc[x].id # NoID, pc[x] \in {"oldAddress", "deleteHost"}, Recalls,
         ~Building(x), ~Building(x)',
         \/ res' = Unreserve(loc[x].vm.ip, loc[x].id)
         \/ res' = res /\ <<"cleanup", loc[x].id>> \in causes'
  PROVE  /\ ResStep(x)
         /\ Marked(loc[x].id, {"cleanup"}) \/ \A a \in Addrs : a = loc[x].vm.ip => res'[a].id # loc[x].id
<1>1. CASE res' = res /\ <<"cleanup", loc[x].id>> \in causes'
  BY <1>1, NoRes DEF Marked
<1>2. CASE res' = Unreserve(loc[x].vm.ip, loc[x].id)
  <2>1. \A a \in Addrs : res'[a].id # res[a].id =>
          res'[a].id = NoID /\ res[a].id = loc[x].id /\ a = loc[x].vm.ip
    BY <1>2, Typed, Constants DEF Unreserve
  <2>2. \A a \in Addrs : a = loc[x].vm.ip => res'[a].id # loc[x].id
    BY <1>2, Typed, Constants, IdentityAssumption DEF Unreserve
  <2>3. QED
    BY <2>1, <2>2 DEF ResStep, Recalls
<1>3. QED
  BY <1>1, <1>2

LEMMA ReserveDoes ==
  ASSUME Types, NEW a \in Addrs, NEW i \in used, NEW n \in Names, CanReserve(a, i, n),
         res' = [res EXCEPT ![a] = [id |-> i, name |-> n]]
  PROVE  /\ res[a].id = NoID /\ res'[a].id = i
         /\ \A b \in Addrs : res[b].id # i /\ (b # a => res'[b] = res[b])
<1>1. i # NoID
  BY IdentityAssumption DEF Types, Values
<1>2. QED
  BY <1>1, Typed, Constants DEF CanReserve

LEMMA ChangeRes ==
  ASSUME Types, NEW r \in Requests, ChangeStep(r)
  PROVE  ResStep(r) /\ MoveStep(r)
<1> USE DEF Building, Same, SameStore, SameHost
<1>1. CASE PowerVM(r) \/ UpdateVM(r) \/ DeleteVM(r)
  <2>1. pc[r] = "idle" /\ SameStore /\ res' = res /\ causes' = causes
    BY <1>1, PowerVMDoes, UpdateVMDoes, DeleteVMDoes
  <2>2. /\ pc'[r] \in {"power", "updatePut", "updateStop", "disk", "deleteDomain"}
        /\ pc'[r] = "updatePut" => loc'[r].op = "lock"
    BY <1>1, PowerVMDoes, UpdateVMDoes, DeleteVMDoes DEF Goes, Copied
  <2>3. QED
    BY <2>1, <2>2, NoRes DEF MoveStep, Dropped, Moving, Moved, Removing, Fallen, Holds, Recalls
<1>2. CASE PowerDomain(r) \/ UpdateStop(r) \/ UpdateBoot(r)
  BY <1>2, PowerDomainDoes, UpdateStopDoes, UpdateBootDoes, NoMove, NoRes DEF Goes, Ends, MovePcs, Recalls
<1>3. CASE GrowDisk(r)
  <2>1. pc[r] = "disk" /\ SameStore /\ res' = res /\ causes' = causes
    BY <1>3, GrowDiskDoes
  <2>2. pc'[r] \in {"redefine", "oldAddress", "idle"} /\ (pc'[r] = "redefine" => loc'[r].op = "resize")
    BY <1>3, GrowDiskDoes DEF Goes, Ends
  <2>3. QED
    BY <2>1, <2>2, NoRes DEF MoveStep, Dropped, Moving, Moved, Removing, Fallen, Holds, Recalls
<1>4. CASE RedefineDomain(r)
  <2>1. pc[r] = "redefine" /\ SameStore /\ res' = res /\ Recalls
    BY <1>4, RedefineDoes
  <2>2. CASE Goes(r, "updatePut", loc[r])
    BY <2>1, <2>2, MovesOn, NoRes DEF Goes, Moving, Moved, Removing, Fallen
  <2>3. CASE Ends(r) /\ (loc[r].op = "readdress" => <<"update", loc[r].id>> \in causes')
    BY <2>1, <2>3, NoRes, Constants DEF Ends, Goes, MoveStep, Dropped, Moving, Moved, Removing, Fallen, Holds, Marked
  <2>4. QED
    BY <1>4, <2>2, <2>3, RedefineDoes
<1>5. CASE DropOldAddress(r)
  <2>1. /\ pc[r] = "oldAddress" /\ pc'[r] = "newAddress" /\ loc'[r] = loc[r] /\ loc[r].op = "readdress"
        /\ SameStore /\ Recalls
    BY <1>5, DropOldDoes DEF Goes
  <2>2. loc[r].id # NoID
    BY <2>1, InHand DEF Asking
  <2>3. /\ ResStep(r)
        /\ Marked(loc[r].id, {"cleanup"}) \/ \A a \in Addrs : a = loc[r].vm.ip => res'[a].id # loc[r].id
    BY <1>5, <2>1, <2>2, DropOldDoes, UnreserveDoes
  <2>4. QED
    BY <2>1, <2>3 DEF MoveStep, Dropped, Moving, Moved, Removing, Fallen, Holds
<1>6. CASE AddNewAddress(r)
  <2>1. pc[r] = "newAddress" /\ SameStore /\ Recalls /\ loc[r].op = "readdress" /\ Name(r) \in Names
    BY <1>6, AddNewDoes
  <2>2. CASE res' = res /\ Ends(r) /\ <<"update", loc[r].id>> \in causes'
    BY <2>1, <2>2, NoRes, Constants DEF Ends, Goes, MoveStep, Dropped, Moving, Moved, Removing, Fallen, Holds, Marked
  <2>3. CASE ~(res' = res /\ Ends(r) /\ <<"update", loc[r].id>> \in causes')
    <3>1. PICK a \in Addrs \ {loc[r].vm.ip} :
                 /\ CanReserve(a, loc[r].id, Name(r))
                 /\ res' = [res EXCEPT ![a] = [id |-> loc[r].id, name |-> Name(r)]]
                 /\ Goes(r, "newISO", [loc[r] EXCEPT !.ip = a]) /\ causes' = causes
      BY <1>6, <2>3, AddNewDoes
    <3>2. pc'[r] = "newISO" /\ loc'[r] = [loc[r] EXCEPT !.ip = a]
      BY <3>1 DEF Goes
    <3>3. loc'[r].id = loc[r].id /\ loc'[r].vm = loc[r].vm /\ loc'[r].ip = a /\ loc'[r].op = "readdress"
      BY <2>1, <3>2, Fields
    <3>4. loc[r].id \in used
      BY <2>1, InHand DEF Asking
    <3>5. /\ res[a].id = NoID /\ res'[a].id = loc[r].id
          /\ \A b \in Addrs : res[b].id # loc[r].id /\ (b # a => res'[b] = res[b])
      BY <2>1, <3>1, <3>4, ReserveDoes
    <3>6. ResStep(r)
      BY <2>1, <3>1, <3>2, <3>3, <3>5 DEF ResStep, Moved
    <3>7. MoveStep(r)
      BY <2>1, <3>1, <3>2, <3>3, <3>5 DEF MoveStep, Dropped, Moving, Moved, Removing, Fallen, Holds
    <3>8. QED
      BY <3>6, <3>7
  <2>4. QED
    BY <2>2, <2>3
<1>7. CASE RegenerateISO(r)
  <2>1. pc[r] = "newISO" /\ SameStore /\ res' = res /\ Recalls
    BY <1>7, RegenerateDoes
  <2>2. CASE Goes(r, "redefine", loc[r])
    BY <2>1, <2>2, MovesOn, NoRes DEF Goes, Moving, Moved, Removing, Fallen
  <2>3. CASE Ends(r) /\ <<"update", loc[r].id>> \in causes'
    BY <2>1, <2>3, NoRes, Constants DEF Ends, Goes, MoveStep, Dropped, Moving, Moved, Removing, Fallen, Holds, Marked
  <2>4. QED
    BY <1>7, <2>2, <2>3, RegenerateDoes
<1>8. CASE PowerPut(r)
  <2>1. /\ pc[r] = "powerPut" /\ pc'[r] = "idle" /\ loc'[r] = NoWork /\ Others(r) /\ res' = res /\ Recalls
        /\ used' = used
    BY <1>8, PowerPutDoes DEF Ends, Goes
  <2>2. loc[r].id \in used /\ loc[r].vm \in Record
    BY <2>1, InHand DEF Asking, Task
  <2>3. CASE SameStore
    BY <2>1, <2>3, NoMove, NoRes DEF MovePcs
  <2>4. CASE ~SameStore
    <3>1. Written(loc[r].id, loc[r].vm) /\ (Overwrites(r) => <<"stale", loc[r].id>> \in causes')
      BY <1>8, <2>4, PowerPutDoes
    <3>2. Writes(r)
      BY <2>1, <2>2, <3>1 DEF Writes, Asking, Name
    <3>3. rec'[loc[r].id].ip = loc[r].vm.ip
      BY <2>2, <3>1, WriteEffect
    <3>4. QED
      BY <2>1, <3>2, <3>3, NoRes DEF MoveStep, Dropped, Moving, Moved, Removing, Fallen, Holds
  <2>5. QED
    BY <2>3, <2>4
<1>9. CASE UpdatePut(r)
  <2>1. pc[r] = "updatePut" /\ pc'[r] \in {"idle", "updateBoot"} /\ Others(r) /\ res' = res /\ Recalls /\ used' = used
    BY <1>9, UpdatePutDoes DEF Ends, Goes
  <2>2. loc[r].id \in used /\ loc[r].vm \in Record
    BY <2>1, InHand DEF Asking, Task
  <2>3. CASE SameStore /\ Ends(r) /\ (loc[r].op = "readdress" => <<"update", loc[r].id>> \in causes')
    BY <2>1, <2>3, NoRes DEF MoveStep, Dropped, Moving, Moved, Removing, Fallen, Holds, Marked
  <2>4. CASE ~(SameStore /\ Ends(r) /\ (loc[r].op = "readdress" => <<"update", loc[r].id>> \in causes'))
    <3>1. /\ Written(loc[r].id, Patched(loc[r])) /\ (Overwrites(r) => <<"stale", loc[r].id>> \in causes')
          /\ Ends(r) \/ Goes(r, "updateBoot", loc[r])
      BY <1>9, <2>4, UpdatePutDoes
    <3>2. Patched(loc[r]) \in Record /\ Patched(loc[r]).name = Name(r)
          /\ Patched(loc[r]).ip = IF loc[r].op = "readdress" THEN loc[r].ip ELSE loc[r].vm.ip
      BY <2>1, PatchedIs
    <3>3. Writes(r)
      BY <2>1, <3>1, <3>2 DEF Writes, Asking, Ends, Goes
    <3>4. rec'[loc[r].id].ip = IF loc[r].op = "readdress" THEN loc[r].ip ELSE loc[r].vm.ip
      BY <2>2, <3>1, <3>2, WriteEffect
    <3>5. QED
      BY <2>1, <3>3, <3>4, NoRes DEF MoveStep, Dropped, Moving, Moved, Removing, Fallen, Holds
  <2>5. QED
    BY <2>3, <2>4
<1>10. CASE DeleteDomain(r)
  <2>1. pc[r] = "deleteDomain" /\ pc'[r] = "deleteHost" /\ SameStore /\ res' = res /\ Recalls
    BY <1>10, DeleteDomainDoes DEF Goes
  <2>2. QED
    BY <2>1, NoRes DEF MoveStep, Dropped, Moving, Moved, Removing, Fallen, Holds
<1>11. CASE DeleteHost(r)
  <2>1. pc[r] = "deleteHost" /\ pc'[r] = "deleteDir" /\ loc'[r] = loc[r] /\ SameStore /\ Recalls
    BY <1>11, DeleteHostDoes DEF Goes
  <2>2. loc[r].id # NoID
    BY <2>1, InHand DEF Asking
  <2>3. /\ ResStep(r)
        /\ Marked(loc[r].id, {"cleanup"}) \/ \A a \in Addrs : a = loc[r].vm.ip => res'[a].id # loc[r].id
    BY <1>11, <2>1, <2>2, DeleteHostDoes, UnreserveDoes
  <2>4. QED
    BY <2>1, <2>3 DEF MoveStep, Dropped, Moving, Moved, Removing, Fallen, Holds
<1>12. CASE DeleteDir(r)
  <2>1. pc[r] = "deleteDir" /\ Goes(r, "deleteRecord", loc[r]) /\ SameStore /\ res' = res /\ Recalls
    BY <1>12, DeleteDirDoes DEF Recalls
  <2>2. QED
    BY <2>1, NoRes, MovesOn DEF Goes, Moving, Moved, Removing, Fallen
<1>13. CASE DeleteRecord(r)
  <2>1. pc[r] = "deleteRecord" /\ Ends(r) /\ SameHost /\ Recalls /\ used' = used
    BY <1>13, DeleteRecordDoes
  <2>2. CASE SameStore /\ <<"halfDeleted", loc[r].id>> \in causes'
    BY <2>1, <2>2, NoRes DEF Ends, Goes, MoveStep, Dropped, Moving, Moved, Removing, Fallen, Holds, Marked
  <2>3. CASE ~(SameStore /\ <<"halfDeleted", loc[r].id>> \in causes')
    <3>1. Removes(r)
      BY <1>13, <2>1, <2>3, DeleteRecordDoes DEF Removes, Ends, Goes
    <3>2. QED
      BY <2>1, <3>1, NoRes DEF Ends, Goes, MoveStep, Dropped, Moving, Moved, Removing, Fallen, Holds
  <2>4. QED
    BY <2>2, <2>3
<1>14. QED
  BY <1>1, <1>2, <1>3, <1>4, <1>5, <1>6, <1>7, <1>8, <1>9, <1>10, <1>11, <1>12, <1>13 DEF ChangeStep

LEMMA MonitorRes ==
  ASSUME Types, NEW i \in Monitors, MonitorStep(i)
  PROVE  ResStep(i) /\ MoveStep(i)
<1> USE DEF Building, Same, SameStore, SameHost
<1>1. CASE MonitorSeesIP(i) \/ MonitorTimesOut(i)
  BY <1>1, SeesIPDoes, TimesOutDoes, NoMove, NoRes DEF Goes, Ends, MovePcs, Recalls
<1>2. CASE MonitorReserves(i)
  <2>1. pc[i] = "fallback" /\ SameStore /\ causes' = causes /\ loc[i].id = i /\ loc[i].ip \in Addrs /\ Name(i) \in Names
    BY <1>2, ReservesDoes
  <2>2. CASE res' = res /\ Ends(i)
    BY <2>1, <2>2, NoMove, NoRes DEF Ends, Goes, MovePcs, Recalls
  <2>3. CASE ~(res' = res /\ Ends(i))
    <3>1. PICK a \in Addrs : a = loc[i].ip
      BY <2>1
    <3>2. CanReserve(a, i, Name(i)) /\ res' = [res EXCEPT ![a] = [id |-> i, name |-> Name(i)]] /\ Goes(i, "bounce", loc[i])
      BY <1>2, <2>3, <3>1, ReservesDoes
    <3>3. i \in used
      BY <2>1, MonitorHas
    <3>4. res[a].id = NoID /\ res'[a].id = i /\ \A b \in Addrs : res[b].id # i /\ (b # a => res'[b] = res[b])
      BY <2>1, <3>2, <3>3, ReserveDoes
    <3>5. loc[i].op = "monitor" /\ pc'[i] = "bounce" /\ loc'[i] = loc[i]
      BY <2>1, <3>2, MonitorHas DEF Goes
    <3>6. ResStep(i)
      BY <2>1, <3>1, <3>4, <3>5 DEF ResStep, Fallen
    <3>7. MoveStep(i)
      BY <2>1, <3>1, <3>4, <3>5 DEF MoveStep, Dropped, Moving, Moved, Removing, Fallen, Holds
    <3>8. QED
      BY <3>6, <3>7
  <2>4. QED
    BY <2>2, <2>3
<1>3. CASE MonitorBounces(i)
  <2>1. pc[i] = "bounce" /\ SameStore /\ res' = res /\ Recalls /\ loc[i].id = i /\ loc[i].op = "monitor"
    BY <1>3, BouncesDoes, MonitorHas
  <2>2. CASE Goes(i, "ping", loc[i])
    BY <2>1, <2>2, NoRes, MovesOn DEF Goes, Moving, Moved, Removing, Fallen
  <2>3. CASE Ends(i) /\ <<"monitor", i>> \in causes'
    BY <2>1, <2>3, NoRes, Constants DEF Ends, Goes, MoveStep, Dropped, Moving, Moved, Removing, Fallen, Holds, Marked
  <2>4. QED
    BY <1>3, <2>2, <2>3, BouncesDoes
<1>4. CASE MonitorPings(i)
  <2>1. pc[i] = "ping" /\ SameStore /\ res' = res /\ Recalls /\ loc[i].id = i /\ loc[i].op = "monitor"
    BY <1>4, PingsDoes, MonitorHas
  <2>2. CASE Goes(i, "monitorPut", [loc[i] EXCEPT !.vm = rec[i]])
    <3>1. pc'[i] = "monitorPut" /\ loc'[i].id = i /\ loc'[i].ip = loc[i].ip /\ loc'[i].op = "monitor"
      BY <2>1, <2>2, Fields DEF Goes
    <3>2. QED
      BY <2>1, <3>1, NoRes DEF MoveStep, Dropped, Moving, Moved, Removing, Fallen, Holds
  <2>3. CASE Ends(i) /\ <<"monitor", i>> \in causes'
    BY <2>1, <2>3, NoRes, Constants DEF Ends, Goes, MoveStep, Dropped, Moving, Moved, Removing, Fallen, Holds, Marked
  <2>4. QED
    BY <1>4, <2>2, <2>3, PingsDoes
<1>5. CASE MonitorPuts(i)
  <2>1. /\ pc[i] = "monitorPut" /\ pc'[i] = "idle" /\ loc'[i] = NoWork /\ Others(i) /\ res' = res /\ Recalls
        /\ used' = used /\ loc[i].id = i /\ loc[i].op = "monitor"
    BY <1>5, PutsDoes, MonitorHas DEF Ends, Goes
  <2>2. CASE SameStore /\ <<"monitor", i>> \in causes'
    BY <2>1, <2>2, NoRes DEF MoveStep, Dropped, Moving, Moved, Removing, Fallen, Holds, Marked
  <2>3. CASE ~(SameStore /\ <<"monitor", i>> \in causes')
    <3>1. Written(i, [loc[i].vm EXCEPT !.ip = loc[i].ip]) /\ (Overwrites(i) => <<"stale", i>> \in causes')
      BY <1>5, <2>3, PutsDoes
    <3> DEFINE v == [loc[i].vm EXCEPT !.ip = loc[i].ip]
    <3>0. v \in Record /\ v.name = Name(i) /\ v.ip = loc[i].ip
      BY <2>1, InHand DEF Task, Record, Name, Asking
    <3> HIDE DEF v
    <3>2. PICK vm \in Record : vm = v /\ vm.name = Name(i) /\ vm.ip = loc[i].ip
      BY <3>0
    <3>3. i \in used
      BY <2>1, MonitorHas
    <3>4. Writes(i)
      BY <2>1, <3>1, <3>2 DEF Writes, Asking, v
    <3>5. rec'[i].ip = loc[i].ip
      BY <3>1, <3>2, <3>3, WriteEffect DEF v
    <3>6. QED
      BY <2>1, <3>4, <3>5, NoRes DEF MoveStep, Dropped, Moving, Moved, Removing, Fallen, Holds
  <2>4. QED
    BY <2>2, <2>3
<1>6. QED
  BY <1>1, <1>2, <1>3, <1>4, <1>5 DEF MonitorStep

\* A step of x, from a state in which all of this holds.
Acts(x) ==
  /\ Types /\ Types' /\ Tracked /\ Reserved /\ causes \subseteq causes'
  /\ ActorStep(x) /\ DirStep(x) /\ ResStep(x) /\ MoveStep(x)

\* The others keep what they have.
LEMMA Watch ==
  ASSUME NEW x \in Actors, Acts(x), NEW y \in Actors \ {x}
  PROVE  /\ (Moving(y)' <=> Moving(y)) /\ (Moved(y)' <=> Moved(y)) /\ (Removing(y)' <=> Removing(y))
         /\ (Fallen(y)' <=> Fallen(y)) /\ (Building(y)' <=> Building(y))
         /\ (Dropped(y)' <=> Dropped(y)) /\ (Holds(y)' <=> Holds(y))
         /\ loc[y].id # NoID => pc'[y] = pc[y] /\ loc'[y] = loc[y]
         /\ Dropped(y) \/ Holds(y) \/ Building(y) => loc[y].id # NoID /\ pc'[y] = pc[y] /\ loc'[y] = loc[y]
<1> USE DEF Moving, Moved, Removing, Fallen, Building, Dropped, Holds
<1>1. CASE pc'[y] = pc[y] /\ loc'[y] = loc[y]
  BY <1>1, HasID DEF Acts, Asking
<1>2. CASE pc[y] = "idle" /\ loc[y] = NoWork /\ pc'[y] \in {"idle", "wait"}
  BY <1>2, Constants DEF Acts
<1>3. QED
  BY <1>1, <1>2, Bystanders DEF Acts

\* Who has the VM in hand that x has.
LEMMA Sharing ==
  ASSUME NEW x \in Actors, Acts(x), NEW y \in Actors \ {x}, loc[y].id = loc[x].id, loc[x].id # NoID
  PROVE  ~Building(x) /\ ~Building(y) /\ ~Stores(x)
BY DEF Acts, Tracked, Exclusive, Stores, Building

\* Once the record is written or removed, every other copy of it is stale.
LEMMA Overtaken ==
  ASSUME NEW x \in Actors, Acts(x), NEW y \in Actors \ {x}, loc[y].id = loc[x].id, loc[x].id # NoID,
         Writes(x) \/ Removes(x)
  PROVE  Overwrites(y)'
<1>1. loc'[y] = loc[y] /\ loc[x].id \in IDs /\ loc[x].id \in used
  BY Watch, HasID DEF Acts
<1>2. PICK i \in used : i = loc[x].id /\ i \in IDs
  BY <1>1
<1>3. CASE Removes(x)
  <2>1. i \notin stored'
    BY <1>2, <1>3 DEF Removes, Deleted
  <2>2. QED
    BY <1>1, <1>2, <2>1 DEF Overwrites
<1>4. CASE Writes(x)
  <2>1. PICK vm \in Record : Written(i, vm)
    BY <1>2, <1>4 DEF Writes
  <2>2. rec'[i].updated = rec[i].updated + 1 /\ loc[y].vm.updated <= rec[i].updated
    BY <1>2, <2>1, WriteEffect DEF Acts, Tracked, Versions
  <2>3. rec[i].updated \in Nat /\ loc[y].vm.updated \in Nat
    BY <1>2, HasID DEF Acts
  <2>4. rec'[i] # loc[y].vm
    BY <2>2, <2>3
  <2>5. QED
    BY <1>1, <1>2, <2>4 DEF Overwrites
<1>5. QED
  BY <1>3, <1>4

\* What a step does to the records.
LEMMA OtherRecords ==
  ASSUME NEW x \in Actors, Acts(x), NEW j \in IDs, j # loc[x].id \/ ~(Writes(x) \/ Removes(x) \/ Stores(x))
  PROVE  (j \in stored' <=> j \in stored) /\ rec'[j] = rec[j]
<1>1. CASE SameStore
  BY <1>1 DEF SameStore
<1>2. CASE (Writes(x) \/ Removes(x) \/ Stores(x)) /\ j # loc[x].id
  <2>1. PICK i \in used : i = loc[x].id /\ i \in IDs
    BY <1>2, HasID DEF Acts, Writes, Removes, Stores, Asking
  <2>2. CASE Writes(x)
    <3>1. PICK vm \in Record : Written(i, vm)
      BY <2>1, <2>2 DEF Writes
    <3>2. QED
      BY <1>2, <2>1, <3>1, WriteEffect DEF Acts
  <2>3. CASE Removes(x)
    <3>1. Deleted(i)
      BY <2>1, <2>3 DEF Removes
    <3>2. QED
      BY <1>2, <2>1, <3>1, DeleteEffect DEF Acts
  <2>4. CASE Stores(x)
    <3>1. Written(i, loc[x].vm) /\ loc[x].vm \in Record
      BY <2>1, <2>4, HasID DEF Stores, Acts
    <3>2. QED
      BY <1>2, <2>1, <3>1, WriteEffect DEF Acts
  <2>5. QED
    BY <1>2, <2>2, <2>3, <2>4
<1>3. QED
  BY <1>1, <1>2 DEF Acts, MoveStep

LEMMA OverwritesKept ==
  ASSUME NEW x \in Actors, Acts(x), NEW y \in Actors \ {x}, loc[y].id # NoID, Overwrites(y)
  PROVE  Overwrites(y)'
<1>1. loc'[y] = loc[y] /\ loc[y].id \in IDs
  BY Watch, HasID DEF Acts
<1>2. CASE loc[y].id = loc[x].id /\ (Writes(x) \/ Removes(x))
  BY <1>2, Overtaken
<1>3. CASE ~(loc[y].id = loc[x].id /\ (Writes(x) \/ Removes(x)))
  <2>1. loc[y].id # loc[x].id \/ ~(Writes(x) \/ Removes(x) \/ Stores(x))
    BY <1>3, Sharing
  <2>2. PICK j \in IDs : j = loc[y].id
    BY <1>1
  <2>3. (j \in stored' <=> j \in stored) /\ rec'[j] = rec[j]
    BY <2>1, <2>2, OtherRecords
  <2>4. QED
    BY <1>1, <2>2, <2>3 DEF Overwrites
<1>4. QED
  BY <1>2, <1>3

\* A copy that x goes on with is as stale as before.
LEMMA SinksOn ==
  ASSUME NEW x \in Actors, Acts(x), Dropped(x)', Overwrites(x)
  PROVE  Sinking(x)' /\ loc'[x].id = loc[x].id
BY DEF Acts, MoveStep, SameStore, Sinking, Overwrites

\* Where x stops, it leaves a cause, writes or removes the record.
LEMMA Sunk ==
  ASSUME NEW x \in Actors, Acts(x), NEW j \in IDs, j = loc[x].id, Removing(x) \/ Sinking(x)
  PROVE  Doomed(j)'
<1>1. CASE Dropped(x)' /\ Removing(x)
  BY <1>1 DEF Acts, MoveStep, Doomed, Dropped, Moving, Removing
<1>2. CASE Dropped(x)' /\ Overwrites(x)
  BY <1>2, SinksOn DEF Doomed
<1>3. CASE ~Dropped(x)' /\ Removing(x)
  <2>1. Marked(j, {"halfDeleted"}) \/ Removes(x)
    BY <1>3 DEF Acts, MoveStep, Dropped
  <2>2. Removes(x) => j \notin stored'
    BY DEF Removes, Deleted
  <2>3. QED
    BY <2>1, <2>2 DEF Marked, Doomed, HasCause, Lost
<1>4. CASE ~Dropped(x)' /\ Moving(x) /\ Overwrites(x)
  <2>1. Marked(j, {"update"}) \/ Writes(x)
    BY <1>4 DEF Acts, MoveStep, Dropped
  <2>2. Writes(x) => Marked(j, {"stale"})
    BY <1>4 DEF Writes, Marked
  <2>3. QED
    BY <2>1, <2>2 DEF Marked, Doomed, HasCause, Lost
<1>5. QED
  BY <1>1, <1>2, <1>3, <1>4 DEF Sinking, Dropped

LEMMA DoomedKept ==
  ASSUME NEW x \in Actors, Acts(x), NEW j \in IDs, Doomed(j),
         j \in stored \/ \E y \in Actors : ~Building(y) /\ loc[y].id = j
  PROVE  Doomed(j)'
<1>1. CASE HasCause(j, Lost)
  BY <1>1 DEF Doomed, HasCause, Acts
<1>2. CASE j \notin stored
  <2>1. CASE j \notin stored'
    BY <2>1 DEF Doomed
  <2>2. CASE j \in stored'
    <3>1. j = loc[x].id /\ (Writes(x) \/ Removes(x) \/ Stores(x))
      BY <1>2, <2>2, OtherRecords
    <3>2. ~Removes(x)
      BY <2>2, <3>1 DEF Removes, Deleted
    <3>3. ~Stores(x)
      <4>1. PICK y \in Actors : ~Building(y) /\ loc[y].id = j
        BY <1>2
      <4>2. CASE y = x
        BY <4>1, <4>2 DEF Stores, Building
      <4>3. CASE y # x
        BY <3>1, <4>1, <4>3, Sharing, IdentityAssumption
      <4>4. QED
        BY <4>2, <4>3
    <3>4. Overwrites(x)
      BY <1>2, <3>1 DEF Overwrites
    <3>5. QED
      BY <3>1, <3>2, <3>3, <3>4 DEF Writes, Doomed, HasCause, Lost
  <2>3. QED
    BY <2>1, <2>2
<1>3. ASSUME NEW y \in Actors, loc[y].id = j, Removing(y) \/ Sinking(y)
      PROVE  Doomed(j)'
  <2>1. CASE y = x
    BY <1>3, <2>1, Sunk
  <2>2. CASE y # x
    <3>1. loc'[y] = loc[y] /\ loc[y].id # NoID /\ (Removing(y)' <=> Removing(y)) /\ (Dropped(y)' <=> Dropped(y))
      BY <1>3, <2>2, Watch, IdentityAssumption
    <3>2. Overwrites(y) => Overwrites(y)'
      BY <2>2, <3>1, OverwritesKept
    <3>3. QED
      BY <1>3, <3>1, <3>2 DEF Doomed, Sinking
  <2>3. QED
    BY <2>1, <2>2
<1>4. QED
  BY <1>1, <1>2, <1>3 DEF Doomed

\* Another update or removal of the VM whose record is written is doomed.
LEMMA Outrun ==
  ASSUME NEW x \in Actors, Acts(x), NEW y \in Actors \ {x}, NEW j \in IDs, j = loc[x].id, j = loc[y].id,
         Dropped(y), Writes(x) \/ Removes(x)
  PROVE  Doomed(j)'
<1>1. Overwrites(y)' /\ Dropped(y)' /\ loc'[y].id = j
  BY Overtaken, Watch, IdentityAssumption
<1>2. QED
  BY <1>1 DEF Doomed, Sinking

-----------------------------------------------------------------------------
(* One part of Reserved after another. *)

LEMMA ActorOneAddress ==
  ASSUME NEW x \in Actors, Acts(x)
  PROVE  OneAddress'
<1>1. SUFFICES ASSUME NEW a \in Addrs, NEW b \in Addrs, res'[a].id # NoID, res'[a].id = res'[b].id, a # b PROVE FALSE
  BY DEF OneAddress
<1>2. ASSUME NEW c \in Addrs, NEW d \in Addrs, res'[c].id # NoID, res'[c].id = res'[d].id, c # d,
             res'[c].id # res[c].id
      PROVE  FALSE
  <2>1. res'[c].id = loc[x].id /\ res[d].id # loc[x].id /\ res'[d] = res[d]
    BY <1>2 DEF Acts, ResStep
  <2>2. QED
    BY <1>2, <2>1
<1>3. res'[a].id = res[a].id /\ res'[b].id = res[b].id
  BY <1>1, <1>2
<1>4. QED
  BY <1>1, <1>3 DEF Acts, Reserved, OneAddress

LEMMA ActorStatic ==
  ASSUME NEW x \in Actors, Acts(x)
  PROVE  Static'
<1>1. ASSUME NEW j, <<"static", j>> \in causes', <<"static", j>> \notin causes
      PROVE  ~Building(x) /\ Building(x)' /\ j = loc'[x].id /\ loc'[x].vm.ip # NoIP /\ j \notin used /\ j \in used'
  <2>1. ~Building(x) /\ Building(x)' /\ j = loc'[x].id /\ loc'[x].vm.ip # NoIP /\ loc'[x].id \notin used
    BY <1>1 DEF Acts, ResStep
  <2>2. loc'[x].id \in used'
    <3>1. Fits(x, pc[x], loc[x])'
      BY DEF Acts, Types, Shaped
    <3>2. QED
      BY <2>1, <3>1 DEF Fits, Building
  <2>3. QED
    BY <2>1, <2>2
<1>2. ASSUME NEW m \in Monitors, pc'[m] # "idle"
      PROVE  <<"static", m>> \notin causes'
  <2>1. CASE pc[m] # "idle"
    <3>1. <<"static", m>> \notin causes /\ m \in used
      BY <2>1, MonitorHas DEF Acts, Reserved, Static
    <3>2. QED
      BY <1>1, <3>1
  <2>2. CASE pc[m] = "idle"
    <3>1. m # x
      BY <1>2, <2>2, IdentityAssumption DEF Acts, ActorStep, Continues, Stops, Writes
    <3>2. Stores(x) /\ m = loc[x].id /\ loc[x].vm.ip = NoIP
      BY <1>2, <2>2, <3>1, Bystanders DEF Acts
    <3>3. Building(x)
      BY <3>2 DEF Stores, Building
    <3>4. <<"static", m>> \notin causes
      BY <3>2, <3>3 DEF Acts, Reserved, Static
    <3>5. QED
      BY <1>1, <3>3, <3>4
  <2>3. QED
    BY <2>1, <2>2
<1>3. ASSUME NEW y \in Actors, Building(y)', <<"static", loc'[y].id>> \in causes'
      PROVE  loc'[y].vm.ip # NoIP
  <2>1. CASE y # x
    <3>1. Building(y) /\ loc'[y] = loc[y] /\ loc[y].id \in used
      BY <1>3, <2>1, Watch, HasID DEF Acts
    <3>2. <<"static", loc[y].id>> \in causes
      BY <1>1, <1>3, <3>1
    <3>3. QED
      BY <3>1, <3>2 DEF Acts, Reserved, Static
  <2>2. CASE y = x /\ ~Building(x)
    <3>1. loc'[x].id \notin used
      BY <1>3, <2>2 DEF Acts, ResStep
    <3>2. <<"static", loc'[x].id>> \notin causes
      BY <3>1 DEF Acts, Reserved, Static
    <3>3. QED
      BY <1>1, <1>3, <2>2, <3>2
  <2>3. CASE y = x /\ Building(x)
    <3>1. <<"static", loc'[x].id>> \in causes
      BY <1>1, <1>3, <2>3
    <3>2. loc'[x].id = loc[x].id /\ (loc[x].vm.ip # NoIP => loc'[x].vm.ip = loc[x].vm.ip)
      BY <1>3, <2>3 DEF Acts, ResStep
    <3>3. QED
      BY <2>3, <3>1, <3>2 DEF Acts, Reserved, Static
  <2>4. QED
    BY <2>1, <2>2, <2>3
<1>4. ASSUME NEW j, <<"static", j>> \in causes'
      PROVE  j \in used'
  <2>1. used \subseteq used'
    BY Bystanders DEF Acts, ActorStep, Continues, Stops, Writes, Asks, Copies, Registers, Stores, Removes, Kept
  <2>2. QED
    BY <1>1, <1>4, <2>1 DEF Acts, Reserved, Static
<1>5. QED
  BY <1>2, <1>3, <1>4 DEF Static

\* Nobody else takes the reservation of a VM that is being built, but by its name.
LEMMA ActorResBuilt ==
  ASSUME NEW x \in Actors, Acts(x)
  PROVE  ResBuilt'
<1>1. ASSUME NEW y \in Actors, Building(y)', y # x, NEW k, k = loc'[y].id
      PROVE  /\ \A a \in Addrs : res'[a].id = k => loc'[y].vm.ip = a
             /\ loc'[y].vm.ip = NoIP \/ res'[loc'[y].vm.ip].id = k \/ HasCause(k, {"byname", "static"})'
  <2>1. Building(y) /\ loc'[y] = loc[y] /\ k = loc[y].id /\ k # NoID /\ k # loc[x].id
    BY <1>1, Watch, Sharing DEF Acts
  <2>2. /\ \A a \in Addrs : res[a].id = k => loc[y].vm.ip = a
        /\ loc[y].vm.ip = NoIP \/ res[loc[y].vm.ip].id = k \/ HasCause(k, {"byname", "static"})
    BY <2>1 DEF Acts, Reserved, ResBuilt
  <2>3. ASSUME NEW a \in Addrs PROVE res'[a].id = k => res[a].id = k
    BY <2>1 DEF Acts, ResStep
  <2>4. ASSUME NEW a \in Addrs, res[a].id = k, res'[a].id # k PROVE HasCause(k, {"byname", "static"})'
    <3>1. Marked(k, {"byname"})
      BY <2>1, <2>4 DEF Acts, ResStep
    <3>2. QED
      BY <3>1 DEF Marked, HasCause
  <2>5. loc[y].vm.ip \in Addrs \cup {NoIP}
    BY HasID DEF Acts, Record
  <2>6. HasCause(k, {"byname", "static"}) => HasCause(k, {"byname", "static"})'
    BY DEF HasCause, Acts
  <2>7. QED
    BY <2>1, <2>2, <2>3, <2>4, <2>5, <2>6
<1>2. ASSUME Building(x)', NEW k, k = loc'[x].id
      PROVE  /\ \A a \in Addrs : res'[a].id = k => loc'[x].vm.ip = a
             /\ loc'[x].vm.ip = NoIP \/ res'[loc'[x].vm.ip].id = k \/ HasCause(k, {"byname", "static"})'
  <2>1. CASE ~Building(x)
    <3>1. k \notin used /\ (loc'[x].vm.ip = NoIP \/ Marked(k, {"static"}))
      BY <1>2, <2>1 DEF Acts, ResStep
    <3>2. k \in used'
      <4>1. Fits(x, pc[x], loc[x])'
        BY DEF Acts, Types, Shaped
      <4>2. QED
        BY <1>2, <4>1 DEF Fits, Building
    <3>3. k # NoID
      BY <3>2, IdentityAssumption DEF Acts, Types, Values
    <3>4. loc[x].id # k
      BY <3>1, <3>3, HasID DEF Acts
    <3>5. ASSUME NEW a \in Addrs PROVE res'[a].id # k
      <4>1. res[a].id # k
        BY <3>1, <3>3, Typed DEF Acts
      <4>2. QED
        BY <3>3, <3>4, <4>1 DEF Acts, ResStep
    <3>6. QED
      BY <3>1, <3>5 DEF Marked, HasCause
  <2>2. CASE Building(x)
    <3>1. k = loc[x].id /\ k # NoID /\ pc[x] \notin {"undoHost", "oldAddress", "deleteHost"}
      BY <1>2, <2>2, HasID DEF Acts, ResStep, Building
    <3>2. /\ \A a \in Addrs : res[a].id = k => loc[x].vm.ip = a
          /\ loc[x].vm.ip = NoIP \/ res[loc[x].vm.ip].id = k \/ HasCause(k, {"byname", "static"})
      BY <2>2, <3>1 DEF Acts, Reserved, ResBuilt
    <3>3. CASE loc'[x].vm.ip = loc[x].vm.ip
      <4>1. ASSUME NEW a \in Addrs, res'[a].id = k PROVE loc'[x].vm.ip = a
        <5>1. CASE res[a].id = k
          BY <3>2, <3>3, <5>1
        <5>2. CASE res[a].id # k
          <6>1. ~Moved(x)' /\ ~Fallen(x)'
            <7>1. Fits(x, pc[x], loc[x])'
              BY DEF Acts, Types, Shaped
            <7>2. QED
              BY <1>2, <7>1 DEF Fits, Building, Moved, Fallen, Stages
          <6>2. QED
            BY <3>1, <4>1, <5>2, <6>1 DEF Acts, ResStep
        <5>3. QED
          BY <5>1, <5>2
      <4>2. ASSUME NEW a \in Addrs, res[a].id = k, res'[a].id # k PROVE HasCause(k, {"byname", "static"})'
        <5>1. Marked(k, {"byname"})
          BY <3>1, <4>2 DEF Acts, ResStep
        <5>2. QED
          BY <5>1 DEF Marked, HasCause
      <4>3. loc[x].vm.ip \in Addrs \cup {NoIP}
        BY HasID DEF Acts, Record
      <4>4. HasCause(k, {"byname", "static"}) => HasCause(k, {"byname", "static"})'
        BY DEF HasCause, Acts
      <4>5. QED
        BY <3>2, <3>3, <4>1, <4>2, <4>3, <4>4
    <3>4. CASE loc'[x].vm.ip # loc[x].vm.ip
      <4>1. loc'[x].vm.ip \in Addrs /\ res'[loc'[x].vm.ip].id = k
        BY <1>2, <2>2, <3>1, <3>4 DEF Acts, ResStep
      <4>2. QED
        BY <3>1, <4>1, ActorOneAddress DEF OneAddress
    <3>5. QED
      BY <3>3, <3>4
  <2>3. QED
    BY <2>1, <2>2
<1>3. QED
  BY <1>1, <1>2 DEF ResBuilt

LEMMA WritesOnly ==
  ASSUME NEW x \in Actors, Acts(x), Writes(x)
  PROVE  ~SameStore /\ ~Stores(x) /\ ~Removes(x) /\ loc[x].id \in stored'
<1>1. PICK i \in used : i = loc[x].id /\ i \in IDs
  BY HasID DEF Acts, Writes
<1>2. PICK vm \in Record : Written(i, vm)
  BY <1>1 DEF Writes
<1>3. i \in stored' /\ rec'[i].updated = rec[i].updated + 1 /\ rec[i].updated \in Nat
  <2>1. stored' = stored \cup {i} /\ rec'[i].updated = rec[i].updated + 1
    BY <1>2, WriteEffect DEF Acts
  <2>2. rec[i].updated \in Nat
    BY <1>1, HasID DEF Acts
  <2>3. QED
    BY <2>1, <2>2
<1>4. ~SameStore
  BY <1>3 DEF SameStore
<1>5. QED
  BY <1>1, <1>3, <1>4 DEF Writes, Stores, Building, Removes, Deleted

\* Who takes a reservation away.
LEMMA Taken ==
  ASSUME NEW x \in Actors, Acts(x), NEW a \in Addrs, NEW k, k # NoID, res[a].id = k, res'[a].id # k
  PROVE  \/ Doomed(k)'
         \/ k = loc[x].id /\ a = loc[x].vm.ip /\ Building(x)
         \/ /\ k = loc[x].id /\ a = loc[x].vm.ip /\ pc[x] = "oldAddress" /\ ~Building(x) /\ SameStore
            /\ Moving(x)' /\ loc'[x].id = k /\ loc'[x].vm = loc[x].vm
<1>1. \/ Marked(k, {"byname"})
      \/ k = loc[x].id /\ a = loc[x].vm.ip /\ pc[x] \in {"undoHost", "oldAddress", "deleteHost"}
  BY DEF Acts, ResStep
<1>2. CASE Marked(k, {"byname"})
  BY <1>2 DEF Marked, Doomed, HasCause, Lost
<1>3. CASE k = loc[x].id /\ a = loc[x].vm.ip /\ pc[x] = "undoHost"
  BY <1>3 DEF Building
<1>4. CASE k = loc[x].id /\ a = loc[x].vm.ip /\ pc[x] = "oldAddress"
  BY <1>4 DEF Acts, MoveStep, Dropped, Building
<1>5. CASE k = loc[x].id /\ a = loc[x].vm.ip /\ pc[x] = "deleteHost"
  <2>1. Removing(x)' /\ loc'[x].id = k
    BY <1>5 DEF Acts, MoveStep, Dropped
  <2>2. QED
    BY <2>1 DEF Doomed
<1>6. QED
  BY <1>1, <1>2, <1>3, <1>4, <1>5

\* The update that drops a reservation while a copy says otherwise than the record.
LEMMA DropsStale ==
  ASSUME NEW x \in Actors, Acts(x), NEW k, k = loc[x].id, Overwrites(x), Moving(x)'
  PROVE  Doomed(k)'
<1>1. Sinking(x)' /\ loc'[x].id = k
  BY SinksOn DEF Dropped
<1>2. QED
  BY <1>1 DEF Doomed

LEMMA ActorResMoved ==
  ASSUME NEW x \in Actors, Acts(x)
  PROVE  ResMoved'
<1>1. ASSUME NEW y \in Actors, Moved(y), Moved(y)', loc'[y].id = loc[y].id, loc'[y].ip = loc[y].ip, loc'[y].vm = loc[y].vm,
             NEW k, k = loc[y].id
      PROVE  /\ loc'[y].ip \in Addrs /\ loc'[y].ip # loc'[y].vm.ip
             /\ Doomed(k)' \/ res'[loc'[y].ip].id = k
  <2>1. /\ loc[y].ip \in Addrs /\ loc[y].ip # loc[y].vm.ip
        /\ Doomed(k) \/ res[loc[y].ip].id = k
    BY <1>1 DEF Acts, Reserved, ResMoved
  <2>2. ~Building(y) /\ k # NoID /\ k \in IDs
    BY <1>1, HasID DEF Acts, Moved, Building, Asking
  <2>3. CASE Doomed(k)
    BY <1>1, <2>1, <2>2, <2>3, DoomedKept
  <2>4. CASE res[loc[y].ip].id = k
    <3>1. SUFFICES ASSUME res'[loc[y].ip].id # k PROVE Doomed(k)'
      BY <1>1, <2>1
    <3>2. PICK a \in Addrs : a = loc[y].ip
      BY <2>1
    <3>3. \/ Doomed(k)'
          \/ k = loc[x].id /\ a = loc[x].vm.ip /\ Building(x)
          \/ /\ k = loc[x].id /\ a = loc[x].vm.ip /\ pc[x] = "oldAddress" /\ SameStore
             /\ Moving(x)' /\ loc'[x].id = k /\ loc'[x].vm = loc[x].vm
      BY <2>2, <2>4, <3>1, <3>2, Taken
    <3>4. CASE k = loc[x].id /\ a = loc[x].vm.ip /\ Building(x)
      BY <1>1, <2>2, <3>4, Sharing
    <3>5. CASE k = loc[x].id /\ a = loc[x].vm.ip /\ pc[x] = "oldAddress" /\ Moving(x)'
      <4>1. y # x /\ loc[x].vm # loc[y].vm
        BY <1>1, <2>1, <3>2, <3>5 DEF Moved
      <4>2. CASE Overwrites(x)
        BY <3>5, <4>2, DropsStale
      <4>3. CASE Overwrites(y)
        <5>1. Overwrites(y)'
          BY <1>1, <2>2, <4>1, <4>3, OverwritesKept
        <5>2. Sinking(y)'
          BY <1>1, <5>1 DEF Sinking, Dropped, Moved, Moving
        <5>3. QED
          BY <1>1, <5>2 DEF Doomed
      <4>4. QED
        BY <1>1, <3>5, <4>1, <4>2, <4>3 DEF Overwrites
    <3>6. QED
      BY <3>3, <3>4, <3>5
  <2>5. QED
    BY <2>1, <2>3, <2>4
<1>2. ASSUME NEW y \in Actors, Moved(y)', NEW k, k = loc'[y].id
      PROVE  /\ loc'[y].ip \in Addrs /\ loc'[y].ip # loc'[y].vm.ip
             /\ Doomed(k)' \/ res'[loc'[y].ip].id = k
  <2>1. CASE y # x
    <3>1. Moved(y) /\ loc'[y] = loc[y]
      BY <1>2, <2>1, Watch DEF Holds
    <3>2. QED
      BY <1>1, <1>2, <3>1
  <2>2. CASE y = x
    <3>1. loc'[x].id = loc[x].id /\ loc'[x].vm = loc[x].vm
      BY <1>2, <2>2 DEF Acts, MoveStep, Dropped, Moved, Moving
    <3>2. CASE Moved(x) /\ loc'[x].ip = loc[x].ip
      BY <1>1, <1>2, <2>2, <3>1, <3>2
    <3>3. CASE ~(Moved(x) /\ loc'[x].ip = loc[x].ip)
      BY <1>2, <2>2, <3>1, <3>3 DEF Acts, MoveStep
    <3>4. QED
      BY <3>2, <3>3
  <2>3. QED
    BY <2>1, <2>2
<1>3. QED
  BY <1>2 DEF ResMoved

\* A reservation goes with the address in the record until an update or a
\* delete drops it.
LEMMA ActorResBacked ==
  ASSUME NEW x \in Actors, Acts(x)
  PROVE  ResBacked'
<1> DEFINE Backed(j) == \/ Doomed(j) \/ <<"static", j>> \in causes \/ rec[j].ip = NoIP \/ res[rec[j].ip].id = j
                        \/ \E y \in Actors : loc[y].id = j /\ Dropped(y)
<1>1. ASSUME NEW j \in IDs, NEW a \in Addrs, a = rec'[j].ip, res[a].id = j
      PROVE  \/ res'[rec'[j].ip].id = j \/ Doomed(j)' \/ (Building(x) /\ j = loc[x].id)
             \/ \E y \in Actors : loc'[y].id = j /\ Dropped(y)'
  <2>1. CASE res'[a].id = j
    BY <1>1, <2>1
  <2>2. CASE res'[a].id # j
    <3>1. Doomed(j)' \/ (j = loc[x].id /\ Building(x)) \/ (Moving(x)' /\ loc'[x].id = j)
      BY <1>1, <2>2, Taken, IdentityAssumption
    <3>2. QED
      BY <3>1 DEF Dropped
  <2>3. QED
    BY <2>1, <2>2

\* The address in the record stays.
<1>2. ASSUME NEW j \in stored, j \in IDs, j \in stored', rec'[j].ip = rec[j].ip, j = loc[x].id => ~(Writes(x) /\ Holds(x))
      PROVE  \/ Doomed(j)' \/ <<"static", j>> \in causes' \/ rec'[j].ip = NoIP \/ res'[rec'[j].ip].id = j
             \/ \E y \in Actors : loc'[y].id = j /\ Dropped(y)'
  <2>1. Backed(j)
    BY DEF Acts, Reserved, ResBacked
  <2>2. CASE Doomed(j)
    BY <1>2, <2>2, DoomedKept
  <2>3. CASE <<"static", j>> \in causes
    BY <2>3 DEF Acts
  <2>4. CASE rec[j].ip = NoIP
    BY <1>2, <2>4
  <2>5. CASE rec[j].ip # NoIP /\ res[rec[j].ip].id = j
    <3>1. rec[j].ip \in Addrs
      BY <1>2, <2>5, HasID DEF Acts, Record
    <3>2. ~(Building(x) /\ j = loc[x].id)
      BY DEF Acts, Tracked, Exclusive
    <3>3. QED
      BY <1>1, <1>2, <2>5, <3>1, <3>2
  <2>6. ASSUME NEW y \in Actors, loc[y].id = j, Dropped(y)
        PROVE  Doomed(j)' \/ \E z \in Actors : loc'[z].id = j /\ Dropped(z)'
    <3>1. CASE y # x
      BY <2>6, <3>1, Watch
    <3>2. CASE y = x /\ Dropped(x)'
      BY <2>6, <3>2 DEF Acts, MoveStep
    <3>3. CASE y = x /\ ~Dropped(x)' /\ Moving(x)
      <4>1. Marked(j, {"update"})
        BY <1>2, <2>6, <3>3 DEF Acts, MoveStep, Dropped, Holds
      <4>2. QED
        BY <4>1 DEF Marked, Doomed, HasCause, Lost
    <3>4. CASE y = x /\ Removing(x)
      BY <1>2, <2>6, <3>4, Sunk
    <3>5. QED
      BY <2>6, <3>1, <3>2, <3>3, <3>4 DEF Dropped
  <2>7. QED
    BY <2>1, <2>2, <2>3, <2>4, <2>5, <2>6

\* The first record of a VM.
<1>3. ASSUME Stores(x), NEW j, j = loc[x].id
      PROVE  Doomed(j)' \/ <<"static", j>> \in causes' \/ rec'[j].ip = NoIP \/ res'[rec'[j].ip].id = j
  <2>1. Building(x) /\ j \in IDs /\ j \in used /\ pc[x] = "put" /\ loc[x].vm \in Record
    BY <1>3, HasID DEF Acts, Stores, Building
  <2>2. rec'[j].ip = loc[x].vm.ip
    BY <1>3, <2>1, WriteEffect DEF Acts, Stores
  <2>3. loc[x].vm.ip = NoIP \/ res[loc[x].vm.ip].id = j \/ HasCause(j, {"byname", "static"})
    BY <1>3, <2>1 DEF Acts, Reserved, ResBuilt
  <2>4. CASE loc[x].vm.ip # NoIP /\ res[loc[x].vm.ip].id = j
    <3>1. loc[x].vm.ip \in Addrs /\ j # NoID
      BY <2>1, <2>4, IdentityAssumption DEF Record
    <3>2. res'[loc[x].vm.ip].id # j => Marked(j, {"byname"})
      BY <2>1, <2>4, <3>1 DEF Acts, ResStep
    <3>3. QED
      BY <2>2, <3>2 DEF Marked, Doomed, HasCause, Lost
  <2>5. CASE HasCause(j, {"byname", "static"})
    BY <2>5 DEF Acts, HasCause, Doomed, Lost
  <2>6. QED
    BY <2>2, <2>3, <2>4, <2>5

\* A write of the address that an update or the monitor reserved.
<1>4. ASSUME Writes(x), Holds(x), NEW j, j = loc[x].id
      PROVE  Doomed(j)' \/ res'[rec'[j].ip].id = j
  <2>1. j \in IDs /\ j # NoID /\ ~Building(x) /\ pc[x] # "oldAddress"
    BY <1>4, HasID DEF Acts, Writes, Holds, Moved, Fallen
  <2>2. rec'[j].ip = loc[x].ip
    BY <1>4, WritesOnly DEF Acts, MoveStep
  <2>3. \/ Doomed(j)
        \/ loc[x].ip \in Addrs /\ res[loc[x].ip].id = j
        \/ \E y \in Actors \ {x} : loc[y].id = j /\ Moving(y)
    <3>1. CASE Moved(x)
      BY <1>4, <3>1 DEF Acts, Reserved, ResMoved
    <3>2. CASE Fallen(x)
      <4>1. loc[x].ip \in Addrs /\ ~Moving(x)
        BY <3>2, InHand DEF Acts, Fallen, Moving, Fits
      <4>2. QED
        BY <1>4, <3>2, <4>1 DEF Acts, Reserved, ResFallen
    <3>3. QED
      BY <1>4, <3>1, <3>2 DEF Holds
  <2>4. CASE Doomed(j)
    BY <1>4, <2>1, <2>4, DoomedKept
  <2>5. CASE loc[x].ip \in Addrs /\ res[loc[x].ip].id = j
    BY <2>1, <2>2, <2>5, Taken
  <2>6. ASSUME NEW y \in Actors \ {x}, loc[y].id = j, Moving(y) PROVE Doomed(j)'
    BY <1>4, <2>1, <2>6, Outrun DEF Dropped
  <2>7. QED
    BY <2>3, <2>4, <2>5, <2>6
<1>5. ASSUME NEW j \in stored'
      PROVE  \/ Doomed(j)' \/ <<"static", j>> \in causes' \/ rec'[j].ip = NoIP \/ res'[rec'[j].ip].id = j
             \/ \E y \in Actors : loc'[y].id = j /\ Dropped(y)'
  <2>1. j \in IDs
    BY DEF Acts, Types, Values
  <2>2. CASE j # loc[x].id \/ ~(Writes(x) \/ Removes(x) \/ Stores(x))
    <3>1. j \in stored /\ rec'[j] = rec[j]
      BY <2>1, <2>2, OtherRecords
    <3>2. QED
      BY <1>2, <2>1, <2>2, <3>1
  <2>3. CASE j = loc[x].id /\ Stores(x)
    BY <1>3, <2>3
  <2>4. CASE j = loc[x].id /\ Removes(x)
    BY <2>4 DEF Removes, Deleted
  <2>5. CASE j = loc[x].id /\ Writes(x) /\ Holds(x)
    BY <1>4, <2>5
  <2>6. CASE j = loc[x].id /\ Writes(x) /\ ~Holds(x)
    <3>1. CASE Overwrites(x)
      BY <2>6, <3>1 DEF Writes, Doomed, HasCause, Lost
    <3>2. CASE ~Overwrites(x)
      <4>1. j \in stored /\ rec[j] = loc[x].vm
        BY <2>6, <3>2 DEF Overwrites
      <4>2. rec'[j].ip = rec[j].ip
        BY <2>6, <4>1, WritesOnly DEF Acts, MoveStep
      <4>3. QED
        BY <1>2, <2>1, <2>6, <4>1, <4>2
    <3>3. QED
      BY <3>1, <3>2
  <2>7. QED
    BY <2>2, <2>3, <2>4, <2>5, <2>6
<1>6. QED
  BY <1>5 DEF ResBacked

\* A write of a copy that is not stale takes the address it says, or the one
\* that x reserved.
LEMMA WritesAddress ==
  ASSUME NEW x \in Actors, Acts(x), Writes(x), ~Overwrites(x), NEW k, k = loc[x].id
  PROVE  /\ k \in stored /\ k \in stored' /\ rec[k] = loc[x].vm
         /\ \/ Holds(x) /\ ~Holds(x)' /\ rec'[k].ip = loc[x].ip
            \/ ~Holds(x) /\ ~Dropped(x) /\ rec'[k].ip = rec[k].ip
BY WritesOnly DEF Acts, MoveStep, Overwrites

\* A monitor that has a fallback address is the only one with an address, or
\* updates of the address race.
LEMMA ActorResFallen ==
  ASSUME NEW x \in Actors, Acts(x)
  PROVE  ResFallen'
<1> DEFINE Alone(m, k) == \/ Doomed(k)'
                          \/ /\ res'[loc'[m].ip].id = k
                             /\ \A y \in Actors : loc'[y].id = k => ~Moved(y)'
                             /\ rec'[k].ip = NoIP \/ \E y \in Actors : loc'[y].id = k /\ Moving(y)'
                          \/ \E y, z \in Actors : y # z /\ loc'[y].id = k /\ loc'[z].id = k /\ Moving(y)' /\ Moving(z)'
<1>1. ASSUME NEW m \in Actors, Fallen(m), Fallen(m)', NEW k, k = loc[m].id, loc'[m].id = k, loc'[m].ip = loc[m].ip
      PROVE  Alone(m, k)
  <2>1. k \in IDs /\ k # NoID /\ ~Building(m) /\ loc[m].ip \in Addrs /\ ~Moving(m) /\ ~Moving(m)'
    BY <1>1, HasID, InHand DEF Acts, Fallen, Building, Asking, Fits, Moving
  <2>2. SUFFICES ASSUME ~Doomed(k)' PROVE Alone(m, k)
    OBVIOUS
  <2>3. ~Doomed(k)
    BY <1>1, <2>1, <2>2, DoomedKept
  <2>4. ~(Building(x) /\ k = loc[x].id)
    BY <1>1, <2>1, Sharing
  \* An update of the address that is under way stays so, for want of a cause.
  <2>5. ASSUME NEW z \in Actors, loc[z].id = k, Moving(z), z = x => ~Writes(x)
        PROVE  loc'[z].id = k /\ Moving(z)'
    <3>1. CASE z # x
      BY <2>5, <3>1, Watch DEF Dropped
    <3>2. CASE z = x /\ ~Moving(x)'
      <4>1. Marked(k, {"update"})
        BY <2>5, <3>2 DEF Acts, MoveStep
      <4>2. QED
        BY <2>2, <4>1 DEF Marked, Doomed, HasCause, Lost
    <3>3. CASE z = x /\ Moving(x)'
      BY <2>5, <3>3 DEF Acts, MoveStep, Dropped
    <3>4. QED
      BY <3>1, <3>2, <3>3
  <2>6. ASSUME NEW y \in Actors, NEW z \in Actors, y # z, loc[y].id = k, loc[z].id = k, Moving(y), Moving(z)
        PROVE  Alone(m, k)
    <3>1. ASSUME Writes(x), x \in {y, z} PROVE FALSE
      BY <2>1, <2>2, <2>6, <3>1, Outrun DEF Dropped
    <3>2. loc'[y].id = k /\ Moving(y)' /\ loc'[z].id = k /\ Moving(z)'
      BY <2>5, <2>6, <3>1
    <3>3. QED
      BY <2>6, <3>2
  <2>7. ASSUME res[loc[m].ip].id = k, \A y \in Actors : loc[y].id = k => ~Moved(y),
               rec[k].ip = NoIP \/ \E z \in Actors : loc[z].id = k /\ Moving(z)
        PROVE  Alone(m, k)
    <3>1. k \in stored /\ rec[k] \in Record
      BY <2>1, <2>3, HasID DEF Acts, Doomed
    <3>2. CASE res'[loc[m].ip].id # k
      <4>1. /\ k = loc[x].id /\ loc[m].ip = loc[x].vm.ip /\ pc[x] = "oldAddress"
            /\ Moving(x)' /\ loc'[x].id = k
        BY <2>1, <2>2, <2>4, <2>7, <3>2, Taken
      <4>2. ~Overwrites(x)
        BY <2>2, <4>1, DropsStale
      <4>3. rec[k].ip # NoIP
        BY <2>1, <4>1, <4>2, IdentityAssumption DEF Overwrites
      <4>4. PICK z \in Actors : loc[z].id = k /\ Moving(z)
        BY <2>7, <4>3
      <4>5. z # x
        BY <4>1, <4>4 DEF Moving
      <4>6. loc'[z].id = k /\ Moving(z)'
        BY <2>5, <4>4, <4>5
      <4>7. QED
        BY <4>1, <4>5, <4>6
    <3>3. CASE res'[loc[m].ip].id = k
      <4>1. ASSUME NEW y \in Actors, loc'[y].id = k, Moved(y)' PROVE FALSE
        <5>1. CASE y # x
          BY <2>7, <4>1, <5>1, Watch DEF Holds
        <5>2. CASE y = x
          <6>1. loc[x].id = k
            BY <4>1, <5>2 DEF Acts, MoveStep, Dropped, Moved, Moving
          <6>2. ~Moved(x)
            BY <2>7, <6>1
          <6>3. QED
            BY <2>1, <2>7, <4>1, <5>2, <6>1, <6>2 DEF Acts, MoveStep
        <5>3. QED
          BY <5>1, <5>2
      <4>2. ASSUME Writes(x), k = loc[x].id PROVE ~Holds(x) /\ rec'[k].ip = rec[k].ip
        <5>1. ~Overwrites(x)
          BY <2>2, <4>2 DEF Writes, Doomed, HasCause, Lost
        <5>2. CASE Holds(x) /\ ~Holds(x)'
          <6>1. Fallen(x) /\ x # m
            BY <1>1, <2>7, <4>2, <5>2 DEF Holds
          <6>2. loc[x].op = "monitor" /\ loc[m].op = "monitor"
            BY <1>1, <6>1, OpAt DEF Acts, Fallen
          <6>3. loc[x].id = x /\ loc[m].id = m
            BY <6>2, OpAt DEF Acts, Shaped, Fits
          <6>4. QED
            BY <1>1, <4>2, <6>1, <6>3
        <5>3. QED
          BY <4>2, <5>1, <5>2, WritesAddress
      <4>3. rec'[k].ip = rec[k].ip
        <5>1. CASE k # loc[x].id \/ ~(Writes(x) \/ Removes(x) \/ Stores(x))
          BY <2>1, <5>1, OtherRecords
        <5>2. CASE k = loc[x].id /\ Removes(x)
          BY <2>2, <5>2 DEF Removes, Deleted, Doomed
        <5>3. CASE k = loc[x].id /\ Stores(x)
          BY <2>4, <5>3 DEF Stores, Building
        <5>4. QED
          BY <4>2, <5>1, <5>2, <5>3
      <4>4. ASSUME NEW z \in Actors, loc[z].id = k, Moving(z) PROVE loc'[z].id = k /\ Moving(z)'
        <5>1. z = x => ~Writes(x)
          BY <2>3, <4>2, <4>4, <2>2, WritesAddress DEF Dropped, Writes, Doomed, HasCause, Lost
        <5>2. QED
          BY <2>5, <4>4, <5>1
      <4>5. QED
        BY <1>1, <2>7, <3>3, <4>1, <4>3, <4>4
    <3>4. QED
      BY <3>2, <3>3
  <2>8. QED
    BY <1>1, <2>3, <2>6, <2>7 DEF Acts, Reserved, ResFallen

\* It reserves: no update has an address reserved, or the monitor could not.
<1>2. ASSUME Fallen(x)', ~Fallen(x), NEW k, k = loc[x].id, loc'[x].id = k
      PROVE  Alone(x, k)
  <2>1. /\ SameStore /\ loc'[x].ip = loc[x].ip /\ loc[x].ip \in Addrs /\ res'[loc[x].ip].id = k
        /\ \A b \in Addrs : res[b].id # k
    BY <1>2 DEF Acts, MoveStep
  <2>2. SUFFICES ASSUME ~Doomed(k)' PROVE Alone(x, k)
    OBVIOUS
  <2>3. /\ loc'[x].op = "monitor" /\ x \in Monitors /\ loc'[x].id = x /\ ~Moving(x)' /\ ~Moved(x)'
        /\ ~Removing(x)' /\ pc'[x] # "idle"
    <3>1. pc'[x] \in {"bounce", "ping", "monitorPut"} /\ Fits(x, pc[x], loc[x])' /\ loc'[x] \in Task
      BY <1>2 DEF Fallen, Acts, Types, Values, Shaped
    <3>2. loc'[x].op = "monitor"
      BY <3>1 DEF Fits, Task, Stages
    <3>3. QED
      BY <3>1, <3>2 DEF Fits, Moving, Moved, Removing
  <2>4. k = x /\ k \in IDs /\ k # NoID /\ <<"static", k>> \notin causes' /\ ~Building(x)
    <3>1. k = x /\ k \in IDs /\ k # NoID
      BY <1>2, <2>3, IdentityAssumption
    <3>2. <<"static", k>> \notin causes'
      BY <2>3, <3>1, ActorStatic DEF Static
    <3>3. ~Building(x)
      BY <2>3, HasID, IdentityAssumption DEF Acts
    <3>4. QED
      BY <3>1, <3>2, <3>3
  <2>5. ~Doomed(k) /\ k \in stored
    <3>1. ~Doomed(k)
      BY <1>2, <2>2, <2>4, DoomedKept
    <3>2. QED
      BY <3>1 DEF Doomed
  <2>6. ASSUME NEW y \in Actors, loc'[y].id = k, Moved(y)' PROVE FALSE
    <3>1. y # x
      BY <2>3, <2>6
    <3>2. Moved(y) /\ loc[y].id = k
      BY <2>6, <3>1, Watch DEF Holds
    <3>3. QED
      BY <2>1, <2>5, <3>2 DEF Acts, Reserved, ResMoved
  <2>7. rec'[k].ip = NoIP \/ \E y \in Actors : loc'[y].id = k /\ Moving(y)'
    <3>1. rec'[k] = rec[k] /\ (rec[k].ip # NoIP => rec[k].ip \in Addrs)
      BY <2>1, <2>4, HasID DEF SameStore, Acts, Record
    <3>2. <<"static", k>> \notin causes
      BY <2>4 DEF Acts
    <3>3. \/ rec[k].ip = NoIP \/ \E y \in Actors : loc[y].id = k /\ Dropped(y)
      BY <2>1, <2>5, <3>1, <3>2 DEF Acts, Reserved, ResBacked
    <3>4. ASSUME NEW y \in Actors, loc[y].id = k, Dropped(y)
          PROVE  loc'[y].id = k /\ Moving(y)'
      <4>1. y # x
        <5>1. Dropped(x) => Dropped(x)'
          BY <2>1, <2>2, <2>4, <1>2, Sunk, WritesOnly DEF Acts, MoveStep, Dropped, Marked, Doomed, HasCause, Lost
        <5>2. QED
          BY <2>3, <3>4, <5>1 DEF Dropped
      <4>2. (Moving(y)' <=> Moving(y)) /\ (Removing(y)' <=> Removing(y)) /\ loc'[y] = loc[y]
        BY <3>4, <4>1, Watch
      <4>3. ~Removing(y)
        BY <2>2, <3>4, <4>2 DEF Doomed
      <4>4. QED
        BY <3>4, <4>2, <4>3 DEF Dropped
    <3>5. QED
      BY <3>1, <3>3, <3>4
  <2>8. QED
    BY <2>1, <2>6, <2>7
<1>3. ASSUME NEW m \in Actors, Fallen(m)', NEW k, k = loc'[m].id PROVE Alone(m, k)
  <2>1. CASE m # x
    <3>1. Fallen(m) /\ loc'[m] = loc[m]
      BY <1>3, <2>1, Watch DEF Holds
    <3>2. QED
      BY <1>1, <1>3, <3>1
  <2>2. CASE m = x
    <3>1. loc'[x].id = loc[x].id /\ loc'[x].ip = loc[x].ip
      BY <1>3, <2>2 DEF Acts, MoveStep
    <3>2. CASE Fallen(x)
      BY <1>1, <1>3, <2>2, <3>1, <3>2
    <3>3. CASE ~Fallen(x)
      BY <1>2, <1>3, <2>2, <3>1, <3>3
    <3>4. QED
      BY <3>2, <3>3
  <2>3. QED
    BY <2>1, <2>2
<1>4. QED
  BY <1>3 DEF ResFallen

\* Whoever holds an address goes on holding it, writes it, or leaves a cause.
LEMMA HeldOn ==
  ASSUME NEW x \in Actors, Acts(x), NEW z \in Actors, Holds(z), NEW a \in Addrs, a = loc[z].ip,
         NEW k, k = loc[z].id, res[a].id = k
  PROVE  \/ Holds(z)' /\ loc'[z].id = k /\ loc'[z].ip = a
         \/ HasCause(k, Left)'
         \/ z = x /\ Writes(x)
<1>1. CASE z # x
  BY <1>1, Watch
<1>2. CASE z = x /\ Fallen(x) /\ Fallen(x)'
  BY <1>2 DEF Acts, MoveStep, Holds
<1>3. CASE z = x /\ Fallen(x) /\ ~Fallen(x)'
  BY <1>3 DEF Acts, MoveStep, Marked, HasCause, Left
<1>4. CASE z = x /\ Moved(x) /\ Moved(x)'
  BY <1>4 DEF Acts, MoveStep, Holds, Moved, Moving, Dropped
<1>5. CASE z = x /\ Moved(x) /\ ~Moved(x)'
  <2>1. Marked(k, {"update"}) \/ Writes(x)
    BY <1>5 DEF Acts, MoveStep, Moved, Moving
  <2>2. QED
    BY <1>5, <2>1 DEF Marked, HasCause, Left, Lost
<1>6. QED
  BY <1>1, <1>2, <1>3, <1>4, <1>5 DEF Holds

LEMMA LeftKept ==
  ASSUME NEW x \in Actors, Acts(x), NEW k
  PROVE  HasCause(k, Left) => HasCause(k, Left)'
BY DEF Acts, HasCause

\* A new reservation belongs to a VM that is being built, or is held.
LEMMA Given ==
  ASSUME NEW x \in Actors, Acts(x), NEW a \in Addrs, NEW k, k # NoID, res'[a].id = k, res[a].id # k
  PROVE  /\ k = loc[x].id
         /\ \/ Building(x) /\ Building(x)' /\ loc'[x].id = k /\ loc'[x].vm.ip = a
            \/ ~Building(x) /\ Holds(x)' /\ loc'[x].id = k /\ loc'[x].ip = a
<1>1. /\ k = loc[x].id
      /\ \/ pc[x] = "add" /\ Building(x)' /\ loc'[x].vm.ip = a
         \/ Moved(x)' /\ loc'[x].ip = a
         \/ Fallen(x)' /\ loc'[x].ip = a
  BY DEF Acts, ResStep
<1>2. CASE pc[x] = "add" /\ Building(x)' /\ loc'[x].vm.ip = a
  BY <1>1, <1>2 DEF Acts, ResStep, Building
<1>3. CASE (Moved(x)' \/ Fallen(x)') /\ loc'[x].ip = a
  <2>1. loc'[x].id = k
    BY <1>1, <1>3 DEF Acts, MoveStep, Moved, Moving, Dropped
  <2>2. ~Building(x)
    <3>1. Fits(x, pc[x], loc[x])' /\ loc'[x] \in Task
      BY DEF Acts, Types, Values, Shaped
    <3>2. loc'[x].op \in {"readdress", "monitor"}
      BY <1>3, <3>1 DEF Moved, Fallen, Fits, Task, Stages
    <3>3. ~Building(x)'
      BY <1>3 DEF Moved, Fallen, Building
    <3>4. ASSUME Building(x) PROVE FALSE
      <4>1. x \in Requests /\ x \notin Monitors
        BY <3>4, HasID, IdentityAssumption DEF Acts
      <4>2. Moved(x)'
        BY <1>3, <3>1, <4>1 DEF Fallen, Fits, Task, Stages
      <4>3. Dropped(x)'
        BY <4>2 DEF Dropped, Moved, Moving
      <4>4. QED
        BY <3>4, <4>3 DEF Acts, MoveStep, Dropped, Moving, Removing, Building
    <3>5. QED
      BY <3>4
  <2>3. QED
    BY <1>1, <1>3, <2>1, <2>2 DEF Holds
<1>4. QED
  BY <1>1, <1>2, <1>3

\* A reservation that was dropped stays away, but by another's doing.
LEMMA ActorResDropped ==
  ASSUME NEW x \in Actors, Acts(x)
  PROVE  ResDropped'
<1> DEFINE Explained(y, a, k) == \/ HasCause(k, Left)' \/ Overwrites(y)'
                                 \/ \E z \in Actors : loc'[z].id = k /\ Holds(z)' /\ loc'[z].ip = a
<1>1. ASSUME NEW y \in Actors, Dropped(y)', Dropped(y), loc'[y].id = loc[y].id, loc'[y].vm = loc[y].vm,
             NEW a \in Addrs, a = loc[y].vm.ip, NEW k, k = loc[y].id, res'[a].id = k,
             y = x => SameStore
      PROVE  Explained(y, a, k)
  <2>1. k \in IDs /\ k # NoID /\ ~Building(y)
    BY <1>1, HasID DEF Acts, Dropped, Moving, Removing, Building, Asking
  <2>2. CASE res[a].id # k
    <3>1. k = loc[x].id /\ (Building(x) \/ (Holds(x)' /\ loc'[x].id = k /\ loc'[x].ip = a))
      BY <1>1, <2>1, <2>2, Given
    <3>2. ~Building(x)
      BY <1>1, <2>1, <3>1, Sharing
    <3>3. QED
      BY <3>1, <3>2
  <2>3. CASE HasCause(k, Left)
    BY <2>3, LeftKept
  <2>4. CASE Overwrites(y)
    <3>1. CASE y = x
      BY <1>1, <2>4, <3>1 DEF Overwrites, SameStore
    <3>2. CASE y # x
      BY <1>1, <2>1, <2>4, <3>2, OverwritesKept
    <3>3. QED
      BY <3>1, <3>2
  <2>5. ASSUME NEW z \in Actors, loc[z].id = k, Holds(z), loc[z].ip = a, res[a].id = k
        PROVE  Explained(y, a, k)
    <3>1. \/ Holds(z)' /\ loc'[z].id = k /\ loc'[z].ip = a
          \/ HasCause(k, Left)'
          \/ z = x /\ Writes(x)
      BY <2>5, HeldOn
    <3>2. CASE z = x /\ Writes(x)
      <4>1. y # x
        BY <1>1, <3>2, WritesOnly
      <4>2. QED
        BY <1>1, <2>1, <2>5, <3>2, <4>1, Overtaken
    <3>3. QED
      BY <3>1, <3>2
  <2>6. QED
    BY <1>1, <2>2, <2>3, <2>4, <2>5 DEF Acts, Reserved, ResDropped
<1>2. ASSUME NEW y \in Actors, NEW a \in Addrs, Dropped(y)', a = loc'[y].vm.ip, NEW k, k = loc'[y].id, res'[a].id = k
      PROVE  Explained(y, a, k)
  <2>1. CASE y # x
    <3>1. Dropped(y) /\ loc'[y] = loc[y]
      BY <1>2, <2>1, Watch
    <3>2. QED
      BY <1>1, <1>2, <2>1, <3>1
  <2>2. CASE y = x
    <3>1. loc'[x].id = loc[x].id /\ loc'[x].vm = loc[x].vm /\ SameStore
      BY <1>2, <2>2 DEF Acts, MoveStep
    <3>2. CASE Dropped(x)
      BY <1>1, <1>2, <2>2, <3>1, <3>2
    <3>3. CASE ~Dropped(x)
      <4>1. Marked(k, {"cleanup"})
        BY <1>2, <2>2, <3>1, <3>3 DEF Acts, MoveStep
      <4>2. QED
        BY <4>1 DEF Marked, HasCause, Left
    <3>4. QED
      BY <3>2, <3>3
  <2>3. QED
    BY <2>1, <2>2
<1>3. QED
  BY <1>2 DEF ResDropped

\* No reservation is left over.
LEMMA ActorResOwned ==
  ASSUME NEW x \in Actors, Acts(x)
  PROVE  ResOwned'
<1> DEFINE Whose(a, k) == \/ (k \in stored' /\ rec'[k].ip = a) \/ HasCause(k, Left)'
                          \/ \E y \in Actors : /\ loc'[y].id = k
                                               /\ Sinking(y)' \/ (Holds(y)' /\ loc'[y].ip = a)
                                                    \/ (Building(y)' /\ loc'[y].vm.ip = a)
<1>1. ASSUME NEW a \in Addrs, NEW k, k = res'[a].id, k # NoID PROVE Whose(a, k)
  <2>1. CASE res[a].id # k
    BY <1>1, <2>1, Given
  <2>2. ASSUME res[a].id = k PROVE k \in IDs
    BY <1>1, <2>2, Typed DEF Acts
  <2>3. CASE HasCause(k, Left)
    BY <2>3, LeftKept
  <2>4. ASSUME Doomed(k)', k \in stored' PROVE HasCause(k, Left)' \/ \E y \in Actors : loc'[y].id = k /\ (Removing(y)' \/ Sinking(y)')
    BY <2>4 DEF Doomed, HasCause, Left
  <2>5. ASSUME NEW y \in Actors \ {x}, loc[y].id = k, k = loc[x].id, Dropped(y), Writes(x) \/ Removes(x)
        PROVE  Whose(a, k)
    <3>1. Overwrites(y)' /\ Dropped(y)' /\ loc'[y].id = k
      BY <1>1, <2>5, Overtaken, Watch
    <3>2. QED
      BY <3>1 DEF Sinking
  <2>6. ASSUME res[a].id = k, NEW z \in Actors, loc[z].id = k, Holds(z), loc[z].ip = a, ~(z = x /\ Writes(x))
        PROVE  Whose(a, k)
    BY <2>6, HeldOn
  \* The VM's record is gone, or has another address.
  <2>7. ASSUME res[a].id = k, k \in stored, rec[k].ip = a PROVE Whose(a, k)
    <3>1. k \in IDs
      BY <2>2, <2>7
    <3>2. CASE k # loc[x].id \/ ~(Writes(x) \/ Removes(x) \/ Stores(x))
      BY <2>7, <3>1, <3>2, OtherRecords
    <3>3. CASE k = loc[x].id /\ Stores(x)
      BY <2>7, <3>3 DEF Acts, Tracked, Exclusive, Stores, Building
    <3>4. CASE k = loc[x].id /\ (Writes(x) \/ Removes(x)) /\ Overwrites(x)
      BY <3>4 DEF Writes, Removes, HasCause, Left, Lost
    <3>5. ASSUME k = loc[x].id, ~Overwrites(x), Dropped(x)
          PROVE  HasCause(k, Left) \/ \E z \in Actors : loc[z].id = k /\ Holds(z) /\ loc[z].ip = a
      BY <2>7, <3>5 DEF Acts, Reserved, ResDropped, Overwrites
    <3>6. CASE k = loc[x].id /\ Removes(x) /\ ~Overwrites(x)
      <4>1. Dropped(x) /\ ~Holds(x)
        BY <3>6 DEF Removes, Dropped, Removing, Holds, Moved, Fallen
      <4>2. CASE HasCause(k, Left)
        BY <2>3, <4>2
      <4>3. ASSUME NEW z \in Actors, loc[z].id = k, Holds(z), loc[z].ip = a PROVE Whose(a, k)
        BY <2>6, <2>7, <4>1, <4>3
      <4>4. QED
        BY <3>5, <3>6, <4>1, <4>2, <4>3
    <3>7. CASE k = loc[x].id /\ Writes(x) /\ ~Overwrites(x)
      <4>1. /\ k \in stored' /\ rec[k] = loc[x].vm
            /\ (Holds(x) /\ rec'[k].ip = loc[x].ip) \/ rec'[k].ip = rec[k].ip
        BY <3>7, WritesAddress
      <4>2. CASE Moved(x) /\ rec'[k].ip = loc[x].ip
        <5>1. Dropped(x) /\ loc[x].ip # a
          BY <2>7, <4>1, <4>2 DEF Acts, Reserved, ResMoved, Dropped, Moved, Moving
        <5>2. ASSUME NEW z \in Actors, loc[z].id = k, Holds(z), loc[z].ip = a PROVE Whose(a, k)
          BY <2>6, <2>7, <5>1, <5>2
        <5>3. QED
          BY <2>3, <3>5, <3>7, <5>1, <5>2
      <4>3. CASE Fallen(x) /\ rec'[k].ip = loc[x].ip
        <5>1. ~Dropped(x) /\ loc[x].ip \in Addrs
          BY <4>3, InHand DEF Acts, Fallen, Dropped, Moving, Removing, Fits
        <5>2. CASE Doomed(k)
          <6>1. CASE HasCause(k, Lost)
            BY <2>3, <6>1 DEF HasCause, Left
          <6>2. ASSUME NEW y \in Actors, loc[y].id = k, Removing(y) \/ Sinking(y) PROVE Whose(a, k)
            <7>1. y # x /\ Dropped(y)
              BY <5>1, <6>2 DEF Dropped, Sinking
            <7>2. QED
              BY <2>5, <3>7, <6>2, <7>1
          <6>3. QED
            BY <2>7, <5>2, <6>1, <6>2 DEF Doomed
        <5>3. CASE res[loc[x].ip].id = k
          <6>1. loc[x].ip = a
            BY <1>1, <2>7, <5>1, <5>3 DEF Acts, Reserved, OneAddress
          <6>2. QED
            BY <4>1, <4>3, <6>1
        <5>4. ASSUME NEW y \in Actors, loc[y].id = k, Moving(y) PROVE Whose(a, k)
          <6>1. y # x /\ Dropped(y)
            BY <5>1, <5>4 DEF Dropped
          <6>2. QED
            BY <2>5, <3>7, <5>4, <6>1
        <5>5. QED
          BY <3>7, <4>3, <5>2, <5>3, <5>4 DEF Acts, Reserved, ResFallen
      <4>4. QED
        BY <2>7, <4>1, <4>2, <4>3 DEF Holds
    <3>8. QED
      BY <3>2, <3>3, <3>4, <3>6, <3>7
  <2>8. ASSUME res[a].id = k, NEW y \in Actors, loc[y].id = k, Sinking(y) PROVE Whose(a, k)
    <3>1. CASE y # x
      <4>1. Overwrites(y)' /\ Dropped(y)' /\ loc'[y].id = k
        BY <1>1, <2>8, <3>1, OverwritesKept, Watch DEF Sinking
      <4>2. QED
        BY <4>1 DEF Sinking
    <3>2. CASE y = x /\ Dropped(x)'
      BY <2>8, <3>2, SinksOn DEF Sinking
    <3>3. CASE y = x /\ ~Dropped(x)'
      <4>1. Marked(k, {"update", "halfDeleted"}) \/ Writes(x) \/ Removes(x)
        BY <2>8, <3>3 DEF Acts, MoveStep, Sinking, Dropped, Marked
      <4>2. Writes(x) \/ Removes(x) => Marked(k, {"stale"})
        BY <2>8, <3>3 DEF Writes, Removes, Marked, Sinking
      <4>3. QED
        BY <4>1, <4>2 DEF Marked, HasCause, Left, Lost
    <3>4. QED
      BY <3>1, <3>2, <3>3
  <2>9. ASSUME res[a].id = k, NEW y \in Actors, loc[y].id = k, Holds(y), loc[y].ip = a PROVE Whose(a, k)
    <3>1. CASE y = x /\ Writes(x) /\ Overwrites(x)
      BY <2>9, <3>1 DEF Writes, HasCause, Left, Lost
    <3>2. CASE y = x /\ Writes(x) /\ ~Overwrites(x)
      BY <2>9, <3>2, WritesAddress
    <3>3. QED
      BY <2>6, <2>9, <3>1, <3>2
  <2>10. ASSUME res[a].id = k, NEW y \in Actors, loc[y].id = k, Building(y), loc[y].vm.ip = a PROVE Whose(a, k)
    <3>1. CASE y # x
      <4>1. Building(y)' /\ loc'[y] = loc[y]
        BY <2>10, <3>1, Watch
      <4>2. QED
        BY <2>10, <4>1
    <3>2. CASE y = x /\ Building(x)'
      <4>1. loc'[x].id = k /\ loc'[x].vm.ip = a
        BY <2>10, <3>2, IdentityAssumption DEF Acts, ResStep
      <4>2. QED
        BY <3>2, <4>1
    <3>3. CASE y = x /\ ~Building(x)' /\ Stores(x)
      <4>1. k \in used /\ loc[x].vm \in Record /\ Written(k, loc[x].vm)
        BY <2>10, <3>3, HasID DEF Acts, Stores
      <4>2. k \in stored' /\ rec'[k].ip = a
        BY <2>10, <3>3, <4>1, WriteEffect DEF Acts
      <4>3. QED
        BY <4>2
    <3>4. CASE y = x /\ ~Building(x)' /\ ~Stores(x)
      <4>1. Marked(k, {"mkdir", "cleanup"})
        BY <1>1, <2>10, <3>4, IdentityAssumption DEF Acts, ResStep
      <4>2. QED
        BY <4>1 DEF Marked, HasCause, Left
    <3>5. QED
      BY <3>1, <3>2, <3>3, <3>4
  <2>11. QED
    BY <1>1, <2>1, <2>3, <2>7, <2>8, <2>9, <2>10 DEF Acts, Reserved, ResOwned
<1>2. QED
  BY <1>1 DEF ResOwned

LEMMA ActorReserved ==
  ASSUME NEW x \in Actors, Acts(x)
  PROVE  Reserved'
BY ActorOneAddress, ActorStatic, ActorResBuilt, ActorResBacked, ActorResMoved, ActorResFallen, ActorResDropped,
   ActorResOwned DEF Reserved

LEMMA CrashReserved ==
  ASSUME Types, Reserved, Crash
  PROVE  Reserved'
<1>1. /\ stored' = stored /\ rec' = rec /\ res' = res /\ used' = used /\ Recalls
      /\ \A x \in Actors : pc'[x] = "idle" /\ loc'[x] = NoWork
      /\ \A x \in Actors : loc[x].id # NoID => <<"crash", loc[x].id>> \in causes'
  BY CrashDoes DEF Same, SameStore, SameHost
<1>2. \A x \in Actors : Building(x) \/ Dropped(x) \/ Holds(x) => loc[x].id # NoID
  BY HasID DEF Building, Dropped, Moving, Removing, Holds, Moved, Fallen, Asking
<1>3. \A x \in Actors : ~Building(x)' /\ ~Dropped(x)' /\ ~Moved(x)' /\ ~Fallen(x)'
  BY <1>1 DEF Building, Dropped, Moving, Removing, Moved, Fallen
<1>4. OneAddress' /\ Static'
  BY <1>1, <1>3 DEF Reserved, OneAddress, Static, Recalls
<1>5. ResBuilt' /\ ResMoved' /\ ResFallen' /\ ResDropped'
  BY <1>3 DEF ResBuilt, ResMoved, ResFallen, ResDropped
<1>6. ASSUME NEW j \in stored
      PROVE  Doomed(j)' \/ <<"static", j>> \in causes' \/ rec[j].ip = NoIP \/ res[rec[j].ip].id = j
  <2>1. ASSUME NEW x \in Actors, loc[x].id = j, Dropped(x) PROVE Doomed(j)'
    BY <1>1, <1>2, <2>1 DEF Doomed, HasCause, Lost
  <2>2. Doomed(j) => Doomed(j)' \/ \E x \in Actors : loc[x].id = j /\ Dropped(x)
    BY <1>1 DEF Doomed, HasCause, Recalls, Dropped, Sinking
  <2>3. QED
    BY <1>1, <2>1, <2>2 DEF Reserved, ResBacked, Recalls
<1>7. ResBacked'
  BY <1>1, <1>6 DEF ResBacked
<1>8. ResOwned'
  <2>1. ASSUME NEW a \in Addrs, NEW k, k = res[a].id, k # NoID
        PROVE  (k \in stored /\ rec[k].ip = a) \/ HasCause(k, Left)'
    <3>1. ASSUME NEW x \in Actors, loc[x].id = k PROVE HasCause(k, Left)'
      BY <1>1, <2>1, <3>1 DEF HasCause, Left, Lost
    <3>2. HasCause(k, Left) => HasCause(k, Left)'
      BY <1>1 DEF HasCause, Recalls
    <3>3. QED
      BY <2>1, <3>1, <3>2 DEF Reserved, ResOwned
  <2>2. QED
    BY <1>1, <2>1 DEF ResOwned
<1>9. QED
  BY <1>4, <1>5, <1>7, <1>8 DEF Reserved

\* A step that leaves records, reservations and goroutines alone.
LEMMA StillReserved ==
  ASSUME Reserved, UNCHANGED <<stored, rec, res, used, pc, loc, causes>>
  PROVE  Reserved'
<1>1. /\ \A x \in Actors : /\ (Building(x)' <=> Building(x)) /\ (Dropped(x)' <=> Dropped(x)) /\ (Moving(x)' <=> Moving(x))
                           /\ (Moved(x)' <=> Moved(x)) /\ (Fallen(x)' <=> Fallen(x)) /\ (Holds(x)' <=> Holds(x))
                           /\ (Sinking(x)' <=> Sinking(x)) /\ (Removing(x)' <=> Removing(x)) /\ (Overwrites(x)' <=> Overwrites(x))
      /\ \A j, why : HasCause(j, why)' <=> HasCause(j, why)
  BY DEF Building, Dropped, Moving, Moved, Fallen, Holds, Sinking, Removing, Overwrites, HasCause
<1>2. \A j : Doomed(j)' <=> Doomed(j)
  BY <1>1 DEF Doomed
<1>3. OneAddress' /\ Static' /\ ResBuilt' /\ ResMoved'
  BY <1>1, <1>2 DEF Reserved, OneAddress, Static, ResBuilt, ResMoved
<1>4. ResBacked' /\ ResFallen'
  BY <1>1, <1>2 DEF Reserved, ResBacked, ResFallen
<1>5. ResDropped' /\ ResOwned'
  BY <1>1 DEF Reserved, ResDropped, ResOwned
<1>6. QED
  BY <1>3, <1>4, <1>5 DEF Reserved

LEMMA NextReserved ==
  ASSUME Types, Types', Tracked, Reserved, Next
  PROVE  Reserved'
<1>1. ASSUME NEW r \in Requests, CreateStep(r) \/ ChangeStep(r) PROVE Reserved'
  <2>1. causes \subseteq causes' /\ ActorStep(r) /\ DirStep(r) /\ ResStep(r) /\ MoveStep(r)
    BY <1>1, CreateKind, ChangeKind, CreateDir, ChangeDir, CreateRes, ChangeRes
  <2>2. QED
    BY <2>1, ActorReserved DEF Acts
<1>2. ASSUME NEW i \in Monitors, MonitorStep(i) PROVE Reserved'
  <2>1. causes \subseteq causes' /\ ActorStep(i) /\ DirStep(i) /\ ResStep(i) /\ MoveStep(i)
    BY <1>2, MonitorKind, MonitorDir, MonitorRes
  <2>2. QED
    BY <2>1, ActorReserved DEF Acts
<1>3. ASSUME NEW n \in Names, GuestShutsDown(n) PROVE Reserved'
  BY <1>3, GuestDoes, StillReserved DEF SameStore
<1>4. QED
  BY <1>1, <1>2, <1>3, CrashReserved DEF Next

LEMMA InitReserved == Init => Reserved
<1> SUFFICES ASSUME Init PROVE Reserved
  OBVIOUS
<1>1. /\ \A x \in Actors : pc[x] = "idle" /\ loc[x] = NoWork
      /\ stored = {} /\ causes = {} /\ \A a \in Addrs : res[a].id = NoID
  BY Constants DEF Init
<1>2. \A x \in Actors : ~Building(x) /\ ~Dropped(x) /\ ~Moved(x) /\ ~Fallen(x)
  BY <1>1 DEF Building, Dropped, Moving, Removing, Moved, Fallen
<1>3. OneAddress /\ Static /\ ResBuilt /\ ResBacked
  BY <1>1, <1>2 DEF OneAddress, Static, ResBuilt, ResBacked
<1>4. ResMoved /\ ResFallen /\ ResDropped /\ ResOwned
  BY <1>1, <1>2 DEF ResMoved, ResFallen, ResDropped, ResOwned
<1>5. QED
  BY <1>3, <1>4 DEF Reserved

-----------------------------------------------------------------------------
(* Every resource has its VM, and every VM its resources. *)

BackingInv == Types /\ Slots /\ Tracked /\ Naming /\ Dirs /\ Doms /\ Reserved

LEMMA BackingInvariant == Spec => []BackingInv
<1>1. Init => BackingInv
  BY InitTypes, InitSlots, InitTracked, InitDoms, InitReserved DEF BackingInv
<1>2. BackingInv /\ [Next]_vars => BackingInv'
  <2> SUFFICES ASSUME BackingInv, [Next]_vars PROVE BackingInv'
    OBVIOUS
  <2>1. CASE Next
    <3>1. Types' /\ Slots' /\ Kind
      BY <2>1, NextTypes, NextSlots, NextKind DEF BackingInv
    <3>2. Tracked'
      BY <3>1, NextTracked DEF BackingInv
    <3>3. Naming' /\ Dirs' /\ Doms'
      BY <2>1, <3>1, NextDoms DEF BackingInv
    <3>4. Reserved'
      BY <2>1, <3>1, NextReserved DEF BackingInv
    <3>5. QED
      BY <3>1, <3>2, <3>3, <3>4 DEF BackingInv
  <2>2. CASE UNCHANGED vars
    <3>1. Types' /\ Slots'
      BY <2>2, StutterTypes DEF BackingInv, Slots, SlotHolders, vars
    <3>2. Tracked'
      BY <2>2 DEF BackingInv, Tracked, Known, Exclusive, Versions, Cloning, Building, Asking, vars
    <3>3. Naming'
      BY <2>2 DEF BackingInv, Naming, Named, Asking, Name, vars
    <3>4. Dirs'
      BY <2>2 DEF BackingInv, Dirs, HasDir, NoDir, Building, HasCause, vars
    <3>5. /\ \A x \in Actors : (Building(x)' <=> Building(x)) /\ (Deleting(x)' <=> Deleting(x)) /\ Name(x)' = Name(x)
          /\ \A j, why : HasCause(j, why)' <=> HasCause(j, why)
          /\ \A j : NoDom(j)' <=> NoDom(j)
      BY <2>2 DEF Building, Deleting, Name, HasCause, NoDom, vars
    <3>6. DomBuilt' /\ DomGone'
      BY <2>2, <3>5 DEF BackingInv, Doms, DomBuilt, DomGone, vars
    <3>7. DomBacked' /\ DomOwned'
      BY <2>2, <3>5 DEF BackingInv, Doms, DomBacked, DomOwned, vars
    <3>8. Reserved'
      BY <2>2, StillReserved DEF BackingInv, vars
    <3>9. QED
      BY <3>1, <3>2, <3>3, <3>4, <3>6, <3>7, <3>8 DEF BackingInv, Doms
  <2>3. QED
    BY <2>1, <2>2
<1>3. QED
  BY <1>1, <1>2, PTL DEF Spec

LEMMA BackingTypes ==
  ASSUME BackingInv
  PROVE  TypeOK
<1>1. tokens \in 0..MaxCreates
  <2>1. Cardinality(SlotHolders) \in Nat
    BY FS_CardinalityType DEF BackingInv, Slots
  <2>2. QED
    BY <2>1, QuotaAssumption DEF BackingInv, Slots
<1>2. \A x \in Actors : pc[x] # "idle" => loc[x].id \in used \cup {NoID} /\ loc[x].vm \in Record
  BY HasID DEF BackingInv
<1>3. QED
  BY <1>1, <1>2 DEF BackingInv, Types, Values, TypeOK, Domain, Host

\* Create stores the record last and Delete removes it last (lifecycle.go), so
\* a stored VM that no goroutine works on has its directory, its domain and
\* the reservation of its address, however creates, clones, updates, power
\* operations, deletes, IP monitors and crashes interleave, unless one of the
\* listed causes took them.
THEOREM RecordsBacked == Spec => []RecordBacked
<1>1. BackingInv => RecordBacked
  <2> SUFFICES ASSUME BackingInv PROVE RecordBacked
    OBVIOUS
  <2>1. ASSUME NEW i \in stored, ~Busy(i)
        PROVE  /\ i \in dir \/ HasCause(i, {"crash", "stale", "halfDeleted"})
               /\ dom[rec[i].name].id = i \/ HasCause(i, Spoiled)
               /\ \/ rec[i].ip = NoIP \/ res[rec[i].ip].id = i
                  \/ HasCause(i, Spoiled \cup {"static", "update"})
    <3>1. \A x \in Actors : loc[x].id = i => pc[x] = "idle"
      BY <2>1 DEF Busy
    <3>2. i \in dir \/ HasCause(i, {"crash", "stale", "halfDeleted"})
      BY <3>1 DEF BackingInv, Dirs
    <3>3. dom[rec[i].name].id = i \/ HasCause(i, Spoiled)
      BY <3>1 DEF BackingInv, Doms, DomBacked, Deleting
    <3>4. \A x \in Actors : loc[x].id = i => ~Dropped(x) /\ ~Removing(x) /\ ~Sinking(x)
      BY <3>1 DEF Dropped, Moving, Removing, Sinking
    <3>5. Doomed(i) => HasCause(i, Lost)
      BY <3>4 DEF Doomed
    <3>6. HasCause(i, Lost) \/ <<"static", i>> \in causes \/ rec[i].ip = NoIP \/ res[rec[i].ip].id = i
      BY <3>4, <3>5 DEF BackingInv, Reserved, ResBacked
    <3>7. HasCause(i, Lost) \/ <<"static", i>> \in causes => HasCause(i, Spoiled \cup {"static", "update"})
      BY DEF HasCause, Lost, Spoiled
    <3>8. QED
      BY <3>2, <3>3, <3>6, <3>7
  <2>2. QED
    BY <2>1, BackingTypes DEF RecordBacked
<1>2. QED
  BY <1>1, BackingInvariant, PTL

\* The converse: the deferred cleanup of Create and the steps of Delete leave
\* no directory, domain or reservation behind, whatever runs at the same time,
\* unless a crash, an ignored libvirt error or a listed lost update does.
THEOREM NothingLeftOver == Spec => []ResourcesOwned
<1>1. BackingInv => ResourcesOwned
  <2> SUFFICES ASSUME BackingInv PROVE ResourcesOwned
    OBVIOUS
  <2>1. \A x \in Actors : /\ Building(x) \/ Dropped(x) \/ Holds(x) \/ Sinking(x) => pc[x] # "idle"
                          /\ pc[x] \in {"boot", "put", "undoDom"} => pc[x] # "idle"
    BY DEF Building, Dropped, Moving, Removing, Holds, Moved, Fallen, Sinking
  <2>2. ASSUME NEW i \in dir PROVE i \in stored \/ Busy(i) \/ HasCause(i, {"crash"})
    BY <2>1 DEF BackingInv, Dirs, Busy
  <2>3. ASSUME NEW n \in Names, NEW i, i = dom[n].id, i # NoID
        PROVE  i \in stored \/ Busy(i) \/ HasCause(i, {"crash", "cleanup", "redefined"})
    BY <2>1, <2>3 DEF BackingInv, Doms, DomOwned, Busy, LeftDom
  <2>4. ASSUME NEW a \in Addrs, NEW i, i = res[a].id, i # NoID
        PROVE  \/ (i \in stored /\ rec[i].ip = a) \/ Busy(i)
               \/ HasCause(i, {"crash", "cleanup", "mkdir", "stale", "update", "monitor", "byname", "halfDeleted"})
    <3>1. (i \in stored /\ rec[i].ip = a) \/ HasCause(i, Left) \/ Busy(i)
      BY <2>1, <2>4 DEF BackingInv, Reserved, ResOwned, Busy
    <3>2. QED
      BY <3>1 DEF HasCause, Left, Lost
  <2>5. QED
    BY <2>2, <2>3, <2>4 DEF ResourcesOwned
<1>2. QED
  BY <1>1, BackingInvariant, PTL
=============================================================================

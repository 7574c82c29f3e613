------------------------------ MODULE GuiPages ------------------------------
(***************************************************************************)
(* The list pages of the web GUI (src/web/src/pages), as tables.  Ten      *)
(* tables in eight page components are built from one pattern: filter      *)
(* inputs, a fetch that is repeated by a timer, rows with operations,      *)
(* sometimes a selection with a bulk operation, and a pager.  They differ  *)
(* in the entries of the tables below; ListPage gives the pattern its      *)
(* behaviour.                                                              *)
(*                                                                         *)
(*   Controls   filters the user can set (markup)                          *)
(*   Debounced  those whose typed text is committed 250 ms later           *)
(*   Seeded     those whose first value is read from the URL               *)
(*   Mirrored   those an effect writes back to the URL                     *)
(*   Cleared    those the panel's "Clear all" resets                       *)
(*                                                                         *)
(* and per page a record: which rows operations remove a row or only touch *)
(* it, the form of the bulk operation ("each": the browser sends one       *)
(* request per row; "one": one request carries all ids), when the pager is *)
(* rendered ("rows": only over a non-empty page; "total": whenever the     *)
(* server counted something), and what else the page adds.                 *)
(***************************************************************************)

----------------------------------------------------------------------------
(* Machines: pages/VMList.jsx *)

VMListNamed == {"search", "tag", "image", "defaultUser", "osType", "osVariant", "firmware"}
VMListHardware == {"diskBus", "nicModel", "machine", "clockOffset", "network", "prefix"}
VMListAddresses == {"natStaticIp", "natGateway", "ip", "gpu"}
VMListRanges == {"minCpus", "maxCpus", "minRam", "maxRam", "minDisk", "maxDisk"}
VMListOrder == {"sort", "order", "autoStart", "locked", "since", "until"}
VMListControls == VMListNamed \cup VMListHardware \cup VMListAddresses \cup VMListRanges \cup VMListOrder

VMListDebounced ==
    {"search", "image", "defaultUser", "machine", "network", "prefix",
     "natStaticIp", "natGateway", "ip", "gpu"} \cup VMListRanges

\* `tag` is the one filter that starts empty whatever the URL says, ...
VMListSeeded == VMListControls \ {"tag"}
\* ... and the one the URL never carries.
VMListMirrored == VMListControls \ {"tag"}
\* "Clear all" leaves the search box and the sort alone.
VMListCleared == VMListControls \ {"search", "sort", "order"}

VMListRowOps == [touch |-> {"start", "stop"}, remove |-> {"delete"}]
\* The bulk verbs and the displayed state each of them asks for.
VMListBulkOps ==
    [start |-> "stopped", stop |-> "running", restart |-> "running", forceStop |-> "running",
     reboot |-> "running", suspend |-> "running", resume |-> "paused", delete |-> "any"]
VMListPage ==
    [ops |-> VMListRowOps, bulk |-> "each", pager |-> "rows", polls |-> TRUE,
     live |-> TRUE, pausable |-> FALSE, urlPage |-> FALSE, clearCommits |-> TRUE, trims |-> TRUE]

----------------------------------------------------------------------------
(* Images: pages/ImageList.jsx *)

ImageListText == {"search", "tag", "sourceVM", "prefix"}
ImageListRanges == {"since", "until", "minSize", "maxSize", "sort", "order"}
ImageListControls == ImageListText \cup ImageListRanges
ImageListDebounced == {"search", "sourceVM", "prefix", "minSize", "maxSize"}
ImageListSeeded == ImageListControls \ {"tag"}
ImageListMirrored == ImageListControls \ {"tag"}
ImageListCleared == ImageListControls \ {"search", "sort", "order"}
ImageListRowOps == [touch |-> {}, remove |-> {"delete"}]
ImageListPage ==
    [ops |-> ImageListRowOps, bulk |-> "one", pager |-> "rows", polls |-> TRUE,
     live |-> FALSE, pausable |-> FALSE, urlPage |-> FALSE, clearCommits |-> TRUE, trims |-> TRUE]

----------------------------------------------------------------------------
(* Templates: pages/TemplateList.jsx.  The time range has no committed     *)
(* copy: its inputs take effect at once.                                   *)

TemplateListText == {"search", "tag", "image", "defaultUser", "osType", "osVariant", "network", "prefix"}
TemplateListRanges ==
    {"since", "until", "minCpus", "maxCpus", "minRam", "maxRam", "minDiskGb", "maxDiskGb", "sort", "order"}
TemplateListControls == TemplateListText \cup TemplateListRanges
TemplateListDebounced ==
    {"search", "image", "defaultUser", "network", "prefix",
     "minCpus", "maxCpus", "minRam", "maxRam", "minDiskGb", "maxDiskGb"}
TemplateListSeeded == TemplateListControls \ {"tag"}
TemplateListMirrored == TemplateListControls \ {"tag"}
TemplateListCleared == TemplateListControls \ {"search", "sort", "order"}
TemplateListRowOps == [touch |-> {}, remove |-> {"delete"}]
TemplateListPage ==
    [ops |-> TemplateListRowOps, bulk |-> "one", pager |-> "rows", polls |-> TRUE,
     live |-> FALSE, pausable |-> FALSE, urlPage |-> FALSE, clearCommits |-> TRUE, trims |-> TRUE]

----------------------------------------------------------------------------
(* Schedules: pages/Schedules.jsx.  "Clear all" empties the inputs of the  *)
(* debounced filters and lets their timers commit.                         *)

SchedulesSelectors == {"search", "tagSelector", "prefix", "action", "catchUp", "timezone", "enabled"}
SchedulesRanges ==
    {"sort", "order", "since", "until", "nextFireSince", "nextFireUntil", "lastFiredSince", "lastFiredUntil"}
SchedulesControls == SchedulesSelectors \cup SchedulesRanges
SchedulesDebounced == {"search", "tagSelector", "timezone", "prefix"}
SchedulesSeeded == SchedulesControls
SchedulesMirrored == SchedulesControls
SchedulesCleared == SchedulesControls \ {"search"}
SchedulesRowOps == [touch |-> {"toggle", "runNow"}, remove |-> {"delete"}]
SchedulesPage ==
    [ops |-> SchedulesRowOps, bulk |-> "none", pager |-> "rows", polls |-> TRUE,
     live |-> FALSE, pausable |-> FALSE, urlPage |-> TRUE, clearCommits |-> FALSE, trims |-> TRUE]

(* The run history under an expanded schedule: no timer, no URL, no pager. *)
RunsControls ==
    {"vmId", "search", "status", "skipReason", "sort", "order",
     "finishedSince", "finishedUntil", "minDurationMs", "maxDurationMs"}
RunsDebounced == {"vmId", "search"}
RunsPage ==
    [ops |-> [touch |-> {}, remove |-> {}], bulk |-> "none", pager |-> "none",
     polls |-> FALSE, live |-> FALSE, pausable |-> FALSE, urlPage |-> FALSE, clearCommits |-> FALSE,
     trims |-> TRUE]

----------------------------------------------------------------------------
(* Webhooks: pages/Settings.jsx *)

SettingsText == {"search", "eventType", "urlPrefix", "deliveryStatus", "active"}
SettingsRanges == {"sort", "order", "since", "until", "lastDeliverySince", "lastDeliveryUntil"}
SettingsControls == SettingsText \cup SettingsRanges
SettingsDebounced == {"search", "eventType", "urlPrefix"}
SettingsSeeded == SettingsControls
SettingsMirrored == SettingsControls
SettingsCleared == SettingsControls \ {"search"}
SettingsRowOps == [touch |-> {"test"}, remove |-> {"delete"}]
SettingsPage ==
    [ops |-> SettingsRowOps, bulk |-> "one", pager |-> "rows", polls |-> TRUE,
     live |-> FALSE, pausable |-> FALSE, urlPage |-> TRUE, clearCommits |-> FALSE, trims |-> TRUE]

----------------------------------------------------------------------------
(* Activity: pages/Activity.jsx.  Its debounced values are committed as    *)
(* typed; the daemon trims them.                                           *)

ActivityControls ==
    {"search", "vmId", "actor", "resourceId", "typePrefix", "source", "severity", "minSeverity",
     "type", "sort", "order"}
ActivityDebounced == {"search", "actor", "resourceId", "typePrefix"}
ActivitySeeded == ActivityControls
ActivityMirrored == ActivityControls
ActivityCleared == ActivityControls \ {"search"}
ActivityPage ==
    [ops |-> [touch |-> {}, remove |-> {}], bulk |-> "none", pager |-> "total",
     polls |-> TRUE, live |-> FALSE, pausable |-> FALSE, urlPage |-> FALSE, clearCommits |-> FALSE,
     trims |-> FALSE]

----------------------------------------------------------------------------
(* Logs: pages/LogViewer.jsx.  No "Clear all"; the user may pause the      *)
(* fetching.                                                               *)

LogViewerControls == {"source", "level", "sort", "order", "search", "vmId", "since", "until"}
LogViewerDebounced == {"search", "vmId"}
LogViewerSeeded == LogViewerControls \ {"level", "source"}
LogViewerMirrored == LogViewerControls \ {"level", "source"}
LogViewerPage ==
    [ops |-> [touch |-> {}, remove |-> {}], bulk |-> "none", pager |-> "total",
     polls |-> TRUE, live |-> FALSE, pausable |-> TRUE, urlPage |-> FALSE, clearCommits |-> FALSE,
     trims |-> TRUE]

----------------------------------------------------------------------------
(* The snapshot and port-forward tabs of pages/VMDetail.jsx.  Each filter  *)
(* has a clear button of its own, which empties the input.                 *)

SnapshotsControls == {"sort", "order", "search", "prefix", "since", "until"}
SnapshotsSeeded == {"search", "prefix", "since", "until"}
SnapshotsRowOps == [touch |-> {"restore"}, remove |-> {"delete"}]
SnapshotsPage ==
    [ops |-> SnapshotsRowOps, bulk |-> "one", pager |-> "none", polls |-> TRUE,
     live |-> FALSE, pausable |-> FALSE, urlPage |-> FALSE, clearCommits |-> FALSE, trims |-> TRUE]

PortsControls ==
    {"sort", "order", "protocol", "search", "minHostPort", "maxHostPort", "minGuestPort",
     "maxGuestPort", "guestIP"}
PortsSeeded == PortsControls
PortsDebounced ==
    {"search", "minHostPort", "maxHostPort", "minGuestPort", "maxGuestPort", "guestIP"}
\* One effect writes the filters of both tabs to the URL.
DetailMirrored == PortsControls \cup {"search", "prefix", "since", "until"}
PortsRowOps == [touch |-> {}, remove |-> {"remove"}]
PortsPage ==
    [ops |-> PortsRowOps, bulk |-> "one", pager |-> "total", polls |-> TRUE,
     live |-> FALSE, pausable |-> FALSE, urlPage |-> TRUE, clearCommits |-> FALSE, trims |-> TRUE]
SnapshotsDebounced == {"search", "prefix"}

----------------------------------------------------------------------------
(* What ListPage needs of a filter: how it takes effect, whether it        *)
(* survives a reload, and whether "Clear all" resets it.                   *)

Classes(controls, debounced, kept, cleared) ==
    {[debounced |-> f \in debounced, kept |-> f \in kept, cleared |-> f \in cleared] : f \in controls}

Views ==
    [vms |-> [page |-> VMListPage,
              fields |-> Classes(VMListControls, VMListDebounced, VMListSeeded \cap VMListMirrored, VMListCleared)],
     images |-> [page |-> ImageListPage,
              fields |-> Classes(ImageListControls, ImageListDebounced, ImageListSeeded \cap ImageListMirrored,
                                 ImageListCleared)],
     templates |-> [page |-> TemplateListPage,
              fields |-> Classes(TemplateListControls, TemplateListDebounced,
                                 TemplateListSeeded \cap TemplateListMirrored, TemplateListCleared)],
     schedules |-> [page |-> SchedulesPage,
              fields |-> Classes(SchedulesControls, SchedulesDebounced, SchedulesSeeded \cap SchedulesMirrored,
                                 SchedulesCleared)],
     runs |-> [page |-> RunsPage, fields |-> Classes(RunsControls, RunsDebounced, {}, {})],
     webhooks |-> [page |-> SettingsPage,
              fields |-> Classes(SettingsControls, SettingsDebounced, SettingsSeeded \cap SettingsMirrored,
                                 SettingsCleared)],
     activity |-> [page |-> ActivityPage,
              fields |-> Classes(ActivityControls, ActivityDebounced, ActivitySeeded \cap ActivityMirrored,
                                 ActivityCleared)],
     logs |-> [page |-> LogViewerPage,
              fields |-> Classes(LogViewerControls, LogViewerDebounced, LogViewerSeeded \cap LogViewerMirrored, {})],
     snapshots |-> [page |-> SnapshotsPage,
              fields |-> Classes(SnapshotsControls, SnapshotsDebounced, SnapshotsSeeded \cap DetailMirrored, {})],
     ports |-> [page |-> PortsPage,
              fields |-> Classes(PortsControls, PortsDebounced, PortsSeeded \cap DetailMirrored, {})]]
=============================================================================

----------------------------- MODULE PolicyControl -----------------------------
(***************************************************************************)
(* The HiController of agentsandbox: which policy the eBPF maps and the    *)
(* proxy enforce on each container.                                        *)
(*                                                                         *)
(* Three threads share the state. "sock" takes the messages of the         *)
(* lifecycle socket one at a time (sock_listener.rs, management.rs); the   *)
(* poll thread of ConfigMonitor compares modification times and queues the *)
(* paths that changed; "watcher" takes those paths and applies the file    *)
(* again. Every map of EbpfLoader is a kernel map and a user-space mirror, *)
(* each behind a lock of its own, so a policy is written in many steps.    *)
(***************************************************************************)
EXTENDS Integers, Sequences

CONSTANTS
  Containers,   \* ContainerId values; a cgroup id is not used again after its container.
  Paths,        \* Configuration files.
  Configs,      \* Contents of a file.
  Secured,      \* Those with a valid [security] section.
  Filtered,     \* Those with a valid [proxy] section.
  Oversized,    \* Policies update_from_security_policy refuses before it writes.
  BadNetwork,   \* Policies whose network rules it refuses, after the other maps.
  BadFilter,    \* Filters proxy_proc refuses.
  Absent,       \* No readable file.
  None,         \* No entry.
  MaxMessages,  \* Bound: lifecycle messages.
  MaxEdits,     \* Bound: edits of each file.
  MaxFaults     \* Bound: failed calls of the proxy.

ASSUME SectionsAssumption ==
  /\ Secured \subseteq Configs /\ Filtered \subseteq Configs
  /\ Oversized \cup BadNetwork \subseteq Secured
  /\ BadFilter \subseteq Filtered
ASSUME NamesAssumption ==
  /\ Absent \notin Configs
  /\ None \notin Paths
  /\ \A p \in Paths, g \in Configs : None # [path |-> p, config |-> g]
ASSUME BoundsAssumption == {MaxMessages, MaxEdits, MaxFaults} \subseteq Nat

VARIABLES
  file,        \* Contents of each file.
  mtime,       \* Its modification time: 1, then one more at each edit.
  kernel,      \* kernel[c][m]: the entry of container c in map m, in the kernel.
  mirror,      \* The same in EbpfLoader, from which snapshots are taken.
  proxy,       \* proxy[c]: the filter proxy_proc has for c.
  registered,  \* registered_containers.
  configs,     \* container_configs: the path of each container.
  watched,     \* WatchInner.paths: the time last seen of each watched path.
  poll,        \* The poll thread: its phase and its locals.
  queue,       \* The channel from the poll thread to the watcher.
  job,         \* What "sock" and "watcher" are doing.
  messages,    \* Lifecycle messages so far.
  faults,      \* Proxy failures so far.
  history      \* What happened, for the properties.

vars == <<file, mtime, kernel, mirror, proxy, registered, configs, watched,
          poll, queue, job, messages, faults, history>>

(***************************************************************************)
(* "rules" stands for cap_path_rules_map and fs_path_rules_map, always     *)
(* written one after the other. An entry names the file and the contents   *)
(* it was made from.                                                       *)
(***************************************************************************)
Maps == {"policy", "rules", "network", "sock"}
Entry == [path : Paths, config : Configs]
Slot == Entry \cup {None}
Actors == {"sock", "watcher"}
Copies == {"kernel", "mirror"}
Write == [copy : Copies, map : Maps, entry : Slot]
Phases == {"idle", "lookup", "snapshot", "writing", "restoring", "tracking", "watching",
           "blocking", "removing", "untracking", "forgetting"}

\* The order in which snapshot_policy reads the maps.
Snapshotted == <<"policy", "rules", "network">>

NoEntries == [m \in Maps |-> None]
Idle == [at |-> "idle", container |-> None, entry |-> None, old |-> <<>>, todo |-> <<>>,
         before |-> NoEntries]
Asleep == [at |-> "asleep", left |-> {}, path |-> None, time |-> 0, changed |-> {}]

\* Job: its phase, its container, what it applies, the snapshot so far, the writes left; and
\* what the kernel had when the message came (for the properties).
Job == [at : Phases, container : Containers \cup {None}, entry : Slot,
        old : Seq(Slot), todo : Seq(Write), before : [Maps -> Slot]]

TypeOK ==
  /\ file \in [Paths -> Configs \cup {Absent}]
  /\ mtime \in [Paths -> Nat]
  /\ kernel \in [Containers -> [Maps -> Slot]]
  /\ mirror \in [Containers -> [Maps -> Slot]]
  /\ proxy \in [Containers -> Slot]
  /\ registered \subseteq Containers
  /\ configs \in [Containers -> Paths \cup {None}]
  /\ watched \in [Paths -> Int]
  /\ poll \in [at : {"asleep", "checking", "comparing", "recording", "sending"},
               left : SUBSET Paths, path : Paths \cup {None}, time : Nat,
               changed : SUBSET Paths]
  /\ queue \in Seq(Paths)
  /\ job \in [Actors -> Job]
  /\ \A a \in Actors : job[a].at \notin {"idle", "lookup"} => job[a].container \in Containers
  /\ messages \in 0 .. MaxMessages
  /\ faults \in 0 .. MaxFaults
  /\ history \in [asked : SUBSET (Containers \X Paths), bare : SUBSET Containers,
                  gone : SUBSET Containers, overlapped : SUBSET Containers,
                  unheard : SUBSET Containers]

Unwatched == -1

Init ==
  /\ file \in [Paths -> Configs \cup {Absent}]
  /\ mtime = [p \in Paths |-> 1]
  /\ kernel = [c \in Containers |-> NoEntries]
  /\ mirror = [c \in Containers |-> NoEntries]
  /\ proxy = [c \in Containers |-> None]
  /\ registered = {}
  /\ configs = [c \in Containers |-> None]
  /\ watched = [p \in Paths |-> Unwatched]
  /\ poll = Asleep
  /\ queue = <<>>
  /\ job = [a \in Actors |-> Idle]
  /\ messages = 0
  /\ faults = 0
  /\ history = [asked |-> {}, bare |-> {}, gone |-> {}, overlapped |-> {}, unheard |-> {}]

----------------------------------------------------------------------------
(* Files and the poll thread.                                              *)

files == <<file, mtime>>
ebpf == <<kernel, mirror>>
tracking == <<registered, configs>>
monitor == <<watched, poll, queue>>
bounds == <<messages, faults>>

\* A file is edited, created or removed.
Edit(p, g) ==
  /\ mtime[p] <= MaxEdits
  /\ file[p] # g
  /\ file' = [file EXCEPT ![p] = g]
  /\ mtime' = [mtime EXCEPT ![p] = @ + 1]
  /\ UNCHANGED <<ebpf, proxy, tracking, monitor, job, bounds, history>>

\* check_changes copies the keys, then releases the lock.
PollKeys ==
  /\ poll.at = "asleep"
  /\ poll' = [Asleep EXCEPT !.at = "checking", !.left = {p \in Paths : watched[p] # Unwatched}]
  /\ UNCHANGED <<files, ebpf, proxy, tracking, watched, queue, job, bounds, history>>

\* fs::metadata, without the lock; a path it cannot read is skipped.
PollStat(p) ==
  /\ poll.at = "checking"
  /\ p \in poll.left
  /\ poll' = IF file[p] = Absent
               THEN [poll EXCEPT !.left = @ \ {p}]
               ELSE [poll EXCEPT !.at = "comparing", !.path = p, !.time = mtime[p]]
  /\ UNCHANGED <<files, ebpf, proxy, tracking, watched, queue, job, bounds, history>>

\* Mutant: only a path that is not watched any more is reported.
ReportsOnlyNew ==
  /\ poll.at = "comparing"
  /\ poll' = [poll EXCEPT !.at = "recording",
                          !.changed = IF watched[poll.path] # Unwatched THEN @ ELSE @ \cup {poll.path}]
  /\ UNCHANGED <<files, ebpf, proxy, tracking, watched, queue, job, bounds, history>>

\* A path has changed when its time is not the one recorded, or none is.
PollCompare ==
  /\ poll.at = "comparing"
  /\ poll' = [poll EXCEPT !.at = "recording",
                          !.changed = IF watched[poll.path] = poll.time THEN @ ELSE @ \cup {poll.path}]
  /\ UNCHANGED <<files, ebpf, proxy, tracking, watched, queue, job, bounds, history>>

\* The lock is taken again: a path unwatched since the comparison is watched anew.
PollRecord ==
  /\ poll.at = "recording"
  /\ watched' = [watched EXCEPT ![poll.path] = poll.time]
  /\ poll' = [poll EXCEPT !.at = "checking", !.left = @ \ {poll.path}]
  /\ UNCHANGED <<files, ebpf, proxy, tracking, queue, job, bounds, history>>

\* The paths that changed are sent when all have been checked.
PollSend ==
  /\ poll.at \in {"checking", "sending"}
  /\ poll.left = {}
  /\ IF poll.changed = {}
       THEN poll' = Asleep /\ UNCHANGED queue
       ELSE \E p \in poll.changed :
              /\ queue' = Append(queue, p)
              /\ poll' = [poll EXCEPT !.at = "sending", !.changed = @ \ {p}]
  /\ UNCHANGED <<files, ebpf, proxy, tracking, watched, job, bounds, history>>

PollNext ==
  PollKeys \/ (\E p \in Paths : PollStat(p)) \/ PollCompare \/ PollRecord \/ PollSend

----------------------------------------------------------------------------
(* Applying a policy, common to "sock" and "watcher".                      *)

InBoth(m, e) ==
  <<[copy |-> "kernel", map |-> m, entry |-> e], [copy |-> "mirror", map |-> m, entry |-> e]>>

\* update_from_security_policy, up to the error if there is one.
Update(e) ==
  IF e.config \notin Secured \/ e.config \in Oversized THEN <<>>
  ELSE InBoth("policy", e) \o InBoth("rules", e)
         \o IF e.config \in BadNetwork THEN <<>> ELSE InBoth("network", e)

\* Mutant: a rollback deletes the policy instead of restoring it.
RestoreNothing(old) == InBoth("policy", None)

\* restore_snapshot: restore_rules writes the kernel maps alone.
Restore(old) ==
  InBoth("policy", old[1])
    \o <<[copy |-> "kernel", map |-> "rules", entry |-> old[2]],
         [copy |-> "kernel", map |-> "network", entry |-> old[3]]>>

\* Mutant: the network rules are forgotten.
RemovalLeavesNetwork ==
  InBoth("policy", None) \o InBoth("rules", None) \o InBoth("sock", None)

\* remove_policy.
Removal ==
  InBoth("policy", None) \o InBoth("rules", None) \o InBoth("network", None) \o InBoth("sock", None)

Become(a, j) == job' = [job EXCEPT ![a] = j]
Go(a, from, to) ==
  /\ job[a].at = from /\ job[a].todo = <<>>
  /\ Become(a, [job[a] EXCEPT !.at = to])

\* get_policy_value: one mirror after the other, each under its own lock.
Snapshot(a) ==
  LET j == job[a]
      old == Append(j.old, mirror[j.container][Snapshotted[Len(j.old) + 1]])
  IN /\ j.at = "snapshot"
     /\ Become(a, IF Len(old) < Len(Snapshotted)
                    THEN [j EXCEPT !.old = old]
                    ELSE [j EXCEPT !.at = "writing", !.old = old, !.todo = Update(j.entry)])
     /\ UNCHANGED <<files, ebpf, proxy, tracking, monitor, bounds, history>>

\* One write of one copy of one map.
WriteMap(a) ==
  LET c == job[a].container
      w == Head(job[a].todo)
  IN /\ job[a].todo # <<>>
     /\ Become(a, [job[a] EXCEPT !.todo = Tail(@)])
     /\ IF w.copy = "kernel"
          THEN kernel' = [kernel EXCEPT ![c][w.map] = w.entry] /\ UNCHANGED mirror
          ELSE mirror' = [mirror EXCEPT ![c][w.map] = w.entry] /\ UNCHANGED kernel
     /\ UNCHANGED <<files, proxy, tracking, monitor, bounds, history>>

Written(a) == job[a].at = "writing" /\ job[a].todo = <<>>
Refused(a) == job[a].entry.config \in Oversized \cup BadNetwork
\* What follows a policy that is in force everywhere.
Accepted(a) ==
  Become(a, IF a = "sock" THEN [job[a] EXCEPT !.at = "tracking", !.old = <<>>, !.before = NoEntries]
            ELSE Idle)
RollBack(a) == Become(a, [job[a] EXCEPT !.at = "restoring", !.todo = Restore(job[a].old)])

\* The eBPF update failed: nothing is undone.
UpdateFailed(a) ==
  /\ Written(a) /\ Refused(a)
  /\ Become(a, Idle)
  /\ UNCHANGED <<files, ebpf, proxy, tracking, monitor, bounds, history>>

NothingToPush(a) ==
  /\ Written(a) /\ ~Refused(a) /\ job[a].entry.config \notin Filtered
  /\ Accepted(a)
  /\ UNCHANGED <<files, ebpf, proxy, tracking, monitor, bounds, history>>

Pushing(a) == Written(a) /\ ~Refused(a) /\ job[a].entry.config \in Filtered

PushAccepted(a) ==
  /\ Pushing(a) /\ job[a].entry.config \notin BadFilter
  /\ proxy' = [proxy EXCEPT ![job[a].container] = job[a].entry]
  /\ Accepted(a)
  /\ UNCHANGED <<files, ebpf, tracking, monitor, bounds, history>>

PushRejected(a) ==
  /\ Pushing(a) /\ job[a].entry.config \in BadFilter
  /\ RollBack(a)
  /\ UNCHANGED <<files, ebpf, proxy, tracking, monitor, bounds, history>>

\* The proxy cannot be reached, or its answer is lost after it took the filter.
PushFailed(a) ==
  /\ Pushing(a) /\ faults < MaxFaults
  /\ \/ UNCHANGED proxy
     \/ /\ job[a].entry.config \notin BadFilter
        /\ proxy' = [proxy EXCEPT ![job[a].container] = job[a].entry]
  /\ RollBack(a)
  /\ faults' = faults + 1
  /\ UNCHANGED <<files, ebpf, tracking, monitor, messages, history>>

RolledBack(a) ==
  /\ job[a].at = "restoring" /\ job[a].todo = <<>>
  /\ Become(a, Idle)
  /\ UNCHANGED <<files, ebpf, proxy, tracking, monitor, bounds, history>>

ApplyNext(a) ==
  \/ Snapshot(a) \/ WriteMap(a) \/ UpdateFailed(a) \/ NothingToPush(a)
  \/ PushAccepted(a) \/ PushRejected(a) \/ PushFailed(a) \/ RolledBack(a)

----------------------------------------------------------------------------
(* "sock": apply_container_config and unregister_container.                *)

\* The file is read; without any policy in it the message has no effect.
Register(c, p) ==
  /\ job["sock"].at = "idle"
  /\ messages < MaxMessages
  /\ c \notin history.gone
  /\ messages' = messages + 1
  /\ history' = [history EXCEPT !.asked = @ \cup {<<c, p>>}]
  /\ IF file[p] \in Secured \cup Filtered
       THEN Become("sock", [Idle EXCEPT !.at = "snapshot", !.container = c, !.before = kernel[c],
                                        !.entry = [path |-> p, config |-> file[p]]])
       ELSE UNCHANGED job
  /\ UNCHANGED <<files, ebpf, proxy, tracking, monitor, faults>>

Track ==
  LET c == job["sock"].container
  IN /\ Go("sock", "tracking", "watching")
     /\ registered' = registered \cup {c}
     /\ configs' = [configs EXCEPT ![c] = job["sock"].entry.path]
     /\ history' = IF job["sock"].entry.config \in Secured THEN history
                   ELSE [history EXCEPT !.bare = @ \cup {c}]
     /\ UNCHANGED <<files, ebpf, proxy, monitor, bounds>>

\* Mutant: a file that cannot be read at this moment is not watched.
WatchReadable ==
  LET e == job["sock"].entry
  IN /\ job["sock"].at = "watching"
     /\ Become("sock", [job["sock"] EXCEPT !.at = "blocking", !.todo = InBoth("sock", e)])
     /\ watched' = IF watched[e.path] # Unwatched \/ file[e.path] = Absent THEN watched
                   ELSE [watched EXCEPT ![e.path] = mtime[e.path]]
     /\ UNCHANGED <<files, ebpf, proxy, tracking, poll, queue, bounds, history>>

\* add_watch keeps the time of a path that is watched already.
AddWatch ==
  LET e == job["sock"].entry
  IN /\ job["sock"].at = "watching"
     /\ Become("sock", [job["sock"] EXCEPT !.at = "blocking", !.todo = InBoth("sock", e)])
     /\ watched' = IF watched[e.path] # Unwatched THEN watched
                   ELSE [watched EXCEPT ![e.path] = IF file[e.path] = Absent THEN 0 ELSE mtime[e.path]]
     /\ UNCHANGED <<files, ebpf, proxy, tracking, poll, queue, bounds, history>>

\* block_sock_access is done: the hook is answered.
SockBlocked ==
  /\ job["sock"].at = "blocking" /\ job["sock"].todo = <<>>
  /\ Become("sock", Idle)
  /\ UNCHANGED <<files, ebpf, proxy, tracking, monitor, bounds, history>>

WatcherHas(c) == job["watcher"].container = c

Unregister(c) ==
  /\ job["sock"].at = "idle"
  /\ messages < MaxMessages
  /\ messages' = messages + 1
  /\ Become("sock", [Idle EXCEPT !.at = "removing", !.container = c, !.todo = Removal])
  /\ history' = [history EXCEPT !.gone = @ \cup {c},
                                !.overlapped = IF WatcherHas(c) THEN @ \cup {c} ELSE @]
  /\ UNCHANGED <<files, ebpf, proxy, tracking, monitor, faults>>

\* remove_container: an error is logged and nothing else.
TellProxy ==
  LET c == job["sock"].container
  IN /\ Go("sock", "removing", "untracking")
     /\ \/ /\ proxy' = [proxy EXCEPT ![c] = None]
           /\ UNCHANGED <<faults, history>>
        \/ /\ faults < MaxFaults
           /\ faults' = faults + 1
           /\ history' = [history EXCEPT !.unheard = @ \cup {c}]
           /\ UNCHANGED proxy
     /\ UNCHANGED <<files, ebpf, tracking, monitor, messages>>

Untrack ==
  LET c == job["sock"].container
  IN /\ job["sock"].at = "untracking"
     /\ configs' = [configs EXCEPT ![c] = None]
     /\ Become("sock", [job["sock"] EXCEPT !.at = "forgetting"])
     /\ watched' = IF configs[c] = None THEN watched
                   ELSE [watched EXCEPT ![configs[c]] = Unwatched]
     /\ UNCHANGED <<files, ebpf, proxy, registered, poll, queue, bounds, history>>

Forget ==
  /\ job["sock"].at = "forgetting"
  /\ registered' = registered \ {job["sock"].container}
  /\ Become("sock", Idle)
  /\ UNCHANGED <<files, ebpf, proxy, configs, monitor, bounds, history>>

SockNext ==
  \/ ApplyNext("sock") \/ Track \/ AddWatch \/ SockBlocked
  \/ TellProxy \/ Untrack \/ Forget

----------------------------------------------------------------------------
(* "watcher": the callback of start_config_monitor.                        *)

\* A path is received and its file parsed; an unreadable file ends it.
TakeChange ==
  LET p == Head(queue)
  IN /\ job["watcher"].at = "idle"
     /\ queue # <<>>
     /\ queue' = Tail(queue)
     /\ IF file[p] = Absent THEN UNCHANGED job
        ELSE Become("watcher", [Idle EXCEPT !.at = "lookup", !.entry = [path |-> p, config |-> file[p]]])
     /\ UNCHANGED <<files, ebpf, proxy, tracking, watched, poll, bounds, history>>

\* Mutant: the policy goes to any registered container.
FindAnyOwner ==
  /\ job["watcher"].at = "lookup"
  /\ \/ \E c \in Containers :
          /\ configs[c] # None
          /\ Become("watcher", [job["watcher"] EXCEPT !.at = "snapshot", !.container = c])
          /\ history' = history
     \/ /\ \A c \in Containers : configs[c] = None
        /\ Become("watcher", Idle)
        /\ UNCHANGED history
  /\ UNCHANGED <<files, ebpf, proxy, tracking, monitor, bounds>>

\* One of the containers registered with the path, if there is one.
FindOwner ==
  /\ job["watcher"].at = "lookup"
  /\ \/ \E c \in Containers :
          /\ configs[c] = job["watcher"].entry.path
          /\ Become("watcher", [job["watcher"] EXCEPT !.at = "snapshot", !.container = c])
          /\ history' = [history EXCEPT !.overlapped = IF c \in history.gone THEN @ \cup {c} ELSE @]
     \/ /\ \A c \in Containers : configs[c] # job["watcher"].entry.path
        /\ Become("watcher", Idle)
        /\ UNCHANGED history
  /\ UNCHANGED <<files, ebpf, proxy, tracking, monitor, bounds>>

WatcherNext == ApplyNext("watcher") \/ TakeChange \/ FindOwner

----------------------------------------------------------------------------
Message == \E c \in Containers : Unregister(c) \/ \E p \in Paths : Register(c, p)
Editing == \E p \in Paths, g \in Configs \cup {Absent} : Edit(p, g)

Next == Message \/ Editing \/ SockNext \/ WatcherNext \/ PollNext

Spec == Init /\ [][Next]_vars

(***************************************************************************)
(* Each thread keeps running; the proxy answers or fails. Nobody has to    *)
(* send a message or to edit a file.                                       *)
(***************************************************************************)
FairSpec == Spec /\ WF_vars(SockNext) /\ WF_vars(WatcherNext) /\ WF_vars(PollNext)

----------------------------------------------------------------------------
(* Properties.                                                             *)

SockOn(c) == job["sock"].container = c

(***************************************************************************)
(* What the kernel and the proxy enforce on a container comes from a file  *)
(* that container was registered with, whatever the watcher does.          *)
(***************************************************************************)
OwnPolicyOnly ==
  \A c \in Containers :
    \A e \in {kernel[c][m] : m \in Maps} \cup {proxy[c]} :
      e # None => <<c, e.path>> \in history.asked

(***************************************************************************)
(* A registered container whose registrations all had a [security] section *)
(* is never without a policy in the kernel: not while an update replaces   *)
(* it, nor when the rollback of "sock" or of "watcher" races with the      *)
(* other's update.                                                         *)
(***************************************************************************)
NeverUnprotected ==
  \A c \in registered \ (history.bare \cup history.gone) : kernel[c]["policy"] # None

(***************************************************************************)
(* The end of unregister_container leaves nothing of the container, unless *)
(* the watcher was applying its file at the time; the proxy keeps its      *)
(* filter only when remove_container did not reach it.                     *)
(***************************************************************************)
GoneIsClean ==
  \A c \in history.gone \ history.overlapped :
    ~SockOn(c) =>
      /\ kernel[c] = NoEntries /\ mirror[c] = NoEntries
      /\ c \notin history.unheard => proxy[c] = None

(***************************************************************************)
(* When "sock" is at rest its tables agree, and the file of a registered   *)
(* container is watched, unless it was ever shared (remove_watch is not    *)
(* counted).                                                               *)
(***************************************************************************)
TrackedIsWatched ==
  job["sock"].at = "idle" =>
    /\ registered = {c \in Containers : configs[c] # None}
    /\ \A c \in registered :
         (\A d \in Containers \ {c} : <<d, configs[c]>> \notin history.asked)
           => watched[configs[c]] # Unwatched

\* Whatever the threads interleave, every table keeps its type and the tables agree.
TablesAreSound == TypeOK /\ TrackedIsWatched

(***************************************************************************)
(* An edit that the monitor has not seen yet comes into force in the       *)
(* kernel and stays there until the next edit or message; or the proxy     *)
(* does not take its filter and the watcher rolls it back, which nothing   *)
(* tries again: an edit may be lost to an unreachable proxy.  Nothing is   *)
(* claimed of a container that is being registered or removed, that shares *)
(* its file, or whose file has no policy to apply.  (An edited file has a  *)
(* time from 2 on, and a container with a file has sent a message.)        *)
(***************************************************************************)
Stale(c) == configs[c] # None /\ watched[configs[c]] \notin {Unwatched, mtime[configs[c]]}
InForce(c, p) ==
  \/ file[p] \notin Secured \ (Oversized \cup BadNetwork)
  \/ file[p] \in BadFilter
  \/ \A m \in {"policy", "rules", "network"} : kernel[c][m] = [path |-> p, config |-> file[p]]
Shared(c) == \E d \in Containers \ {c} : configs[d] = configs[c]
RollsBack(a, c) == job[a].at = "restoring" /\ job[a].container = c

ChangeIsApplied ==
  \A c \in Containers, p \in Paths, time \in 2 .. MaxEdits + 1, sent \in 1 .. MaxMessages :
    (Stale(c) /\ configs[c] = p /\ mtime[p] = time /\ messages = sent)
      ~> (\/ SockOn(c) \/ Shared(c) \/ RollsBack("watcher", c)
          \/ [](mtime[p] > time \/ messages > sent \/ InForce(c, p)))

(***************************************************************************)
(* "Rolls back eBPF policy to the previous value": with nobody editing,    *)
(* a registration the proxy refuses leaves the kernel as it found it.      *)
(***************************************************************************)
RollbackRestores ==
  job["sock"].at = "restoring" /\ job["sock"].todo = <<>> =>
    kernel[job["sock"].container] = job["sock"].before

(***************************************************************************)
(* "Removes all eBPF and proxy state for a container": once it has been    *)
(* unregistered, neither "sock" nor "watcher" being at work, the kernel    *)
(* has no entry of it.                                                     *)
(***************************************************************************)
UnregisterRemovesAll ==
  (\A a \in Actors : job[a].at = "idle") =>
    \A c \in history.gone : kernel[c] = NoEntries
================================================================================

--------------------------- MODULE ShareLifecycle ---------------------------
(***************************************************************************)
(* How the shares of one daemon come and go: the D-Bus methods share_add,  *)
(* share_join, share_remove and the ones that go through a share's command *)
(* channel (src/ipc.rs), the share tasks and the loop of `serve`           *)
(* (src/daemon.rs), the files under shares/<id> (src/share.rs), and the    *)
(* commands that edit those files directly (src/main.rs).                  *)
(*                                                                         *)
(* Every await at which a handler can be overtaken, and every file it      *)
(* writes, ends a step.  The two async mutexes of DaemonRuntime are not    *)
(* variables: who holds one shows in where the handlers are.  A file is    *)
(* known by where its content comes from: this daemon or a ticket.         *)
(***************************************************************************)
EXTENDS Naturals, Sequences, FiniteSets

CONSTANTS
  Shares,           \* share ids
  Installed,        \* shares that were added before
  Calls,            \* D-Bus method calls, each made once
  Kinds,            \* the methods that are called
  Overlap,          \* may a share_remove overlap an add or join of its share?
  BadTickets,       \* may a ticket's log fail to list this daemon?
  DirectWhen,       \* the direct commands run while the daemon is up, down, ...
  Dbus,             \* serve without --no-dbus
  ChannelCap,       \* capacity of a command channel (32 in the code)
  MaxTasks,         \* bound on the tasks spawned for a share
  MaxStops          \* bound on signals and kills

ASSUME LifecycleAssumption ==
  /\ Installed \subseteq Shares
  /\ Kinds \subseteq {"add", "join", "command", "remove"}
  /\ {Overlap, BadTickets, Dbus} \subseteq BOOLEAN
  /\ DirectWhen \subseteq BOOLEAN
  /\ ChannelCap \in Nat \ {0} /\ MaxTasks \in Nat /\ MaxStops \in Nat

VARIABLES
  disk,         \* the files of each share
  serve,        \* where `serve` is
  idleStart,    \* no_shares_at_start
  shares,       \* DaemonRuntime.shares: the registered task of each share, or 0
  task,         \* share tasks; a share's n-th task is <<share, n>>
  mem,          \* AuthState of each task, as its file: where it comes from
  queue,        \* the command channel of each task
  call,         \* where each method call is
  stops,
  cut           \* history: shares that a join or a removal was cut short on

vars == <<disk, serve, idleStart, shares, task, mem, queue, call, stops, cut>>

File == {"config", "keys", "auth", "shadow"}
Content == {"none", "torn", "own", "ticket"}
Gens == 1..MaxTasks
Tasks == Shares \X Gens

CallPc == {"idle", "done",
           "lookup", "shares", "tasks",                    \* load_all, then the locks
           "truncate", "config", "keys", "auth", "spawn",  \* share_add, share_join
           "send", "await",                                \* the command channel
           "delete", "shadow"}                             \* share_remove
Call == [pc : CallPc, kind : Kinds \cup {"none"}, share : Shares \cup {"none"},
         gen : Gens \cup {0}, root : BOOLEAN]

TypeOK ==
  /\ disk \in [Shares -> [File -> Content]]
  /\ serve \in {"down", "top", "polling", "check", "stop"}
  /\ idleStart \in BOOLEAN
  /\ shares \in [Shares -> Gens \cup {0}]
  /\ task \in [Tasks -> {"unborn", "starting", "loop", "busy", "ended"}]
  /\ mem \in [Tasks -> Content]
  /\ queue \in [Tasks -> Seq(Calls)] /\ \A t \in Tasks : Len(queue[t]) <= ChannelCap
  /\ call \in [Calls -> Call]
  /\ stops \in 0..MaxStops
  /\ cut \subseteq Shares

up == serve # "down"

Live(t) == task[t] \in {"starting", "loop", "busy"}

\* A method call that has not returned.
Active(c) == call[c].pc \notin {"idle", "done"}

\* The mutexes rt.shares and rt.tasks.
Writing(c) == call[c].pc \in {"truncate", "config", "keys", "auth", "spawn"}
SharesLocked == \E c \in Calls : call[c].pc = "tasks" \/ Writing(c)
TasksLocked == serve = "polling" \/ \E c \in Calls : Writing(c)

\* share::load_all gives up on a share.json that it cannot parse.
load_all == \A s \in Shares : disk[s]["config"] # "torn"

Configured(s) == disk[s]["config"] \in {"own", "ticket"}

\* The files in shares/<id>.
Dir(s) == {f \in File \ {"shadow"} : disk[s][f] # "none"}

\* load_or_create_keyring.
WithKeys(files) ==
  [files EXCEPT !["keys"] = IF @ = "none" THEN "own" ELSE @]

NoCall(pc) ==
  [pc |-> pc, kind |-> "none", share |-> "none", gen |-> 0,
   root |-> FALSE]

Init ==
  /\ disk = [s \in Shares |-> [f \in File |-> IF s \in Installed THEN "own" ELSE "none"]]
  /\ serve = "down"
  /\ idleStart = FALSE
  /\ shares = [s \in Shares |-> 0]
  /\ task = [t \in Tasks |-> "unborn"]
  /\ mem = [t \in Tasks |-> "none"]
  /\ queue = [t \in Tasks |-> <<>>]
  /\ call = [c \in Calls |-> NoCall("idle")]
  /\ stops = 0
  /\ cut = {}

-----------------------------------------------------------------------------
Go(c, pc) == call' = [call EXCEPT ![c].pc = pc]
Return(c) == call' = [call EXCEPT ![c] = NoCall("done")]

\* Whether a client may make a call of kind k for s now.
MayCall(k, s) ==
  Overlap \/ \A d \in Calls :
    Active(d) /\ call[d].share = s =>
      ~(k = "remove" /\ call[d].kind \in {"add", "join"}) /\
      ~(k \in {"add", "join"} /\ call[d].kind = "remove")

\* DaemonClient: one method call.
Begin(c, k, s) ==
  /\ up /\ Dbus
  /\ call[c].pc = "idle"
  /\ MayCall(k, s)
  /\ call' = [call EXCEPT ![c] =
       [pc |-> IF k = "remove" THEN "lookup" ELSE "shares", kind |-> k, share |-> s,
        gen |-> 0, root |-> FALSE]]
  /\ UNCHANGED <<disk, serve, idleStart, shares, task, mem, queue, stops, cut>>
-----------------------------------------------------------------------------
(***************************************************************************)
(* share_add and share_join, under both locks from AcquireTasks to Spawn.  *)
(***************************************************************************)
AcquireShares(c) ==
  /\ call[c].pc = "shares" /\ call[c].kind \in {"add", "join"}
  /\ ~SharesLocked
  /\ Go(c, "tasks")
  /\ UNCHANGED <<disk, serve, idleStart, shares, task, mem, queue, stops, cut>>

AcquireTasks_unchecked(c) ==
  /\ call[c].pc = "tasks"
  /\ ~TasksLocked
  /\ Go(c, "truncate")
  /\ UNCHANGED <<disk, serve, idleStart, shares, task, mem, queue, stops, cut>>

\* The second lock, and the checks: share_add looks only at the map.
AcquireTasks(c) ==
  LET s == call[c].share
      refused == \/ shares[s] # 0
                 \/ call[c].kind = "join" /\ (~load_all \/ Configured(s))
  IN
  /\ call[c].pc = "tasks"
  /\ ~TasksLocked
  /\ IF refused THEN Return(c) ELSE Go(c, "truncate")
  /\ UNCHANGED <<disk, serve, idleStart, shares, task, mem, queue, stops, cut>>

Origin(c) == IF call[c].kind = "join" THEN "ticket" ELSE "own"

\* ShareConfig::save: fs::write empties share.json and then fills it.
TruncateConfig(c) ==
  /\ call[c].pc = "truncate"
  /\ disk' = [disk EXCEPT ![call[c].share]["config"] = "torn"]
  /\ Go(c, "config")
  /\ UNCHANGED <<serve, idleStart, shares, task, mem, queue, stops, cut>>

WriteConfig(c) ==
  /\ call[c].pc = "config"
  /\ disk' = [disk EXCEPT ![call[c].share]["config"] = Origin(c)]
  /\ Go(c, IF call[c].kind = "join" THEN "keys" ELSE "auth")
  /\ UNCHANGED <<serve, idleStart, shares, task, mem, queue, stops, cut>>

InstallKeyring_kept(c) ==
  /\ call[c].pc = "keys"
  /\ disk' = [disk EXCEPT ![call[c].share] = WithKeys(@)]
  /\ Go(c, "auth")
  /\ UNCHANGED <<serve, idleStart, shares, task, mem, queue, stops, cut>>

\* install_keyring refuses to overwrite keys.bin, and the join ends there.
InstallKeyring(c) ==
  LET s == call[c].share IN
  /\ call[c].pc = "keys"
  /\ \/ /\ disk[s]["keys"] = "none"
        /\ disk' = [disk EXCEPT ![s]["keys"] = "ticket"]
        /\ Go(c, "auth")
        /\ UNCHANGED cut
     \/ /\ disk[s]["keys"] # "none"
        /\ Return(c)
        /\ cut' = cut \cup {s}
        /\ UNCHANGED disk
  /\ UNCHANGED <<serve, idleStart, shares, task, mem, queue, stops>>

\* auth::save of the new group, or of the ticket's log once it is replayed.
WriteAuthLog(c) ==
  LET s == call[c].share IN
  /\ call[c].pc = "auth"
  /\ \/ /\ disk' = [disk EXCEPT ![s]["auth"] = Origin(c)]
        /\ Go(c, "spawn")
        /\ UNCHANGED cut
     \/ /\ BadTickets /\ call[c].kind = "join"
        /\ Return(c)
        /\ cut' = cut \cup {s}
        /\ UNCHANGED disk
  /\ UNCHANGED <<serve, idleStart, shares, task, mem, queue, stops>>

\* The number of the task that spawn_share_task spawns for s.
NextGen(s) == CHOOSE g \in Gens : task[<<s, g>>] = "unborn"

MaySpawn(s) == \E g \in Gens : task[<<s, g>>] = "unborn"

\* spawn_share_task, and the insertion into the map.
Spawn(c) ==
  LET s == call[c].share  g == NextGen(s) IN
  /\ call[c].pc = "spawn" /\ MaySpawn(s)
  /\ disk' = [disk EXCEPT ![s] = WithKeys(@)]
  /\ task' = [task EXCEPT ![<<s, g>>] = "starting"]
  /\ mem' = [mem EXCEPT ![<<s, g>>] = disk[s]["auth"]]
  /\ shares' = [shares EXCEPT ![s] = g]
  /\ Return(c)
  /\ UNCHANGED <<serve, idleStart, queue, stops, cut>>
-----------------------------------------------------------------------------
(***************************************************************************)
(* share_invite, share_revoke, share_rotate_key, share_members: look up    *)
(* the channel, send, wait for the reply.                                  *)
(***************************************************************************)
\* share_sender.
Lookup(c) ==
  LET g == shares[call[c].share] IN
  /\ call[c].pc = "shares" /\ call[c].kind = "command"
  /\ ~SharesLocked
  /\ IF g = 0 THEN Return(c) ELSE call' = [call EXCEPT ![c].pc = "send", ![c].gen = g]
  /\ UNCHANGED <<disk, serve, idleStart, shares, task, mem, queue, stops, cut>>

\* What a caller does when there is no task to answer it: share_remove takes
\* it for a shutdown that has already happened.
Unanswered(r) ==
  IF r.kind = "remove" THEN [r EXCEPT !.pc = "delete"] ELSE NoCall("done")

Send_unbounded(c) ==
  LET t == <<call[c].share, call[c].gen>> IN
  /\ call[c].pc = "send" /\ Live(t)
  /\ queue' = [queue EXCEPT ![t] = Append(@, c)]
  /\ Go(c, "await")
  /\ UNCHANGED <<disk, serve, idleStart, shares, task, mem, stops, cut>>

Send_hurries(c) ==
  LET t == <<call[c].share, call[c].gen>> IN
  /\ call[c].pc = "send" /\ Live(t)
  /\ queue' = [queue EXCEPT ![t] = Append(@, c)]
  /\ call' = [call EXCEPT ![c] = Unanswered(@)]
  /\ UNCHANGED <<disk, serve, idleStart, shares, task, mem, stops, cut>>

Send(c) ==
  LET t == <<call[c].share, call[c].gen>> IN
  /\ call[c].pc = "send"
  /\ \/ /\ Live(t) /\ Len(queue[t]) < ChannelCap
        /\ queue' = [queue EXCEPT ![t] = Append(@, c)]
        /\ Go(c, "await")
     \/ /\ ~Live(t)
        /\ call' = [call EXCEPT ![c] = Unanswered(@)]
        /\ UNCHANGED queue
  /\ UNCHANGED <<disk, serve, idleStart, shares, task, mem, stops, cut>>
-----------------------------------------------------------------------------
(***************************************************************************)
(* share_remove.                                                           *)
(***************************************************************************)
\* load_all, for the root of the share.
RemoveLookup(c) ==
  /\ call[c].pc = "lookup"
  /\ IF load_all
     THEN call' = [call EXCEPT ![c].pc = "shares", ![c].root = Configured(call[c].share)]
     ELSE Return(c)
  /\ UNCHANGED <<disk, serve, idleStart, shares, task, mem, queue, stops, cut>>

Deregister_silent(c) ==
  LET s == call[c].share IN
  /\ call[c].pc = "shares" /\ call[c].kind = "remove"
  /\ ~SharesLocked
  /\ shares' = [shares EXCEPT ![s] = 0]
  /\ Go(c, "delete")
  /\ UNCHANGED <<disk, serve, idleStart, task, mem, queue, stops, cut>>

Deregister_keeps(c) ==
  LET s == call[c].share IN
  /\ call[c].pc = "shares" /\ call[c].kind = "remove"
  /\ ~SharesLocked
  /\ call' = [call EXCEPT ![c].pc = IF shares[s] = 0 THEN "delete" ELSE "send",
                          ![c].gen = shares[s]]
  /\ UNCHANGED <<disk, serve, idleStart, shares, task, mem, queue, stops, cut>>

\* The sender leaves the map; the lock is released here.
Deregister(c) ==
  LET s == call[c].share IN
  /\ call[c].pc = "shares" /\ call[c].kind = "remove"
  /\ ~SharesLocked
  /\ shares' = [shares EXCEPT ![s] = 0]
  /\ call' = [call EXCEPT ![c].pc = IF shares[s] = 0 THEN "delete" ELSE "send",
                          ![c].gen = shares[s]]
  /\ UNCHANGED <<disk, serve, idleStart, task, mem, queue, stops, cut>>

\* share::remove, file by file; without a directory it is an error.
RemoveDir(c) ==
  LET s == call[c].share IN
  /\ call[c].pc = "delete"
  /\ \/ \E f \in Dir(s) :
          /\ disk' = [disk EXCEPT ![s][f] = "none"]
          /\ IF Dir(s) # {f} THEN UNCHANGED call
             ELSE IF call[c].root THEN Go(c, "shadow") ELSE Return(c)
     \/ /\ Dir(s) = {}
        /\ Return(c)
        /\ UNCHANGED disk
  /\ UNCHANGED <<serve, idleStart, shares, task, mem, queue, stops, cut>>

RemoveShadow(c) ==
  /\ call[c].pc = "shadow"
  /\ disk' = [disk EXCEPT ![call[c].share]["shadow"] = "none"]
  /\ Return(c)
  /\ UNCHANGED <<serve, idleStart, shares, task, mem, queue, stops, cut>>
-----------------------------------------------------------------------------
(***************************************************************************)
(* Share tasks (run_share and its loops).                                  *)
(***************************************************************************)
Dropped_silently(t, calls) == calls

\* The callers whose commands, or replies, are dropped with the channel of t.
Dropped(t, calls) ==
  [c \in Calls |->
     IF \E i \in 1..Len(queue[t]) : queue[t][i] = c THEN Unanswered(calls[c]) ELSE calls[c]]

Ended(t) ==
  /\ task' = [task EXCEPT ![t] = "ended"]
  /\ mem' = [mem EXCEPT ![t] = "none"]
  /\ queue' = [queue EXCEPT ![t] = <<>>]
  /\ call' = Dropped(t, call)

\* The start is over, or a fetch: the loop selects again.
TaskReady(t) ==
  /\ task[t] \in {"starting", "busy"}
  /\ task' = [task EXCEPT ![t] = "loop"]
  /\ disk' = [disk EXCEPT ![t[1]]["shadow"] = "own"]
  /\ UNCHANGED <<serve, idleStart, shares, mem, queue, call, stops, cut>>

\* An announce is fetched; commands wait.
TaskBusy(t) ==
  /\ task[t] = "loop"
  /\ task' = [task EXCEPT ![t] = "busy"]
  /\ UNCHANGED <<disk, serve, idleStart, shares, mem, queue, call, stops, cut>>

\* The start fails, or the gossip stream ends.  Nobody tells the map.
TaskFails(t) ==
  /\ task[t] \in {"starting", "loop"}
  /\ Ended(t)
  /\ UNCHANGED <<disk, serve, idleStart, shares, stops, cut>>

\* handle_revoke: auth::save of the log in memory, and rotate_keyring, which
\* makes up a keyring when there is none.
Saved(files, log) ==
  [WithKeys(files) EXCEPT !["auth"] = IF log = "none" THEN @ ELSE log]

\* handle_share_command: a command answers, and may write keys.bin and
\* auth.log from what the task has in memory.
TaskCommand(t) ==
  LET c == Head(queue[t]) IN
  /\ task[t] = "loop" /\ queue[t] # <<>> /\ call[c].kind = "command"
  /\ queue' = [queue EXCEPT ![t] = Tail(@)]
  /\ Return(c)
  /\ \/ UNCHANGED disk
     \/ disk' = [disk EXCEPT ![t[1]] = Saved(@, mem[t])]
  /\ UNCHANGED <<serve, idleStart, shares, task, mem, stops, cut>>

\* ShareCommand::Shutdown: the reply, and then the rest is dropped.
TaskShutdown(t) ==
  /\ task[t] = "loop" /\ queue[t] # <<>> /\ call[Head(queue[t])].kind = "remove"
  /\ Ended(t)
  /\ UNCHANGED <<disk, serve, idleStart, shares, stops, cut>>
-----------------------------------------------------------------------------
(***************************************************************************)
(* serve, and the end of the process.                                      *)
(***************************************************************************)
\* lock::acquire, load_all, and a task for each share, before any method
\* can be called.
Start ==
  LET configured == {s \in Shares : Configured(s)} IN
  /\ serve = "down"
  /\ load_all
  /\ \A s \in configured : MaySpawn(s)
  /\ disk' = [s \in Shares |-> IF s \in configured THEN WithKeys(disk[s]) ELSE disk[s]]
  /\ task' = [t \in Tasks |->
       IF t[1] \in configured /\ t[2] = NextGen(t[1]) THEN "starting" ELSE task[t]]
  /\ mem' = [t \in Tasks |->
       IF t[1] \in configured /\ t[2] = NextGen(t[1]) THEN disk[t[1]]["auth"] ELSE mem[t]]
  /\ shares' = [s \in Shares |-> IF s \in configured THEN NextGen(s) ELSE 0]
  /\ idleStart' = (configured = {})
  /\ serve' = "top"
  /\ UNCHANGED <<queue, call, stops, cut>>

\* The loop takes the tasks lock, waits up to 250 ms for a task to end,
\* releases the lock, and then looks at the map.
ServePoll ==
  /\ serve = "top" /\ ~TasksLocked
  /\ serve' = "polling"
  /\ UNCHANGED <<disk, idleStart, shares, task, mem, queue, call, stops, cut>>

ServeJoined ==
  /\ serve = "polling"
  /\ serve' = "check"
  /\ UNCHANGED <<disk, idleStart, shares, task, mem, queue, call, stops, cut>>

ServeCheck ==
  LET finished == (\A s \in Shares : shares[s] = 0) /\ ~idleStart /\ ~Dbus IN
  /\ serve = "check" /\ ~SharesLocked
  /\ serve' = IF finished THEN "stop" ELSE "top"
  /\ UNCHANGED <<disk, idleStart, shares, task, mem, queue, call, stops, cut>>

\* SIGINT or SIGTERM.
Signal ==
  /\ serve \in {"polling", "check"} /\ stops < MaxStops
  /\ serve' = "stop"
  /\ stops' = stops + 1
  /\ UNCHANGED <<disk, idleStart, shares, task, mem, queue, call, cut>>

\* The process is gone, with all that it had in memory.
Exit ==
  /\ serve' = "down"
  /\ shares' = [s \in Shares |-> 0]
  /\ task' = [t \in Tasks |-> IF Live(t) THEN "ended" ELSE task[t]]
  /\ mem' = [t \in Tasks |-> "none"]
  /\ queue' = [t \in Tasks |-> <<>>]
  /\ call' = [c \in Calls |-> IF Active(c) THEN NoCall("done") ELSE call[c]]
  /\ UNCHANGED <<disk, idleStart>>

\* finish_shutdown takes the tasks lock; a handler that is between two
\* awaits runs to the second.
FinishShutdown ==
  /\ serve = "stop" /\ ~TasksLocked
  /\ \A c \in Calls : call[c].pc \notin {"delete", "shadow"}
  /\ Exit
  /\ UNCHANGED <<stops, cut>>

\* A kill or a power failure, between any two writes.
Kill ==
  /\ up /\ stops < MaxStops
  /\ stops' = stops + 1
  /\ cut' = cut \cup {s \in Shares : \E c \in Calls :
       /\ call[c].share = s
       /\ \/ call[c].kind = "join" /\ call[c].pc \in {"keys", "auth"}
          \/ call[c].pc = "delete"}
  /\ Exit
-----------------------------------------------------------------------------
(***************************************************************************)
(* The commands that are given --data-dir edit the files themselves.       *)
(***************************************************************************)
DirectAdd(s) ==
  /\ up \in DirectWhen
  /\ disk' = [disk EXCEPT ![s]["config"] = "own", ![s]["auth"] = "own"]
  /\ UNCHANGED <<serve, idleStart, shares, task, mem, queue, call, stops, cut>>

DirectJoin(s) ==
  /\ up \in DirectWhen
  /\ load_all /\ ~Configured(s)
  /\ \/ /\ disk[s]["keys"] = "none"
        /\ disk' = [disk EXCEPT ![s] = [f \in File |-> IF f = "shadow" THEN @[f] ELSE "ticket"]]
        /\ UNCHANGED cut
     \/ /\ disk[s]["keys"] # "none" \/ BadTickets
        /\ disk' = [disk EXCEPT ![s]["config"] = "ticket",
                                ![s]["keys"] = IF @ = "none" THEN "ticket" ELSE @]
        /\ cut' = cut \cup {s}
  /\ UNCHANGED <<serve, idleStart, shares, task, mem, queue, call, stops>>

DirectRemove(s) ==
  /\ up \in DirectWhen
  /\ load_all /\ Dir(s) # {}
  /\ disk' = [disk EXCEPT ![s] = [f \in File |-> IF f = "shadow" /\ ~Configured(s) THEN @[f] ELSE "none"]]
  /\ UNCHANGED <<serve, idleStart, shares, task, mem, queue, call, stops, cut>>
-----------------------------------------------------------------------------
CallStep(c) ==
  \/ AcquireShares(c) \/ AcquireTasks(c)
  \/ TruncateConfig(c) \/ WriteConfig(c) \/ InstallKeyring(c) \/ WriteAuthLog(c) \/ Spawn(c)
  \/ Lookup(c) \/ Send(c)
  \/ RemoveLookup(c) \/ Deregister(c) \/ RemoveDir(c) \/ RemoveShadow(c)

Next ==
  \/ \E c \in Calls, k \in Kinds, s \in Shares : Begin(c, k, s)
  \/ \E c \in Calls : CallStep(c)
  \/ \E t \in Tasks :
       TaskReady(t) \/ TaskBusy(t) \/ TaskFails(t) \/ TaskCommand(t) \/ TaskShutdown(t)
  \/ Start \/ ServePoll \/ ServeJoined \/ ServeCheck \/ Signal \/ FinishShutdown \/ Kill
  \/ \E s \in Shares : DirectAdd(s) \/ DirectJoin(s) \/ DirectRemove(s)

Spec == Init /\ [][Next]_vars
-----------------------------------------------------------------------------
(***************************************************************************)
(* Fairness.  Handlers and the loop of serve go on; tokio's mutexes and    *)
(* the permits of a channel are handed out in the order in which they are  *)
(* asked for, and select! picks among its ready branches at random, hence  *)
(* strong fairness; a start and a fetch end.                               *)
(***************************************************************************)
WaitsForLock(c) == AcquireShares(c) \/ AcquireTasks(c) \/ Lookup(c) \/ Deregister(c)

Fairness ==
  /\ \A c \in Calls : WF_vars(CallStep(c)) /\ SF_vars(WaitsForLock(c)) /\ SF_vars(Send(c))
  /\ \A t \in Tasks : WF_vars(TaskReady(t)) /\ SF_vars(TaskCommand(t) \/ TaskShutdown(t))
  /\ WF_vars(ServePoll \/ ServeJoined \/ ServeCheck \/ FinishShutdown)

FairSpec == Spec /\ Fairness
-----------------------------------------------------------------------------
(* Two tasks never run the same share: they would watch and write the same *)
(* root.  (The comments in share_add and share_remove on what their locks  *)
(* are for.)                                                               *)
OneTaskPerShare ==
  \A s \in Shares, g, h \in Gens : Live(<<s, g>>) /\ Live(<<s, h>>) => g = h

(* share_list: the map of running shares is a subset of the shares on      *)
(* disk, so whatever runs is listed, and comes back after a restart.       *)
SharesOnDisk ==
  \A s \in Shares : shares[s] # 0 => Configured(s)

\* A share_remove that has still to send the Shutdown to t, or has sent it.
Stopping(c, t) ==
  /\ call[c].kind = "remove" /\ <<call[c].share, call[c].gen>> = t
  /\ \/ call[c].pc = "send"
     \/ call[c].pc = "await" /\ \E i \in 1..Len(queue[t]) : queue[t][i] = c

(* A running task can be stopped: it is in the map, or the share_remove    *)
(* that took it out of the map is about to stop it.                        *)
TasksCanBeStopped ==
  \A t \in Tasks : Live(t) => shares[t[1]] = t[2] \/ \E c \in Calls : Stopping(c, t)

(* share_remove deletes the files of the task that it took out of the map  *)
(* only once that task has ended, and can write them no more.              *)
EndsBeforeItsFiles ==
  \A c \in Calls :
    call[c].pc \in {"delete", "shadow"} /\ call[c].gen # 0 =>
      task[<<call[c].share, call[c].gen>>] = "ended"

(* A share that was joined runs with the keys of its ticket, unless a stop *)
(* or an error came between the files of a join or a removal:              *)
(* load_or_create_keyring then makes up a key that no other member has.    *)
JoinedSharesHaveTheirKeys ==
  \A s \in Shares :
    shares[s] # 0 /\ disk[s]["config"] = "ticket" /\ s \notin cut => disk[s]["keys"] = "ticket"

(* Every method call returns, also when the task it waits for ends, is     *)
(* shut down by another call, or has a full channel.                       *)
CallsReturn == \A c \in Calls : Active(c) ~> ~Active(c)
=============================================================================

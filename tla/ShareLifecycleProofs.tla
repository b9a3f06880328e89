------------------------ MODULE ShareLifecycleProofs ------------------------
(***************************************************************************)
(* The locks of DaemonRuntime keep the map of shares, the share tasks and  *)
(* the files in step, for any number of shares, method calls and stops.    *)
(***************************************************************************)
EXTENDS ShareLifecycle, TLAPS

\* What a call carries, by where it is.
CallOK(r) ==
  /\ r.pc \in {"idle", "done"} => r.kind = "none" /\ r.gen = 0
  /\ r.pc \notin {"idle", "done"} => r.share \in Shares /\ r.kind \in Kinds
  /\ r.pc \in {"lookup", "delete", "shadow"} => r.kind = "remove"
  /\ r.pc \in {"tasks", "truncate", "config", "keys", "auth", "spawn"} => r.kind \in {"add", "join"}
  /\ r.pc = "keys" => r.kind = "join"
  /\ r.pc \in {"send", "await"} => r.kind \in {"command", "remove"} /\ r.gen \in Gens

Typed == TypeOK /\ \A c \in Calls : CallOK(call[c])

\* A handler that holds the lock on the map of shares.
Locking(c) == call[c].pc = "tasks" \/ Writing(c)

\* At most one handler does, and a handler that writes the files of a share
\* has found it out of the map, where nobody else can put it.
LockInv ==
  /\ \A c, d \in Calls : Locking(c) /\ Locking(d) => c = d
  /\ \A c \in Calls : Writing(c) => shares[call[c].share] = 0

\* A command channel holds the calls that wait for its task, each once.
QueueInv ==
  \A t \in Tasks : \A i \in 1..Len(queue[t]) :
    /\ call[queue[t][i]].pc = "await"
    /\ <<call[queue[t][i]].share, call[queue[t][i]].gen>> = t
    /\ \A j \in 1..Len(queue[t]) : queue[t][i] = queue[t][j] => i = j

\* The map and the calls name tasks that have been spawned.
GenInv ==
  /\ \A s \in Shares : shares[s] # 0 => task[<<s, shares[s]>>] # "unborn"
  /\ \A c \in Calls : call[c].gen # 0 => task[<<call[c].share, call[c].gen>>] # "unborn"

\* While the daemon is down nothing of it is there.
DownInv ==
  ~up => /\ \A c \in Calls : ~Active(c)
         /\ \A t \in Tasks : ~Live(t)
         /\ \A s \in Shares : shares[s] = 0

TaskInv ==
  /\ Typed /\ LockInv /\ QueueInv /\ GenInv /\ DownInv
  /\ EndsBeforeItsFiles /\ TasksCanBeStopped

\* Where a share_remove is once it has taken the share out of the map.
RemovePc == {"send", "await", "delete", "shadow"}

\* Without Overlap: the calls that are under way for a share.
Apart(c, d) ==
  /\ Active(c) /\ call[c].kind = "remove"
  /\ Active(d) /\ call[d].kind \in {"add", "join"}
  => call[c].share # call[d].share

ApartInv ==
  /\ \A c, d \in Calls : Apart(c, d)
  /\ \A c \in Calls :
       call[c].kind = "remove" /\ call[c].pc \in RemovePc => shares[call[c].share] = 0

\* A call that is writing or deleting the files of s, between share.json
\* and keys.bin.
Between(c, s) == call[c].share = s /\ call[c].pc \in {"keys", "delete"}

\* keys.bin of a share that was joined, outside those writes.
KeysOf(s) ==
  /\ disk[s]["config"] = "ticket" /\ s \notin cut
  /\ \A c \in Calls : ~Between(c, s)
  => disk[s]["keys"] = "ticket"

KeysInv == \A s \in Shares : KeysOf(s)

\* A handler that is past share.json has written it.
WrittenInv ==
  \A c \in Calls : call[c].pc \in {"keys", "auth", "spawn"} => Configured(call[c].share)
-----------------------------------------------------------------------------
(***************************************************************************)
(* Types: what a call carries at each of its steps.                        *)
(***************************************************************************)
(* A handler that goes on to pc keeps the rest of its call.                *)
LEMMA GoTyped ==
  ASSUME Typed, NEW c \in Calls, NEW pc \in CallPc, Go(c, pc), Active(c),
         \/ pc \in {"tasks", "truncate", "config", "auth", "spawn"} /\ call[c].kind \in {"add", "join"}
         \/ pc = "keys" /\ call[c].kind = "join"
         \/ pc = "await" /\ call[c].pc = "send"
         \/ pc = "shadow" /\ call[c].pc = "delete"
  PROVE  /\ call' \in [Calls -> Call] /\ \A d \in Calls : CallOK(call'[d])
         /\ call'[c].pc = pc /\ call'[c].kind = call[c].kind
         /\ call'[c].share = call[c].share /\ call'[c].gen = call[c].gen
         /\ \A d \in Calls \ {c} : call'[d] = call[d]
<1>1. /\ call' \in [Calls -> Call]
      /\ call'[c].pc = pc /\ call'[c].kind = call[c].kind
      /\ call'[c].share = call[c].share /\ call'[c].gen = call[c].gen
      /\ \A d \in Calls \ {c} : call'[d] = call[d]
  BY DEF Go, Typed, TypeOK, Call
<1>2. CallOK(call'[c])
  BY <1>1 DEF Active, Typed, CallOK
<1> QED
  BY <1>1, <1>2 DEF Typed

(* A call that has returned carries nothing.                               *)
LEMMA NoCallTyped ==
  ASSUME NEW pc \in {"idle", "done"}
  PROVE  /\ NoCall(pc) \in Call /\ CallOK(NoCall(pc))
         /\ NoCall(pc).pc = pc /\ NoCall(pc).gen = 0 /\ NoCall(pc).kind = "none"
BY DEF NoCall, Call, CallOK, CallPc

LEMMA ReturnTyped ==
  ASSUME Typed, NEW c \in Calls, Return(c)
  PROVE  /\ call' \in [Calls -> Call]
         /\ call'[c] = NoCall("done")
         /\ \A d \in Calls \ {c} : call'[d] = call[d]
         /\ \A d \in Calls : CallOK(call'[d])
<1>1. NoCall("done") \in Call /\ CallOK(NoCall("done"))
  BY NoCallTyped
<1> QED
  BY <1>1 DEF Return, Typed, TypeOK

(* The daemon starts with no call made.                                    *)
LEMMA InitTyped == Init => Typed
<1> SUFFICES ASSUME Init PROVE Typed
  OBVIOUS
<1>1. call \in [Calls -> Call] /\ \A c \in Calls : CallOK(call[c])
  BY NoCallTyped DEF Init
<1>2. disk \in [Shares -> [File -> Content]]
  BY DEF Init, Content
<1>3. queue \in [Tasks -> Seq(Calls)] /\ \A t \in Tasks : Len(queue[t]) <= ChannelCap
  BY LifecycleAssumption DEF Init
<1> QED
  <2>1. TypeOK
    <3>1. shares \in [Shares -> Gens \cup {0}] /\ mem \in [Tasks -> Content]
      BY DEF Init, Content
    <3>2. task \in [Tasks -> {"unborn", "starting", "loop", "busy", "ended"}] /\ stops \in 0..MaxStops
      BY LifecycleAssumption DEF Init
    <3>3. serve = "down" /\ idleStart \in BOOLEAN /\ cut \subseteq Shares
      BY DEF Init
    <3> QED
      BY <1>1, <1>2, <1>3, <3>1, <3>2, <3>3 DEF TypeOK
  <2> QED
    BY <1>1, <2>1 DEF Typed

(* A file of a share is written.                                           *)
LEMMA FileWritten ==
  ASSUME Typed, NEW s \in Shares, NEW f \in File, NEW x \in Content
  PROVE  [disk EXCEPT ![s][f] = x] \in [Shares -> [File -> Content]]
BY DEF Typed, TypeOK

LEMMA WithKeysTyped ==
  ASSUME NEW files \in [File -> Content]
  PROVE  /\ WithKeys(files) \in [File -> Content]
         /\ \A f \in File \ {"keys"} : WithKeys(files)[f] = files[f]
         /\ files["keys"] # "none" => WithKeys(files)["keys"] = files["keys"]
BY DEF WithKeys, File, Content

(* spawn_share_task spawns a task that was not there.                      *)
LEMMA NextGenUnborn ==
  ASSUME NEW s \in Shares, MaySpawn(s)
  PROVE  NextGen(s) \in Gens /\ task[<<s, NextGen(s)>>] = "unborn"
BY DEF MaySpawn, NextGen

(* A caller that gets no answer returns, or goes on to delete the files.   *)
LEMMA UnansweredTyped ==
  ASSUME NEW r \in Call, CallOK(r)
  PROVE  /\ Unanswered(r) \in Call /\ CallOK(Unanswered(r))
         /\ r.kind = "remove" => /\ Unanswered(r).pc = "delete" /\ Unanswered(r).kind = "remove"
                                 /\ Unanswered(r).share = r.share /\ Unanswered(r).gen = r.gen
         /\ r.kind # "remove" => Unanswered(r) = NoCall("done")
<1>1. CASE r.kind = "remove"
  BY <1>1 DEF Unanswered, Call, CallOK, CallPc
<1>2. CASE r.kind # "remove"
  BY <1>2, NoCallTyped DEF Unanswered
<1> QED
  BY <1>1, <1>2

(* The steps of a method call.                                             *)
LEMMA CallStepTyped ==
  ASSUME Typed, NEW c \in Calls, CallStep(c)
  PROVE  Typed'
<1> USE LifecycleAssumption
<1>1. CASE AcquireShares(c)
  BY <1>1, GoTyped DEF AcquireShares, Active, Typed, TypeOK, CallPc
<1>2. CASE AcquireTasks(c)
  <2>1. CASE Return(c)
    BY <1>2, <2>1, ReturnTyped DEF AcquireTasks, Typed, TypeOK
  <2>2. CASE Go(c, "truncate")
    <3>1. call[c].kind \in {"add", "join"}
      BY <1>2 DEF AcquireTasks, Typed, CallOK
    <3> QED
      BY <1>2, <2>2, <3>1, GoTyped DEF AcquireTasks, Active, Typed, TypeOK, CallPc
  <2> QED
    BY <1>2, <2>1, <2>2 DEF AcquireTasks
<1>3. CASE TruncateConfig(c)
  <2>1. call[c].kind \in {"add", "join"} /\ call[c].share \in Shares
    BY <1>3 DEF TruncateConfig, Typed, CallOK
  <2>2. disk' \in [Shares -> [File -> Content]]
    BY <1>3, <2>1, FileWritten DEF TruncateConfig, File, Content
  <2> QED
    BY <1>3, <2>1, <2>2, GoTyped DEF TruncateConfig, Active, Typed, TypeOK, CallPc
<1>4. CASE WriteConfig(c)
  <2>1. call[c].kind \in {"add", "join"} /\ call[c].share \in Shares
    BY <1>4 DEF WriteConfig, Typed, CallOK
  <2>2. disk' \in [Shares -> [File -> Content]]
    BY <1>4, <2>1, FileWritten DEF WriteConfig, Origin, File, Content
  <2> QED
    BY <1>4, <2>1, <2>2, GoTyped DEF WriteConfig, Active, Typed, TypeOK, CallPc
<1>5. CASE InstallKeyring(c)
  <2>1. CASE Return(c) /\ UNCHANGED disk
    BY <1>5, <2>1, ReturnTyped DEF InstallKeyring, Typed, TypeOK, CallOK
  <2>2. CASE Go(c, "auth") /\ disk' = [disk EXCEPT ![call[c].share]["keys"] = "ticket"] /\ UNCHANGED cut
    <3>1. call[c].kind = "join" /\ call[c].share \in Shares
      BY <1>5 DEF InstallKeyring, Typed, CallOK
    <3>2. disk' \in [Shares -> [File -> Content]]
      BY <2>2, <3>1, FileWritten DEF File, Content
    <3> QED
      BY <1>5, <2>2, <3>1, <3>2, GoTyped DEF InstallKeyring, Active, Typed, TypeOK, CallPc
  <2> QED
    BY <1>5, <2>1, <2>2 DEF InstallKeyring
<1>6. CASE WriteAuthLog(c)
  <2>1. CASE Return(c) /\ UNCHANGED disk
    BY <1>6, <2>1, ReturnTyped DEF WriteAuthLog, Typed, TypeOK, CallOK
  <2>2. CASE Go(c, "spawn") /\ disk' = [disk EXCEPT ![call[c].share]["auth"] = Origin(c)] /\ UNCHANGED cut
    <3>1. call[c].kind \in {"add", "join"} /\ call[c].share \in Shares
      BY <1>6 DEF WriteAuthLog, Typed, CallOK
    <3>2. disk' \in [Shares -> [File -> Content]]
      BY <2>2, <3>1, FileWritten DEF Origin, File, Content
    <3> QED
      BY <1>6, <2>2, <3>1, <3>2, GoTyped DEF WriteAuthLog, Active, Typed, TypeOK, CallPc
  <2> QED
    BY <1>6, <2>1, <2>2 DEF WriteAuthLog
<1>7. CASE Spawn(c)
  <2> DEFINE s == call[c].share  g == NextGen(s)
  <2>1. s \in Shares /\ Return(c) /\ MaySpawn(s)
    BY <1>7 DEF Spawn, Typed, CallOK
  <2>2. g \in Gens
    BY <2>1, NextGenUnborn
  <2>3. disk' \in [Shares -> [File -> Content]]
    BY <1>7, <2>1, WithKeysTyped DEF Spawn, Typed, TypeOK
  <2>4. /\ shares' \in [Shares -> Gens \cup {0}]
        /\ task' \in [Tasks -> {"unborn", "starting", "loop", "busy", "ended"}]
        /\ mem' \in [Tasks -> Content]
    BY <1>7, <2>1, <2>2 DEF Spawn, Typed, TypeOK, File
  <2> QED
    BY <1>7, <2>1, <2>3, <2>4, ReturnTyped DEF Spawn, Typed, TypeOK
<1>8. CASE Lookup(c)
  <2>1. CASE Return(c)
    BY <1>8, <2>1, ReturnTyped DEF Lookup, Typed, TypeOK
  <2>2. CASE shares[call[c].share] # 0
    <3> DEFINE g == shares[call[c].share]
    <3>1. call[c] \in Call /\ call[c].share \in Shares /\ g \in Gens
      BY <1>8, <2>2 DEF Lookup, Typed, TypeOK, CallOK
    <3>2. /\ call' \in [Calls -> Call] /\ call'[c].pc = "send" /\ call'[c].gen = g
          /\ call'[c].kind = call[c].kind /\ call'[c].share = call[c].share
          /\ \A d \in Calls \ {c} : call'[d] = call[d]
      <4>1. call \in [Calls -> Call] /\ call' = [call EXCEPT ![c].pc = "send", ![c].gen = g]
        BY <1>8, <2>2 DEF Lookup, Typed, TypeOK
      <4> QED
        BY <3>1, <4>1 DEF Call, CallPc
    <3>3. CallOK(call'[c])
      BY <1>8, <3>1, <3>2 DEF Lookup, Typed, CallOK
    <3> QED
      BY <1>8, <3>2, <3>3 DEF Lookup, Typed, TypeOK
  <2> QED
    BY <1>8, <2>1, <2>2 DEF Lookup
<1>9. CASE Send(c)
  <2> DEFINE t == <<call[c].share, call[c].gen>>
  <2>1. t \in Tasks
    BY <1>9 DEF Send, Typed, CallOK, Tasks
  <2>2. CASE Len(queue[t]) < ChannelCap /\ Go(c, "await") /\ queue' = [queue EXCEPT ![t] = Append(@, c)]
    <3>1. /\ queue' \in [Tasks -> Seq(Calls)]
          /\ \A u \in Tasks : Len(queue'[u]) <= ChannelCap
      <4>1. queue[t] \in Seq(Calls) /\ Len(queue[t]) \in Nat
        BY <2>1 DEF Typed, TypeOK
      <4>2. Append(queue[t], c) \in Seq(Calls) /\ Len(Append(queue[t], c)) <= ChannelCap
        BY <2>2, <4>1
      <4> QED
        BY <2>1, <2>2, <4>2 DEF Typed, TypeOK
    <3> QED
      BY <1>9, <2>2, <3>1, GoTyped DEF Send, Active, Typed, TypeOK, CallPc
  <2>3. CASE call' = [call EXCEPT ![c] = Unanswered(@)] /\ UNCHANGED queue
    BY <1>9, <2>3, UnansweredTyped DEF Send, Typed, TypeOK
  <2> QED
    BY <1>9, <2>2, <2>3 DEF Send
<1>10. CASE RemoveLookup(c)
  <2>1. CASE Return(c)
    BY <1>10, <2>1, ReturnTyped DEF RemoveLookup, Typed, TypeOK
  <2>2. CASE load_all
    <3>1. /\ call' \in [Calls -> Call] /\ call'[c].pc = "shares" /\ call'[c].gen = call[c].gen
          /\ call'[c].kind = call[c].kind /\ call'[c].share = call[c].share
          /\ \A d \in Calls \ {c} : call'[d] = call[d]
      <4> DEFINE b == Configured(call[c].share)
      <4>1. call \in [Calls -> Call] /\ call' = [call EXCEPT ![c].pc = "shares", ![c].root = b]
        BY <1>10, <2>2 DEF RemoveLookup, Typed, TypeOK
      <4>2. b \in BOOLEAN
        BY DEF Configured
      <4> HIDE DEF b
      <4>3. call[c] \in Call /\ call'[c] = [call[c] EXCEPT !.pc = "shares", !.root = b]
        BY <4>1
      <4>4. \A x \in BOOLEAN : [call[c] EXCEPT !.pc = "shares", !.root = x] \in Call
        BY <4>3 DEF Call, CallPc
      <4>5. /\ call'[c].pc = "shares" /\ call'[c].gen = call[c].gen
            /\ call'[c].kind = call[c].kind /\ call'[c].share = call[c].share
        BY <4>3 DEF Call
      <4> QED
        BY <4>1, <4>2, <4>3, <4>4, <4>5
    <3>2. CallOK(call'[c])
      BY <1>10, <3>1 DEF RemoveLookup, Typed, CallOK
    <3> QED
      BY <1>10, <3>1, <3>2 DEF RemoveLookup, Typed, TypeOK
  <2> QED
    BY <1>10, <2>1, <2>2 DEF RemoveLookup
<1>11. CASE Deregister(c)
  <2> DEFINE g == shares[call[c].share]
  <2>1. call[c] \in Call /\ call[c].share \in Shares /\ g \in Gens \cup {0}
    BY <1>11 DEF Deregister, Typed, TypeOK, CallOK
  <2>2. /\ call' \in [Calls -> Call] /\ call'[c].gen = g
        /\ call'[c].pc = IF g = 0 THEN "delete" ELSE "send"
        /\ call'[c].kind = call[c].kind /\ call'[c].share = call[c].share
        /\ \A d \in Calls \ {c} : call'[d] = call[d]
    <3> DEFINE q == IF g = 0 THEN "delete" ELSE "send"
               r == [call[c] EXCEPT !.pc = q, !.gen = g]
    <3>1. call' = [call EXCEPT ![c].pc = q, ![c].gen = g]
      BY <1>11 DEF Deregister
    <3>2. call \in [Calls -> Call]
      BY DEF Typed, TypeOK
    <3>3. q \in CallPc
      BY DEF CallPc
    <3> HIDE DEF q, g
    <3>4. r \in Call /\ r.gen = g /\ r.pc = q /\ r.kind = call[c].kind /\ r.share = call[c].share
      BY <2>1, <3>3 DEF Call
    <3>5. call'[c] = r /\ \A d \in Calls \ {c} : call'[d] = call[d]
      BY <3>1, <3>2
    <3>6. call' \in [Calls -> Call]
      <4> HIDE DEF r
      <4> QED BY <3>1, <3>2, <3>4, <3>5
    <3> QED BY <3>4, <3>5, <3>6 DEF q
  <2>3. CallOK(call'[c])
    BY <1>11, <2>1, <2>2 DEF Deregister, Typed, CallOK
  <2>4. shares' \in [Shares -> Gens \cup {0}]
    BY <1>11 DEF Deregister, Typed, TypeOK
  <2> QED
    BY <1>11, <2>2, <2>3, <2>4 DEF Deregister, Typed, TypeOK
<1>12. CASE RemoveDir(c)
  <2>1. disk' \in [Shares -> [File -> Content]]
    <3>1. call[c].share \in Shares
      BY <1>12 DEF RemoveDir, Typed, CallOK
    <3>2. ASSUME NEW f \in Dir(call[c].share), disk' = [disk EXCEPT ![call[c].share][f] = "none"]
          PROVE  disk' \in [Shares -> [File -> Content]]
      BY <3>1, <3>2, FileWritten DEF Dir, Content
    <3> QED
      BY <1>12, <3>2 DEF RemoveDir, Typed, TypeOK
  <2>2. CASE Return(c)
    BY <1>12, <2>1, <2>2, ReturnTyped DEF RemoveDir, Typed, TypeOK
  <2>3. CASE Go(c, "shadow")
    BY <1>12, <2>1, <2>3, GoTyped DEF RemoveDir, Active, Typed, TypeOK, CallPc
  <2>4. CASE UNCHANGED call
    BY <1>12, <2>1, <2>4 DEF RemoveDir, Typed, TypeOK
  <2> QED
    BY <1>12, <2>2, <2>3, <2>4 DEF RemoveDir
<1>13. CASE RemoveShadow(c)
  BY <1>13, ReturnTyped, FileWritten DEF RemoveShadow, Typed, TypeOK, CallOK, File, Content
<1> QED
  BY <1>1, <1>2, <1>3, <1>4, <1>5, <1>6, <1>7, <1>8, <1>9, <1>10, <1>11, <1>12, <1>13
     DEF CallStep

(* The calls that a task drops when it ends.                               *)
LEMMA EndedTyped ==
  ASSUME Typed, NEW t \in Tasks, Ended(t)
  PROVE  /\ task' \in [Tasks -> {"unborn", "starting", "loop", "busy", "ended"}]
         /\ mem' \in [Tasks -> Content]
         /\ queue' \in [Tasks -> Seq(Calls)]
         /\ \A u \in Tasks : Len(queue'[u]) <= ChannelCap
         /\ call' \in [Calls -> Call]
         /\ \A c \in Calls : CallOK(call'[c])
<1>1. \A c \in Calls : Unanswered(call[c]) \in Call /\ CallOK(Unanswered(call[c]))
  BY UnansweredTyped DEF Typed, TypeOK
<1>2. \A c \in Calls : call'[c] \in {call[c], Unanswered(call[c])} /\ call'[c] \in Call /\ CallOK(call'[c])
  BY <1>1 DEF Ended, Dropped, Typed, TypeOK
<1>3. call' \in [Calls -> Call]
  BY <1>2 DEF Ended, Dropped
<1>4. queue' \in [Tasks -> Seq(Calls)] /\ \A u \in Tasks : Len(queue'[u]) <= ChannelCap
  BY LifecycleAssumption DEF Ended, Typed, TypeOK
<1> QED
  BY <1>2, <1>3, <1>4 DEF Ended, Typed, TypeOK, Content

(* handle_share_command leaves share.json alone, and keys.bin if there.    *)
LEMMA CommandWrites ==
  ASSUME Typed, NEW t \in Tasks, TaskCommand(t)
  PROVE  /\ disk' \in [Shares -> [File -> Content]]
         /\ \A s \in Shares : /\ disk'[s]["config"] = disk[s]["config"]
                              /\ disk[s]["keys"] # "none" => disk'[s]["keys"] = disk[s]["keys"]
<1> DEFINE d == disk[t[1]]
           e == Saved(d, mem[t])
<1>1. t[1] \in Shares
  BY DEF Tasks
<1>2. d \in [File -> Content] /\ mem[t] \in Content
  BY <1>1 DEF Typed, TypeOK
<1>3. WithKeys(d)["auth"] \in Content
  BY <1>2, WithKeysTyped DEF File
<1>4. PICK x \in Content : e = [WithKeys(d) EXCEPT !["auth"] = x]
  BY <1>2, <1>3, Zenon DEF Saved
<1>5. /\ e \in [File -> Content] /\ e["config"] = d["config"]
      /\ d["keys"] # "none" => e["keys"] = d["keys"]
  BY <1>2, <1>4, WithKeysTyped DEF File
<1>6. disk' = disk \/ disk' = [disk EXCEPT ![t[1]] = e]
  BY DEF TaskCommand
<1>7. disk \in [Shares -> [File -> Content]]
  BY DEF Typed, TypeOK
<1> HIDE DEF e
<1> QED
  BY <1>1, <1>5, <1>6, <1>7

(* What a direct join writes.                                              *)
LEMMA DirectJoinWrites ==
  ASSUME Typed, NEW s \in Shares, DirectJoin(s)
  PROVE  /\ disk' \in [Shares -> [File -> Content]]
         /\ disk'[s]["keys"] = "ticket" \/ s \in cut'
         /\ \A u \in Shares \ {s} : disk'[u] = disk[u]
<1> DEFINE d == disk[s]
           e == [f \in File |-> IF f = "shadow" THEN d[f] ELSE "ticket"]
           h == [d EXCEPT !["config"] = "ticket", !["keys"] = IF @ = "none" THEN "ticket" ELSE @]
<1>1. d \in [File -> Content] /\ disk \in [Shares -> [File -> Content]]
  BY DEF Typed, TypeOK
<1>2. e \in [File -> Content] /\ e["keys"] = "ticket"
  BY <1>1 DEF File, Content
<1>3. h \in [File -> Content]
  BY <1>1 DEF File, Content
<1>4. \/ disk' = [disk EXCEPT ![s] = e]
      \/ disk' = [disk EXCEPT ![s] = h] /\ s \in cut'
  BY <1>1 DEF DirectJoin
<1> HIDE DEF e, h
<1> QED
  BY <1>1, <1>2, <1>3, <1>4

(* The steps of a share task.                                              *)
LEMMA TaskStepTyped ==
  ASSUME Typed, NEW t \in Tasks,
         TaskReady(t) \/ TaskBusy(t) \/ TaskFails(t) \/ TaskCommand(t) \/ TaskShutdown(t)
  PROVE  Typed'
<1>1. t[1] \in Shares
  BY DEF Tasks
<1>2. CASE TaskReady(t)
  <2>1. disk' \in [Shares -> [File -> Content]]
    BY <1>1, <1>2, FileWritten DEF TaskReady, File, Content
  <2> QED
    BY <1>2, <2>1 DEF TaskReady, Typed, TypeOK
<1>3. CASE TaskBusy(t)
  BY <1>3 DEF TaskBusy, Typed, TypeOK
<1>4. CASE TaskFails(t) \/ TaskShutdown(t)
  BY <1>4, EndedTyped DEF TaskFails, TaskShutdown, Typed, TypeOK
<1>5. CASE TaskCommand(t)
  <2> DEFINE c == Head(queue[t])
  <2>1. queue[t] \in Seq(Calls) /\ queue[t] # <<>>
    BY <1>5 DEF TaskCommand, Typed, TypeOK
  <2>2. c \in Calls /\ Tail(queue[t]) \in Seq(Calls) /\ Len(Tail(queue[t])) <= Len(queue[t])
    BY <2>1
  <2>3. queue' \in [Tasks -> Seq(Calls)] /\ \A u \in Tasks : Len(queue'[u]) <= ChannelCap
    BY <1>5, <2>1, <2>2, LifecycleAssumption DEF TaskCommand, Typed, TypeOK
  <2>4. disk' \in [Shares -> [File -> Content]]
    BY <1>5, CommandWrites
  <2>5. Return(c)
    BY <1>5 DEF TaskCommand
  <2> QED
    BY <1>5, <2>2, <2>3, <2>4, <2>5, ReturnTyped DEF TaskCommand, Typed, TypeOK
<1> QED
  BY <1>2, <1>3, <1>4, <1>5

(* The daemon starts and ends.                                             *)
LEMMA StartTyped ==
  ASSUME Typed, Start
  PROVE  Typed'
<1> DEFINE configured == {s \in Shares : Configured(s)}
<1>1. \A s \in configured : NextGen(s) \in Gens
  BY NextGenUnborn DEF Start
<1>2. disk' \in [Shares -> [File -> Content]]
  BY WithKeysTyped DEF Start, Typed, TypeOK
<1>3. shares' \in [Shares -> Gens \cup {0}]
  BY <1>1 DEF Start
<1>4. mem' \in [Tasks -> Content]
  <2>1. \A t \in Tasks : disk[t[1]]["auth"] \in Content /\ mem[t] \in Content
    BY DEF Typed, TypeOK, Tasks, File
  <2> QED
    BY <2>1 DEF Start
<1>5. task' \in [Tasks -> {"unborn", "starting", "loop", "busy", "ended"}]
  BY DEF Start, Typed, TypeOK
<1>6. idleStart' \in BOOLEAN
  BY DEF Start
<1> QED
  BY <1>2, <1>3, <1>4, <1>5, <1>6 DEF Start, Typed, TypeOK

LEMMA ExitTyped ==
  ASSUME Typed, Exit, stops' \in 0..MaxStops, cut' \subseteq Shares
  PROVE  Typed'
<1>1. call' \in [Calls -> Call] /\ \A c \in Calls : CallOK(call'[c])
  BY NoCallTyped DEF Exit, Typed, TypeOK
<1>2. queue' \in [Tasks -> Seq(Calls)] /\ \A t \in Tasks : Len(queue'[t]) <= ChannelCap
  BY LifecycleAssumption DEF Exit
<1>3. /\ task' \in [Tasks -> {"unborn", "starting", "loop", "busy", "ended"}]
      /\ mem' \in [Tasks -> Content] /\ shares' \in [Shares -> Gens \cup {0}]
  BY DEF Exit, Typed, TypeOK, Content
<1> QED
  BY <1>1, <1>2, <1>3 DEF Exit, Typed, TypeOK

(* The loop of serve.                                                      *)
LEMMA ServeTyped ==
  ASSUME Typed, Start \/ ServePoll \/ ServeJoined \/ ServeCheck \/ Signal \/ FinishShutdown \/ Kill
  PROVE  Typed'
<1>1. CASE ServePoll \/ ServeJoined \/ ServeCheck
  BY <1>1 DEF ServePoll, ServeJoined, ServeCheck, Typed, TypeOK
<1>2. ASSUME Signal \/ Kill PROVE stops' \in 0..MaxStops
  BY <1>2, LifecycleAssumption DEF Signal, Kill, Typed, TypeOK
<1>3. CASE Signal
  BY <1>2, <1>3 DEF Signal, Typed, TypeOK
<1>4. CASE FinishShutdown
  BY <1>4, ExitTyped DEF FinishShutdown, Typed, TypeOK
<1>5. CASE Kill
  BY <1>2, <1>5, ExitTyped DEF Kill, Typed, TypeOK
<1> QED
  BY <1>1, <1>3, <1>4, <1>5, StartTyped

(* The commands that edit the files themselves.                            *)
LEMMA DirectTyped ==
  ASSUME Typed, NEW s \in Shares, DirectAdd(s) \/ DirectJoin(s) \/ DirectRemove(s)
  PROVE  Typed'
<1>1. disk[s] \in [File -> Content]
  BY DEF Typed, TypeOK
<1>2. disk' \in [Shares -> [File -> Content]]
  <2>1. CASE DirectAdd(s)
    BY <2>1 DEF DirectAdd, Typed, TypeOK, File, Content
  <2>2. CASE DirectJoin(s)
    BY <2>2, DirectJoinWrites
  <2>3. CASE DirectRemove(s)
    BY <1>1, <2>3 DEF DirectRemove, Typed, TypeOK, File, Content
  <2> QED
    BY <2>1, <2>2, <2>3
<1>3. cut' \subseteq Shares
  BY DEF DirectAdd, DirectJoin, DirectRemove, Typed, TypeOK
<1> QED
  BY <1>2, <1>3 DEF DirectAdd, DirectJoin, DirectRemove, Typed, TypeOK

(* A method call begins.                                                   *)
LEMMA BeginTyped ==
  ASSUME Typed, NEW c \in Calls, NEW k \in Kinds, NEW s \in Shares, Begin(c, k, s)
  PROVE  /\ Typed'
         /\ call'[c].pc \in {"lookup", "shares"} /\ call'[c].kind = k
         /\ call'[c].share = s /\ call'[c].gen = 0
         /\ \A d \in Calls \ {c} : call'[d] = call[d]
<1> DEFINE r == [pc |-> IF k = "remove" THEN "lookup" ELSE "shares", kind |-> k, share |-> s,
                 gen |-> 0, root |-> FALSE]
<1>1. r \in Call /\ CallOK(r)
  BY LifecycleAssumption DEF Call, CallPc, CallOK
<1>2. call' = [call EXCEPT ![c] = r]
  BY DEF Begin
<1>3. r.pc \in {"lookup", "shares"} /\ r.kind = k /\ r.share = s /\ r.gen = 0
  OBVIOUS
<1> HIDE DEF r
<1>4. call'[c] = r /\ \A d \in Calls \ {c} : call'[d] = call[d]
  BY <1>2 DEF Typed, TypeOK
<1>5. Typed'
  BY <1>1, <1>2 DEF Begin, Typed, TypeOK
<1> QED
  BY <1>3, <1>4, <1>5

(* Typed holds in every state: it is inductive.                            *)
LEMMA LifecycleTyped == Spec => []Typed
<1>1. Typed /\ [Next]_vars => Typed'
  <2> SUFFICES ASSUME Typed, [Next]_vars PROVE Typed'
    OBVIOUS
  <2>1. CASE UNCHANGED vars
    BY <2>1 DEF vars, Typed, TypeOK
  <2> QED
    BY <2>1, BeginTyped, CallStepTyped, TaskStepTyped, ServeTyped, DirectTyped DEF Next
<1> QED
  BY <1>1, InitTyped, PTL DEF Spec

(* No method call, task, stop or direct command leaves the types, whatever *)
(* the order of the handlers' steps; no channel holds more than its        *)
(* capacity.                                                               *)
THEOREM LifecycleTypeOK == Spec => []TypeOK
<1>1. Typed => TypeOK
  BY DEF Typed
<1> QED
  BY <1>1, LifecycleTyped, PTL

-----------------------------------------------------------------------------
(***************************************************************************)
(* Tasks, the map and the command channels, whatever the calls overlap.    *)
(***************************************************************************)
LEMMA InitTaskInv == Init => TaskInv
<1> SUFFICES ASSUME Init PROVE TaskInv
  OBVIOUS
<1>1. \A c \in Calls : call[c].pc = "idle" /\ call[c].gen = 0 /\ call[c].kind = "none"
  BY NoCallTyped DEF Init, NoCall
<1>2. \A t \in Tasks : task[t] = "unborn" /\ Len(queue[t]) = 0
  BY DEF Init
<1>3. \A s \in Shares : shares[s] = 0
  BY DEF Init
<1>4. LockInv /\ QueueInv
  BY <1>1, <1>2 DEF LockInv, QueueInv, Locking, Writing
<1>5. GenInv /\ DownInv
  BY <1>1, <1>2, <1>3 DEF GenInv, DownInv, Active, Live
<1>6. EndsBeforeItsFiles /\ TasksCanBeStopped
  BY <1>1, <1>2 DEF EndsBeforeItsFiles, TasksCanBeStopped, Live
<1> QED
  BY <1>4, <1>5, <1>6, InitTyped DEF TaskInv

(* The tasks that the map and the calls name.                              *)
LEMMA NamedTasks ==
  ASSUME Typed
  PROVE  /\ \A s \in Shares : shares[s] # 0 => <<s, shares[s]>> \in Tasks
         /\ \A c \in Calls : call[c].gen # 0 => <<call[c].share, call[c].gen>> \in Tasks
BY DEF Typed, TypeOK, Tasks, Call, CallOK

(* The tasks move, each within its life, and no call does.                 *)
LEMMA TasksMove ==
  ASSUME TaskInv, Typed', UNCHANGED <<call, queue, shares>>, up' = up,
         \A t \in Tasks : /\ Live(t)' = Live(t)
                          /\ task'[t] = "unborn" <=> task[t] = "unborn"
                          /\ task'[t] = "ended" <=> task[t] = "ended"
  PROVE  TaskInv'
<1>1. LockInv' /\ QueueInv'
  BY DEF TaskInv, LockInv, QueueInv, Locking, Writing
<1>2. \A s \in Shares : shares[s] # 0 => <<s, shares[s]>> \in Tasks
  BY NamedTasks DEF TaskInv
<1>3. \A c \in Calls : call[c].gen # 0 => <<call[c].share, call[c].gen>> \in Tasks
  BY NamedTasks DEF TaskInv
<1>4. GenInv'
  BY <1>2, <1>3 DEF TaskInv, GenInv
<1>5. DownInv' /\ TasksCanBeStopped'
  BY DEF TaskInv, DownInv, TasksCanBeStopped, Stopping, Active
<1>6. EndsBeforeItsFiles'
  BY <1>3 DEF TaskInv, EndsBeforeItsFiles
<1> QED
  BY <1>1, <1>4, <1>5, <1>6 DEF TaskInv

(* One call moves, outside the command channels; it takes the lock only    *)
(* when it is free, and writes only what is not in the map.                *)
LEMMA OneCallMoves ==
  ASSUME TaskInv, Typed', NEW c \in Calls, up,
         UNCHANGED <<task, queue, shares, serve>>,
         \A d \in Calls \ {c} : call'[d] = call[d],
         call[c].pc \notin {"send", "await"}, call'[c].pc # "await",
         call'[c].gen # 0 => \/ call'[c].gen = call[c].gen /\ call'[c].share = call[c].share
                             \/ call'[c].gen = shares[call'[c].share] /\ call'[c].share \in Shares,
         Locking(c)' => Locking(c) \/ ~SharesLocked,
         Writing(c)' => \/ Writing(c) /\ call'[c].share = call[c].share
                        \/ shares[call'[c].share] = 0,
         call'[c].pc \in {"delete", "shadow"} =>
           /\ call[c].pc \in {"delete", "shadow"}
           /\ call'[c].share = call[c].share /\ call'[c].gen = call[c].gen
  PROVE  TaskInv'
<1>1. LockInv'
  BY DEF TaskInv, LockInv, SharesLocked, Locking, Writing
<1>2. QueueInv'
  <2>1. \A t \in Tasks : \A i \in 1..Len(queue[t]) : queue[t][i] \in Calls \ {c}
    BY DEF TaskInv, QueueInv, Typed, TypeOK
  <2> QED
    BY <2>1 DEF TaskInv, QueueInv
<1>3. GenInv'
  BY DEF TaskInv, GenInv
<1>4. DownInv'
  BY DEF DownInv, up
<1>5. EndsBeforeItsFiles'
  BY DEF TaskInv, EndsBeforeItsFiles
<1>6. TasksCanBeStopped'
  <2>1. \A d \in Calls : call[d].pc \in {"send", "await"} => call'[d] = call[d]
    OBVIOUS
  <2> QED
    BY <2>1 DEF TaskInv, TasksCanBeStopped, Stopping, Live
<1> QED
  BY <1>1, <1>2, <1>3, <1>4, <1>5, <1>6 DEF TaskInv

(* share_add and share_join up to the spawn; the look at the map of a      *)
(* command; the ends of share_remove; the first step of any call.          *)
LEMMA QuietCallsKeepTaskInv ==
  ASSUME TaskInv, Typed', NEW c \in Calls,
         \/ AcquireShares(c) \/ AcquireTasks(c) \/ TruncateConfig(c) \/ WriteConfig(c)
         \/ InstallKeyring(c) \/ WriteAuthLog(c) \/ Lookup(c) \/ RemoveLookup(c)
         \/ RemoveDir(c) \/ RemoveShadow(c)
  PROVE  TaskInv'
<1>1. Active(c) /\ up
  BY DEF TaskInv, DownInv, Active, AcquireShares, AcquireTasks, TruncateConfig, WriteConfig,
         InstallKeyring, WriteAuthLog, Lookup, RemoveLookup, RemoveDir, RemoveShadow
<1>2. Typed /\ call[c] \in Call
  BY DEF TaskInv, Typed, TypeOK
<1>3. UNCHANGED <<task, queue, shares, serve>>
  BY DEF AcquireShares, AcquireTasks, TruncateConfig, WriteConfig,
         InstallKeyring, WriteAuthLog, Lookup, RemoveLookup, RemoveDir, RemoveShadow
<1>4. CASE UNCHANGED call
  BY <1>1, <1>3, <1>4, TasksMove DEF up, Live
<1>5. CASE Return(c)
  <2>1. call'[c].pc = "done" /\ call'[c].gen = 0 /\ \A d \in Calls \ {c} : call'[d] = call[d]
    BY <1>2, <1>5, ReturnTyped, NoCallTyped DEF NoCall
  <2>2. call[c].pc \notin {"send", "await"}
    BY DEF AcquireShares, AcquireTasks, TruncateConfig, WriteConfig,
           InstallKeyring, WriteAuthLog, Lookup, RemoveLookup, RemoveDir, RemoveShadow
  <2> QED
    BY <1>1, <1>3, <2>1, <2>2, OneCallMoves DEF Locking, Writing
<1>6. CASE \E pc \in {"config", "keys", "auth", "spawn"} : Writing(c) /\ Go(c, pc)
  <2>1. PICK pc \in {"config", "keys", "auth", "spawn"} : Writing(c) /\ Go(c, pc)
    BY <1>6
  <2>2. /\ call'[c].pc = pc /\ call'[c].share = call[c].share /\ call'[c].gen = call[c].gen
        /\ \A d \in Calls \ {c} : call'[d] = call[d]
    BY <1>2, <2>1 DEF Go, Typed, TypeOK, Call
  <2> QED
    BY <1>1, <1>3, <2>1, <2>2, OneCallMoves DEF Locking, Writing
<1>7. CASE AcquireShares(c)
  <2>1. /\ call'[c].pc = "tasks" /\ call'[c].share = call[c].share /\ call'[c].gen = call[c].gen
        /\ \A d \in Calls \ {c} : call'[d] = call[d]
    BY <1>2, <1>7 DEF AcquireShares, Go, Typed, TypeOK, Call
  <2> QED
    BY <1>1, <1>3, <1>7, <2>1, OneCallMoves DEF AcquireShares, Locking, Writing
<1>8. CASE AcquireTasks(c) /\ Go(c, "truncate") /\ shares[call[c].share] = 0
  <2>1. /\ call'[c].pc = "truncate" /\ call'[c].share = call[c].share /\ call'[c].gen = call[c].gen
        /\ \A d \in Calls \ {c} : call'[d] = call[d]
    BY <1>2, <1>8 DEF Go, Typed, TypeOK, Call
  <2> QED
    BY <1>1, <1>3, <1>8, <2>1, OneCallMoves DEF AcquireTasks, Locking, Writing
<1>9. CASE Lookup(c) /\ shares[call[c].share] # 0
  <2> DEFINE g == shares[call[c].share]
  <2>1. call' = [call EXCEPT ![c].pc = "send", ![c].gen = g] /\ call[c].share \in Shares
    BY <1>2, <1>9 DEF Lookup, Typed, CallOK
  <2>2. /\ call'[c].pc = "send" /\ call'[c].share = call[c].share /\ call'[c].gen = g
        /\ \A d \in Calls \ {c} : call'[d] = call[d]
    BY <1>2, <2>1 DEF Typed, TypeOK, Call
  <2> QED
    BY <1>1, <1>3, <1>9, <2>1, <2>2, OneCallMoves DEF Lookup, Locking, Writing
<1>10. CASE RemoveLookup(c) /\ load_all
  <2> DEFINE b == Configured(call[c].share)
  <2>1. call' = [call EXCEPT ![c].pc = "shares", ![c].root = b]
    BY <1>10 DEF RemoveLookup
  <2> HIDE DEF b
  <2>2. /\ call'[c].pc = "shares" /\ call'[c].share = call[c].share /\ call'[c].gen = call[c].gen
        /\ \A d \in Calls \ {c} : call'[d] = call[d]
    BY <1>2, <2>1 DEF Typed, TypeOK, Call
  <2> QED
    BY <1>1, <1>3, <1>10, <2>2, OneCallMoves DEF RemoveLookup, Locking, Writing
<1>11. CASE RemoveDir(c) /\ Go(c, "shadow")
  <2>1. /\ call'[c].pc = "shadow" /\ call'[c].share = call[c].share /\ call'[c].gen = call[c].gen
        /\ \A d \in Calls \ {c} : call'[d] = call[d]
    BY <1>2, <1>11 DEF Go, Typed, TypeOK, Call
  <2> QED
    BY <1>1, <1>3, <1>11, <2>1, OneCallMoves DEF RemoveDir, Locking, Writing
<1> QED
  BY <1>4, <1>5, <1>6, <1>7, <1>8, <1>9, <1>10, <1>11
     DEF AcquireTasks, TruncateConfig, WriteConfig, InstallKeyring, WriteAuthLog, Lookup,
         RemoveLookup, RemoveDir, RemoveShadow, Writing

LEMMA BeginKeepsTaskInv ==
  ASSUME TaskInv, Typed', NEW c \in Calls, NEW k \in Kinds, NEW s \in Shares, Begin(c, k, s)
  PROVE  TaskInv'
<1>1. /\ call'[c].pc \in {"lookup", "shares"} /\ call'[c].gen = 0
      /\ \A d \in Calls \ {c} : call'[d] = call[d]
  BY BeginTyped DEF TaskInv
<1> QED
  BY <1>1, OneCallMoves DEF Begin, Locking, Writing

(* The sender leaves the map and stays with the handler: the task can      *)
(* still be stopped.                                                       *)
LEMMA DeregisterKeepsTaskInv ==
  ASSUME TaskInv, Typed', NEW c \in Calls, Deregister(c)
  PROVE  TaskInv'
<1> DEFINE s == call[c].share  g == shares[s]
<1>1. Typed /\ call[c] \in Call /\ s \in Shares /\ g \in Gens \cup {0} /\ up
  BY DEF TaskInv, DownInv, Active, Deregister, Typed, TypeOK, CallOK
<1>2. /\ call'[c].gen = g /\ call'[c].kind = "remove" /\ call'[c].share = s
      /\ call'[c].pc = IF g = 0 THEN "delete" ELSE "send"
      /\ \A d \in Calls \ {c} : call'[d] = call[d]
  BY <1>1 DEF Deregister, Typed, TypeOK, Call
<1>3. /\ shares'[s] = 0 /\ \A u \in Shares \ {s} : shares'[u] = shares[u]
      /\ UNCHANGED <<task, queue, serve>> /\ call[c].pc = "shares"
  BY <1>1 DEF Deregister, Typed, TypeOK
<1>4. LockInv'
  BY <1>1, <1>2, <1>3 DEF TaskInv, Typed, CallOK, LockInv, Locking, Writing
<1>5. QueueInv'
  <2>1. \A t \in Tasks : \A i \in 1..Len(queue[t]) : queue[t][i] \in Calls \ {c}
    BY <1>3 DEF TaskInv, QueueInv, Typed, TypeOK
  <2> QED
    BY <1>2, <1>3, <2>1 DEF TaskInv, QueueInv
<1>6. GenInv'
  BY <1>1, <1>2, <1>3 DEF TaskInv, GenInv
<1>7. DownInv'
  BY <1>1, <1>3 DEF DownInv, up
<1>8. EndsBeforeItsFiles'
  BY <1>2, <1>3 DEF TaskInv, EndsBeforeItsFiles
<1>9. TasksCanBeStopped'
  <2> SUFFICES ASSUME NEW t \in Tasks, Live(t)
               PROVE  (shares[t[1]] = t[2] \/ \E d \in Calls : Stopping(d, t))'
    BY <1>3 DEF TasksCanBeStopped, Live
  <2>1. shares[t[1]] = t[2] \/ \E d \in Calls : Stopping(d, t)
    BY DEF TaskInv, TasksCanBeStopped
  <2>2. t[1] \in Shares /\ t[2] \in Gens /\ t = <<t[1], t[2]>> /\ t[2] # 0
    BY DEF Tasks, Gens
  <2>3. CASE shares[t[1]] = t[2] /\ t[1] = s
    BY <1>2, <2>2, <2>3 DEF Stopping
  <2>4. CASE shares[t[1]] = t[2] /\ t[1] # s
    BY <1>3, <2>2, <2>4
  <2>5. ASSUME NEW d \in Calls, Stopping(d, t) PROVE Stopping(d, t)'
    BY <1>2, <1>3, <2>5 DEF Stopping
  <2> QED
    BY <2>1, <2>3, <2>4, <2>5
<1> QED
  BY <1>4, <1>5, <1>6, <1>7, <1>8, <1>9 DEF TaskInv

(* A command is queued, or its caller learns that the task has ended.      *)
LEMMA SendKeepsTaskInv ==
  ASSUME TaskInv, Typed', NEW c \in Calls, Send(c)
  PROVE  TaskInv'
<1> DEFINE t == <<call[c].share, call[c].gen>>
<1>1. /\ Typed /\ call[c] \in Call /\ CallOK(call[c]) /\ t \in Tasks /\ up /\ call[c].pc = "send"
      /\ call[c].gen # 0
  BY DEF TaskInv, DownInv, Active, Send, Typed, TypeOK, CallOK, Tasks, Gens
<1>2. \A u \in Tasks : \A i \in 1..Len(queue[u]) : queue[u][i] \in Calls \ {c}
  BY <1>1 DEF TaskInv, QueueInv, Typed, TypeOK
<1>3. UNCHANGED <<task, shares, serve>>
  BY DEF Send
<1>4. DownInv'
  BY <1>1, <1>3 DEF DownInv, up
<1>5. CASE Go(c, "await") /\ queue' = [queue EXCEPT ![t] = Append(@, c)]
  <2>1. /\ call'[c].pc = "await" /\ call'[c].share = call[c].share /\ call'[c].gen = call[c].gen
        /\ call'[c].kind = call[c].kind /\ \A d \in Calls \ {c} : call'[d] = call[d]
    BY <1>1, <1>5 DEF Go, Typed, TypeOK, Call
  <2>2. /\ queue[t] \in Seq(Calls) /\ queue'[t] = Append(queue[t], c)
        /\ \A u \in Tasks \ {t} : queue'[u] = queue[u]
    BY <1>1, <1>5 DEF Typed, TypeOK
  <2>3. /\ Len(queue'[t]) = Len(queue[t]) + 1 /\ queue'[t][Len(queue[t]) + 1] = c
        /\ \A i \in 1..Len(queue[t]) : queue'[t][i] = queue[t][i]
        /\ Len(queue[t]) \in Nat
    BY <2>2
  <2>4. QueueInv'
    <3> SUFFICES ASSUME NEW u \in Tasks, NEW i \in 1..Len(queue'[u])
                 PROVE  /\ call'[queue'[u][i]].pc = "await"
                        /\ <<call'[queue'[u][i]].share, call'[queue'[u][i]].gen>> = u
                        /\ \A j \in 1..Len(queue'[u]) : queue'[u][i] = queue'[u][j] => i = j
      BY DEF QueueInv
    <3>1. CASE u # t
      BY <1>2, <2>1, <2>2, <3>1 DEF TaskInv, QueueInv
    <3>2. CASE u = t
      <4> DEFINE n == Len(queue[t])
      <4>1. \A j \in 1..Len(queue'[t]) : j \in 1..n \/ (j = n + 1 /\ queue'[t][j] = c)
        BY <2>3
      <4>2. \A j \in 1..n : queue'[t][j] = queue[t][j] /\ queue[t][j] \in Calls \ {c} /\ j # n + 1
        <5>1. \A j \in 1..n : queue'[t][j] = queue[t][j] /\ j # n + 1
          BY <2>3, SMTT(20)
        <5>2. \A j \in 1..n : queue[t][j] \in Calls \ {c}
          BY <1>1, <1>2
        <5> QED
          BY <5>1, <5>2
      <4>3. \A j \in 1..n : /\ call[queue[t][j]].pc = "await"
                            /\ <<call[queue[t][j]].share, call[queue[t][j]].gen>> = t
                            /\ \A k \in 1..n : queue[t][j] = queue[t][k] => j = k
        BY <1>1 DEF TaskInv, QueueInv
      <4>4. i \in 1..Len(queue'[t])
        BY <3>2
      <4> HIDE DEF n
      <4>5. CASE i = n + 1 /\ queue'[t][i] = c
        <5>1. \A j \in 1..Len(queue'[t]) : queue'[t][i] = queue'[t][j] => i = j
          BY <4>1, <4>2, <4>5
        <5>2. call'[queue'[t][i]].pc = "await" /\ <<call'[queue'[t][i]].share, call'[queue'[t][i]].gen>> = t
          BY <2>1, <4>5
        <5> QED
          BY <3>2, <5>1, <5>2
      <4>6. CASE i \in 1..n
        <5>1. \A j \in 1..Len(queue'[t]) : queue'[t][i] = queue'[t][j] => i = j
          BY <4>1, <4>2, <4>3, <4>6
        <5>2. call'[queue'[t][i]] = call[queue[t][i]]
          BY <2>1, <4>2, <4>6
        <5> QED
          BY <3>2, <4>3, <4>6, <5>1, <5>2
      <4> QED
        BY <4>1, <4>4, <4>5, <4>6
    <3> QED
      BY <3>1, <3>2
  <2>5. LockInv'
    BY <1>1, <1>3, <2>1 DEF TaskInv, LockInv, Locking, Writing
  <2>6. GenInv' /\ EndsBeforeItsFiles'
    BY <1>3, <2>1 DEF TaskInv, GenInv, EndsBeforeItsFiles
  <2>7. TasksCanBeStopped'
    <3>1. ASSUME NEW u \in Tasks, NEW d \in Calls, Stopping(d, u) PROVE Stopping(d, u)'
      <4>1. CASE d = c
        BY <1>1, <2>1, <2>3, <3>1, <4>1 DEF Stopping
      <4>2. CASE d # c /\ u = t
        BY <2>1, <2>3, <3>1, <4>2, SMTT(20) DEF Stopping
      <4>3. CASE d # c /\ u # t
        BY <2>1, <2>2, <3>1, <4>3 DEF Stopping
      <4> QED
        BY <4>1, <4>2, <4>3
    <3> QED
      BY <1>3, <3>1 DEF TaskInv, TasksCanBeStopped, Live
  <2> QED
    BY <1>4, <2>4, <2>5, <2>6, <2>7 DEF TaskInv
<1>6. CASE ~Live(t) /\ call' = [call EXCEPT ![c] = Unanswered(@)] /\ UNCHANGED queue
  <2>1. /\ call'[c] = Unanswered(call[c]) /\ \A d \in Calls \ {c} : call'[d] = call[d]
    BY <1>1, <1>6 DEF Typed, TypeOK
  <2>2. task[t] = "ended"
    BY <1>1, <1>6 DEF TaskInv, GenInv, Live, Typed, TypeOK
  <2>3. \/ /\ call'[c].pc = "delete" /\ call'[c].kind = "remove"
           /\ call'[c].share = call[c].share /\ call'[c].gen = call[c].gen
        \/ call'[c].pc = "done" /\ call'[c].gen = 0
    BY <1>1, <2>1, UnansweredTyped, NoCallTyped DEF NoCall
  <2>4. QueueInv' /\ LockInv'
    <3>1. QueueInv'
      BY <1>2, <1>6, <2>1 DEF TaskInv, QueueInv
    <3>2. LockInv'
      BY <1>1, <1>3, <2>1, <2>3 DEF TaskInv, LockInv, Locking, Writing
    <3> QED
      BY <3>1, <3>2
  <2>5. GenInv' /\ EndsBeforeItsFiles'
    BY <1>3, <2>1, <2>2, <2>3 DEF TaskInv, GenInv, EndsBeforeItsFiles
  <2>6. TasksCanBeStopped'
    <3>1. ASSUME NEW u \in Tasks, NEW d \in Calls, Live(u), Stopping(d, u) PROVE Stopping(d, u)'
      BY <1>6, <2>1, <3>1 DEF Stopping
    <3> QED
      BY <1>3, <3>1 DEF TaskInv, TasksCanBeStopped, Live
  <2> QED
    BY <1>4, <2>4, <2>5, <2>6 DEF TaskInv
<1> QED
  BY <1>5, <1>6 DEF Send

(* The new task goes into the map, where no other was.                     *)
LEMMA SpawnKeepsTaskInv ==
  ASSUME TaskInv, Typed', NEW c \in Calls, Spawn(c)
  PROVE  TaskInv'
<1> DEFINE s == call[c].share  g == NextGen(s)  t == <<s, g>>
<1>1. /\ Typed /\ s \in Shares /\ up /\ call[c].pc = "spawn" /\ shares[s] = 0
      /\ g \in Gens /\ task[t] = "unborn"
  BY NextGenUnborn DEF TaskInv, DownInv, Active, Spawn, Typed, CallOK, LockInv, Writing
<1>2. /\ call'[c].pc = "done" /\ call'[c].gen = 0 /\ \A d \in Calls \ {c} : call'[d] = call[d]
  BY <1>1, ReturnTyped, NoCallTyped DEF Spawn, NoCall
<1>3. /\ shares'[s] = g /\ \A u \in Shares \ {s} : shares'[u] = shares[u]
      /\ task'[t] = "starting" /\ \A u \in Tasks \ {t} : task'[u] = task[u]
      /\ UNCHANGED <<queue, serve>> /\ t \in Tasks
  BY <1>1 DEF Spawn, Typed, TypeOK, Tasks
<1>4. LockInv'
  BY <1>1, <1>2, <1>3 DEF TaskInv, LockInv, Locking, Writing, Typed, CallOK
<1>5. QueueInv'
  <2>1. \A u \in Tasks : \A i \in 1..Len(queue[u]) : queue[u][i] \in Calls \ {c}
    BY <1>1 DEF TaskInv, QueueInv, Typed, TypeOK
  <2> QED
    BY <1>2, <1>3, <2>1 DEF TaskInv, QueueInv
<1>6. GenInv'
  BY <1>1, <1>2, <1>3, NamedTasks DEF TaskInv, GenInv
<1>7. DownInv'
  BY <1>1, <1>3 DEF DownInv, up
<1>8. EndsBeforeItsFiles'
  BY <1>1, <1>2, <1>3, NamedTasks DEF TaskInv, EndsBeforeItsFiles
<1>9. TasksCanBeStopped'
  <2>1. ASSUME NEW u \in Tasks, NEW d \in Calls, Stopping(d, u) PROVE Stopping(d, u)'
    BY <1>1, <1>2, <1>3, <2>1 DEF Stopping
  <2>2. ASSUME NEW u \in Tasks, Live(u)', u # t
        PROVE  (shares[u[1]] = u[2] \/ \E d \in Calls : Stopping(d, u))'
    <3>1. Live(u) /\ u[1] \in Shares /\ u[2] # 0
      BY <1>3, <2>2 DEF Live, Tasks, Gens
    <3> QED
      BY <1>1, <1>3, <2>1, <3>1 DEF TaskInv, TasksCanBeStopped
  <2> QED
    BY <1>3, <2>2 DEF TasksCanBeStopped
<1> QED
  BY <1>4, <1>5, <1>6, <1>7, <1>8, <1>9 DEF TaskInv

(* A task ends, and answers or drops the calls in its channel.             *)
LEMMA EndKeepsTaskInv ==
  ASSUME TaskInv, Typed', NEW t \in Tasks, TaskFails(t) \/ TaskShutdown(t)
  PROVE  TaskInv'
<1>1. Typed /\ Live(t) /\ up /\ Ended(t) /\ UNCHANGED <<shares, serve>>
  BY DEF TaskInv, DownInv, TaskFails, TaskShutdown, Live
<1>2. /\ task'[t] = "ended" /\ \A u \in Tasks \ {t} : task'[u] = task[u]
      /\ queue'[t] = <<>> /\ \A u \in Tasks \ {t} : queue'[u] = queue[u]
  BY <1>1 DEF Ended, Typed, TypeOK
<1> DEFINE In(c) == \E i \in 1..Len(queue[t]) : queue[t][i] = c
<1>3. \A c \in Calls : /\ In(c) => /\ call'[c] = Unanswered(call[c]) /\ call[c].pc = "await"
                                   /\ <<call[c].share, call[c].gen>> = t
                       /\ ~In(c) => call'[c] = call[c]
  BY <1>1 DEF Ended, Dropped, TaskInv, QueueInv
<1> HIDE DEF In
<1>4. \A c \in Calls : In(c) =>
        \/ /\ call'[c].pc = "delete" /\ call'[c].kind = "remove"
           /\ call'[c].share = call[c].share /\ call'[c].gen = call[c].gen
        \/ call'[c].pc = "done" /\ call'[c].gen = 0
  <2> SUFFICES ASSUME NEW c \in Calls, In(c)
               PROVE  \/ /\ call'[c].pc = "delete" /\ call'[c].kind = "remove"
                         /\ call'[c].share = call[c].share /\ call'[c].gen = call[c].gen
                      \/ call'[c].pc = "done" /\ call'[c].gen = 0
    OBVIOUS
  <2>1. call[c] \in Call /\ CallOK(call[c]) /\ call'[c] = Unanswered(call[c])
    BY <1>1, <1>3 DEF Typed, TypeOK
  <2> QED
    BY <2>1, UnansweredTyped, NoCallTyped
<1>5. LockInv'
  BY <1>1, <1>3, <1>4 DEF TaskInv, LockInv, Locking, Writing
<1>6. QueueInv'
  <2> SUFFICES ASSUME NEW u \in Tasks, u # t, NEW i \in 1..Len(queue[u])
               PROVE  call'[queue[u][i]] = call[queue[u][i]]
    BY <1>2 DEF TaskInv, QueueInv
  <2>1. queue[u][i] \in Calls /\ <<call[queue[u][i]].share, call[queue[u][i]].gen>> = u
    BY DEF TaskInv, QueueInv, Typed, TypeOK
  <2> QED
    BY <1>3, <2>1
<1>7. GenInv' /\ EndsBeforeItsFiles'
  <2>1. \A s \in Shares : shares'[s] # 0 => task'[<<s, shares'[s]>>] # "unborn"
    BY <1>1, <1>2, NamedTasks DEF TaskInv, GenInv
  <2>2. ASSUME NEW c \in Calls, call'[c].gen # 0
        PROVE  /\ task'[<<call'[c].share, call'[c].gen>>] # "unborn"
               /\ call'[c].pc \in {"delete", "shadow"} =>
                    task'[<<call'[c].share, call'[c].gen>>] = "ended"
    <3>1. CASE In(c)
      <4>1. <<call'[c].share, call'[c].gen>> = t
        BY <1>3, <1>4, <2>2, <3>1
      <4> QED
        BY <1>2, <4>1
    <3>2. CASE ~In(c)
      <4>1. call'[c] = call[c] /\ <<call[c].share, call[c].gen>> \in Tasks
        BY <1>1, <1>3, <2>2, <3>2, NamedTasks
      <4> QED
        BY <1>2, <2>2, <4>1 DEF TaskInv, GenInv, EndsBeforeItsFiles
    <3> QED
      BY <3>1, <3>2
  <2> QED
    BY <2>1, <2>2 DEF GenInv, EndsBeforeItsFiles
<1>8. DownInv'
  BY <1>1 DEF DownInv, up
<1>9. TasksCanBeStopped'
  <2>1. ASSUME NEW u \in Tasks, NEW d \in Calls, u # t, Stopping(d, u) PROVE Stopping(d, u)'
    BY <1>2, <1>3, <2>1 DEF Stopping
  <2> QED
    BY <1>1, <1>2, <2>1 DEF TaskInv, TasksCanBeStopped, Live
<1> QED
  BY <1>5, <1>6, <1>7, <1>8, <1>9 DEF TaskInv

(* A command is answered and leaves the channel; a Shutdown behind it      *)
(* moves up.                                                               *)
LEMMA CommandKeepsTaskInv ==
  ASSUME TaskInv, Typed', NEW t \in Tasks, TaskCommand(t)
  PROVE  TaskInv'
<1> DEFINE c == Head(queue[t])
<1>1. /\ Typed /\ up /\ UNCHANGED <<shares, serve, task>> /\ Return(c)
      /\ queue[t] \in Seq(Calls) /\ queue[t] # <<>> /\ call[c].kind = "command"
  BY DEF TaskInv, DownInv, TaskCommand, Live, Typed, TypeOK
<1>2. /\ Len(queue[t]) \in Nat \ {0} /\ c = queue[t][1] /\ c \in Calls
      /\ Len(Tail(queue[t])) = Len(queue[t]) - 1
      /\ \A i \in 1..Len(Tail(queue[t])) : Tail(queue[t])[i] = queue[t][i + 1]
  BY <1>1
<1>3. queue'[t] = Tail(queue[t]) /\ \A u \in Tasks \ {t} : queue'[u] = queue[u]
  BY DEF TaskCommand, TaskInv, Typed, TypeOK
<1>4. /\ call'[c].pc = "done" /\ call'[c].gen = 0 /\ \A d \in Calls \ {c} : call'[d] = call[d]
  BY <1>1, <1>2, ReturnTyped, NoCallTyped DEF NoCall
<1>5. call[c].pc = "await" /\ <<call[c].share, call[c].gen>> = t
  BY <1>1, <1>2 DEF TaskInv, QueueInv
<1> HIDE DEF c
<1>6. LockInv'
  BY <1>1, <1>4, <1>5 DEF TaskInv, LockInv, Locking, Writing
<1>7. QueueInv'
  <2> SUFFICES ASSUME NEW u \in Tasks, NEW i \in 1..Len(queue'[u])
               PROVE  /\ call'[queue'[u][i]].pc = "await"
                      /\ <<call'[queue'[u][i]].share, call'[queue'[u][i]].gen>> = u
                      /\ \A j \in 1..Len(queue'[u]) : queue'[u][i] = queue'[u][j] => i = j
    BY DEF QueueInv
  <2>1. CASE u # t
    <3>1. queue'[u] = queue[u] /\ queue[u] \in Seq(Calls)
      BY <1>1, <1>3, <2>1 DEF Typed, TypeOK
    <3>2. queue[u][i] \in Calls /\ <<call[queue[u][i]].share, call[queue[u][i]].gen>> = u
      BY <3>1 DEF TaskInv, QueueInv
    <3>3. queue[u][i] # c
      BY <1>5, <2>1, <3>2
    <3> QED
      BY <1>4, <3>1, <3>2, <3>3 DEF TaskInv, QueueInv
  <2>2. CASE u = t
    <3>1. \A j \in 1..Len(queue'[t]) : /\ j + 1 \in 1..Len(queue[t])
                                       /\ queue'[t][j] = queue[t][j + 1]
      BY <1>2, <1>3
    <3>2. /\ i + 1 \in 1..Len(queue[t]) /\ queue'[t][i] = queue[t][i + 1]
          /\ queue[t][i + 1] \in Calls
      <4>1. i \in 1..Len(queue'[t])
        BY <2>2
      <4>2. i + 1 \in 1..Len(queue[t]) /\ queue'[t][i] = queue[t][i + 1]
        BY <3>1, <4>1
      <4> QED
        BY <1>1, <4>2
    <3>3. queue[t][i + 1] # c
      BY <1>2, <3>2 DEF TaskInv, QueueInv
    <3>4. \A j \in 1..Len(queue'[t]) : queue'[t][i] = queue'[t][j] => i + 1 = j + 1
      <4>1. \A k \in 1..Len(queue[t]) : queue[t][i + 1] = queue[t][k] => i + 1 = k
        BY <3>2 DEF TaskInv, QueueInv
      <4> QED
        BY <3>1, <3>2, <4>1
    <3> QED
      BY <1>4, <2>2, <3>2, <3>3, <3>4 DEF TaskInv, QueueInv
  <2> QED
    BY <2>1, <2>2
<1>8. GenInv' /\ EndsBeforeItsFiles'
  BY <1>1, <1>4 DEF TaskInv, GenInv, EndsBeforeItsFiles
<1>9. DownInv'
  BY <1>1 DEF DownInv, up
<1>10. TasksCanBeStopped'
  <2>1. ASSUME NEW u \in Tasks, NEW d \in Calls, Stopping(d, u) PROVE Stopping(d, u)'
    <3>1. d # c /\ call'[d] = call[d]
      BY <1>1, <1>4, <2>1 DEF Stopping
    <3>2. CASE u # t
      BY <1>3, <2>1, <3>1, <3>2 DEF Stopping
    <3>3. CASE u = t /\ call[d].pc = "await"
      <4>1. PICK i \in 1..Len(queue[t]) : queue[t][i] = d
        BY <2>1, <3>3 DEF Stopping
      <4>2. i - 1 \in 1..Len(queue'[t]) /\ queue'[t][i - 1] = d
        BY <1>2, <1>3, <3>1, <4>1
      <4> QED
        BY <2>1, <3>1, <3>3, <4>2 DEF Stopping
    <3> QED
      BY <2>1, <3>1, <3>2, <3>3 DEF Stopping
  <2> QED
    BY <1>1, <2>1 DEF TaskInv, TasksCanBeStopped, Live
<1> QED
  BY <1>6, <1>7, <1>8, <1>9, <1>10 DEF TaskInv

(* The tasks of the configured shares start, all in the map.               *)
LEMMA StartKeepsTaskInv ==
  ASSUME TaskInv, Typed', Start
  PROVE  TaskInv'
<1> DEFINE started == {s \in Shares : Configured(s)}
<1>1. /\ UNCHANGED <<call, queue>> /\ up' /\ \A c \in Calls : ~Active(c)
      /\ \A t \in Tasks : ~Live(t)
  BY DEF Start, up, TaskInv, DownInv
<1>2. \A s \in started : NextGen(s) \in Gens /\ task[<<s, NextGen(s)>>] = "unborn"
  BY NextGenUnborn DEF Start
<1>3. \A s \in Shares : shares'[s] = IF s \in started THEN NextGen(s) ELSE 0
  BY DEF Start
<1>4. \A t \in Tasks : task'[t] =
        IF t[1] \in started /\ t[2] = NextGen(t[1]) THEN "starting" ELSE task[t]
  BY DEF Start
<1>5. \A c \in Calls : call[c].gen = 0 /\ call[c].pc \in {"idle", "done"}
  BY <1>1 DEF TaskInv, Typed, CallOK, Active
<1> HIDE DEF started
<1>6. LockInv' /\ QueueInv'
  BY <1>1, <1>5 DEF TaskInv, LockInv, QueueInv, Locking, Writing
<1>7. GenInv'
  <2>1. ASSUME NEW s \in Shares, shares'[s] # 0
        PROVE  task'[<<s, shares'[s]>>] # "unborn"
    <3>1. s \in started /\ shares'[s] = NextGen(s)
      BY <1>3, <2>1
    <3>2. <<s, NextGen(s)>> \in Tasks
      BY <1>2, <3>1 DEF Tasks
    <3> QED
      BY <1>4, <3>1, <3>2
  <2> QED
    BY <1>1, <1>5, <2>1 DEF GenInv
<1>8. DownInv'
  BY <1>1 DEF DownInv
<1>9. EndsBeforeItsFiles'
  BY <1>1, <1>5 DEF EndsBeforeItsFiles
<1>10. TasksCanBeStopped'
  <2>1. ASSUME NEW t \in Tasks, Live(t)' PROVE shares'[t[1]] = t[2]
    <3>1. t[1] \in started /\ t[2] = NextGen(t[1]) /\ t[1] \in Shares
      BY <1>1, <1>4, <2>1 DEF Live, Tasks
    <3> QED
      BY <1>3, <3>1
  <2> QED
    BY <2>1 DEF TasksCanBeStopped
<1> QED
  BY <1>6, <1>7, <1>8, <1>9, <1>10 DEF TaskInv

(* Nothing outlives the process.                                           *)
LEMMA ExitKeepsTaskInv ==
  ASSUME TaskInv, Typed', Exit
  PROVE  TaskInv'
<1>1. \A c \in Calls : call'[c].pc \in {"idle", "done"} /\ call'[c].gen = 0
  BY NoCallTyped DEF Exit, NoCall, TaskInv, Typed, CallOK, Active
<1>2. \A t \in Tasks : task'[t] \notin {"starting", "loop", "busy"} /\ queue'[t] = <<>>
  BY DEF Exit, Live
<1>3. \A s \in Shares : shares'[s] = 0
  BY DEF Exit
<1>4. LockInv' /\ QueueInv' /\ GenInv'
  BY <1>1, <1>2, <1>3 DEF LockInv, QueueInv, GenInv, Locking, Writing
<1>5. DownInv' /\ EndsBeforeItsFiles' /\ TasksCanBeStopped'
  BY <1>1, <1>2, <1>3 DEF DownInv, EndsBeforeItsFiles, TasksCanBeStopped, Active, Live
<1> QED
  BY <1>4, <1>5 DEF TaskInv

(* TaskInv holds in every state, also when calls overlap and when the      *)
(* files are edited under a running daemon.                                *)
THEOREM TaskInvHolds == Spec => []TaskInv
<1>1. TaskInv /\ Typed' /\ [Next]_vars => TaskInv'
  <2> SUFFICES ASSUME TaskInv, Typed', [Next]_vars PROVE TaskInv'
    OBVIOUS
  <2>1. CASE UNCHANGED vars
    BY <2>1, TasksMove DEF vars, up, Live
  <2>2. ASSUME NEW c \in Calls, CallStep(c) PROVE TaskInv'
    BY <2>2, QuietCallsKeepTaskInv, DeregisterKeepsTaskInv, SendKeepsTaskInv, SpawnKeepsTaskInv
       DEF CallStep
  <2>3. ASSUME NEW t \in Tasks, TaskReady(t) \/ TaskBusy(t) PROVE TaskInv'
    <3>1. /\ task[t] \in {"starting", "loop", "busy"} /\ task'[t] \in {"starting", "loop", "busy"}
          /\ \A u \in Tasks \ {t} : task'[u] = task[u]
      BY <2>3 DEF TaskReady, TaskBusy, TaskInv, Typed, TypeOK
    <3> QED
      BY <2>3, <3>1, TasksMove DEF TaskReady, TaskBusy, up, Live
  <2>4. CASE ServePoll \/ ServeJoined \/ ServeCheck \/ Signal
    BY <2>4, TasksMove DEF ServePoll, ServeJoined, ServeCheck, Signal, up, Live
  <2>5. CASE FinishShutdown \/ Kill
    BY <2>5, ExitKeepsTaskInv DEF FinishShutdown, Kill
  <2>6. ASSUME NEW s \in Shares, DirectAdd(s) \/ DirectJoin(s) \/ DirectRemove(s) PROVE TaskInv'
    BY <2>6, TasksMove DEF DirectAdd, DirectJoin, DirectRemove, up, Live
  <2> QED
    BY <2>1, <2>2, <2>3, <2>4, <2>5, <2>6, BeginKeepsTaskInv, EndKeepsTaskInv,
       CommandKeepsTaskInv, StartKeepsTaskInv DEF Next
<1> QED
  BY <1>1, InitTaskInv, LifecycleTyped, PTL DEF Spec

(* share_remove never loses the last way to stop a task: until the task    *)
(* ends it is in the map, or the handler that took it out still has its    *)
(* sender or has sent the Shutdown.                                        *)
THEOREM RunningTasksCanBeStopped == Spec => []TasksCanBeStopped
<1>1. TaskInv => TasksCanBeStopped
  BY DEF TaskInv
<1> QED
  BY <1>1, TaskInvHolds, PTL

(* share_remove deletes the files of a task only when the task has ended,  *)
(* also when it was not the Shutdown that ended it.                        *)
THEOREM FilesOutliveTheirTask == Spec => []EndsBeforeItsFiles
<1>1. TaskInv => EndsBeforeItsFiles
  BY DEF TaskInv
<1> QED
  BY <1>1, TaskInvHolds, PTL

-----------------------------------------------------------------------------
(***************************************************************************)
(* One task per share, when no removal overlaps an add or a join.          *)
(***************************************************************************)
(* What a step of call c leaves alone.                                     *)
LEMMA CallStepEffect ==
  ASSUME Typed, NEW c \in Calls, CallStep(c)
  PROVE  /\ Active(c) /\ UNCHANGED serve
         /\ \A d \in Calls \ {c} : call'[d] = call[d]
         /\ \/ call'[c].pc = "done"
            \/ call'[c].kind = call[c].kind /\ call'[c].share = call[c].share
         /\ \/ Deregister(c) \/ Spawn(c)
            \/ /\ UNCHANGED shares
               /\ call[c].kind = "remove" /\ call'[c].pc \in RemovePc => call[c].pc \in RemovePc
<1>1. call[c] \in Call /\ call \in [Calls -> Call] /\ CallOK(call[c])
  BY DEF Typed, TypeOK
<1>2. Active(c) /\ UNCHANGED serve
  BY DEF CallStep, Active, AcquireShares, AcquireTasks, TruncateConfig, WriteConfig,
         InstallKeyring, WriteAuthLog, Spawn, Lookup, Send, RemoveLookup, Deregister,
         RemoveDir, RemoveShadow
<1>3. Deregister(c) \/ Spawn(c) \/ UNCHANGED shares
  BY DEF CallStep, AcquireShares, AcquireTasks, TruncateConfig, WriteConfig,
         InstallKeyring, WriteAuthLog, Lookup, Send, RemoveLookup, RemoveDir, RemoveShadow
<1>4. CASE Return(c)
  <2>1. call'[c] = NoCall("done") /\ \A d \in Calls \ {c} : call'[d] = call[d]
    BY <1>4, ReturnTyped
  <2> QED
    BY <1>2, <1>3, <2>1, NoCallTyped DEF RemovePc
<1>5. CASE (\E pc \in CallPc : Go(c, pc)) /\ ~Deregister(c) /\ ~Spawn(c) /\ ~RemoveLookup(c)
  <2>1. PICK pc \in CallPc : Go(c, pc)
    BY <1>5
  <2>2. /\ call'[c].pc = pc /\ call'[c].share = call[c].share /\ call'[c].kind = call[c].kind
        /\ \A d \in Calls \ {c} : call'[d] = call[d]
    BY <1>1, <2>1 DEF Go, Call
  <2>3. call[c].kind = "remove" => call[c].pc \in RemovePc
    BY <1>1, <1>5 DEF CallStep, AcquireShares, AcquireTasks, TruncateConfig, WriteConfig,
         InstallKeyring, WriteAuthLog, Lookup, Send, RemoveDir, RemoveShadow, RemovePc, CallOK
  <2> QED
    BY <1>2, <1>3, <1>5, <2>2, <2>3
<1>6. CASE UNCHANGED call
  BY <1>2, <1>3, <1>6
<1>7. CASE Lookup(c) /\ shares[call[c].share] # 0
  <2> DEFINE g == shares[call[c].share]
  <2>1. call' = [call EXCEPT ![c].pc = "send", ![c].gen = g] /\ call[c].kind = "command"
    BY <1>7 DEF Lookup
  <2>2. /\ call'[c].share = call[c].share /\ call'[c].kind = call[c].kind
        /\ \A d \in Calls \ {c} : call'[d] = call[d]
    BY <1>1, <2>1 DEF Call
  <2> QED
    BY <1>2, <1>7, <2>1, <2>2 DEF Lookup
<1>8. CASE Send(c) /\ call' = [call EXCEPT ![c] = Unanswered(@)]
  <2>1. call'[c] = Unanswered(call[c]) /\ \A d \in Calls \ {c} : call'[d] = call[d]
    BY <1>1, <1>8
  <2>2. call[c].pc = "send" /\ UNCHANGED shares
    BY <1>8 DEF Send
  <2>3. \/ call'[c].pc = "done"
        \/ call'[c].kind = call[c].kind /\ call'[c].share = call[c].share
    BY <1>1, <2>1, UnansweredTyped, NoCallTyped
  <2> QED
    BY <1>2, <2>1, <2>2, <2>3 DEF RemovePc
<1>9. CASE RemoveLookup(c) /\ load_all
  <2> DEFINE b == Configured(call[c].share)
  <2>1. call' = [call EXCEPT ![c].pc = "shares", ![c].root = b] /\ UNCHANGED shares
    BY <1>9 DEF RemoveLookup
  <2> HIDE DEF b
  <2>2. /\ call'[c].pc = "shares" /\ call'[c].share = call[c].share /\ call'[c].kind = call[c].kind
        /\ \A d \in Calls \ {c} : call'[d] = call[d]
    BY <1>1, <2>1 DEF Call
  <2> QED
    BY <1>2, <2>1, <2>2 DEF RemovePc
<1>10. CASE Deregister(c)
  <2>1. call' = [call EXCEPT ![c].pc = IF shares[call[c].share] = 0 THEN "delete" ELSE "send",
                             ![c].gen = shares[call[c].share]]
    BY <1>10 DEF Deregister
  <2>2. /\ call'[c].share = call[c].share /\ call'[c].kind = call[c].kind
        /\ \A d \in Calls \ {c} : call'[d] = call[d]
    BY <1>1, <2>1 DEF Call
  <2> QED
    BY <1>2, <1>10, <2>2
<1>11. ~Deregister(c) /\ ~Spawn(c) =>
       \/ Return(c) \/ UNCHANGED call
       \/ (\E pc \in CallPc : Go(c, pc)) /\ ~RemoveLookup(c)
       \/ Lookup(c) /\ shares[call[c].share] # 0
       \/ Send(c) /\ call' = [call EXCEPT ![c] = Unanswered(@)]
       \/ RemoveLookup(c) /\ load_all
  BY DEF CallStep, AcquireShares, AcquireTasks, TruncateConfig, WriteConfig,
         InstallKeyring, WriteAuthLog, Lookup, Send, RemoveLookup, RemoveDir, RemoveShadow, CallPc
<1>12. Spawn(c) => Return(c)
  BY DEF Spawn
<1> QED
  BY <1>4, <1>5, <1>6, <1>7, <1>8, <1>9, <1>10, <1>11, <1>12

(* What a step of a task does to the calls in its channel.                 *)
LEMMA TaskStepEffect ==
  ASSUME Typed, QueueInv, NEW t \in Tasks,
         TaskReady(t) \/ TaskBusy(t) \/ TaskFails(t) \/ TaskCommand(t) \/ TaskShutdown(t)
  PROVE  /\ UNCHANGED <<shares, serve, cut>>
         /\ \A c \in Calls :
              \/ call'[c] = call[c]
              \/ /\ call[c].pc = "await"
                 /\ \/ call'[c].pc = "done"
                    \/ call'[c].kind = call[c].kind /\ call'[c].share = call[c].share
                                                    /\ call'[c].pc = "delete"
<1>1. UNCHANGED <<shares, serve, cut>>
  BY DEF TaskReady, TaskBusy, TaskFails, TaskCommand, TaskShutdown
<1>2. CASE TaskReady(t) \/ TaskBusy(t)
  BY <1>1, <1>2 DEF TaskReady, TaskBusy
<1>3. CASE TaskFails(t) \/ TaskShutdown(t)
  <2> SUFFICES ASSUME NEW c \in Calls, call'[c] # call[c]
               PROVE  /\ call[c].pc = "await"
                      /\ \/ call'[c].pc = "done"
                         \/ call'[c].kind = call[c].kind /\ call'[c].share = call[c].share
                                                         /\ call'[c].pc = "delete"
    BY <1>1
  <2>1. call'[c] = Unanswered(call[c]) /\ \E i \in 1..Len(queue[t]) : queue[t][i] = c
    BY <1>3 DEF TaskFails, TaskShutdown, Ended, Dropped
  <2>2. call[c].pc = "await" /\ call[c] \in Call /\ CallOK(call[c])
    BY <2>1 DEF QueueInv, Typed, TypeOK
  <2> QED
    BY <2>1, <2>2, UnansweredTyped, NoCallTyped
<1>4. CASE TaskCommand(t)
  <2> DEFINE c == Head(queue[t])
  <2>1. Return(c) /\ queue[t] \in Seq(Calls) /\ queue[t] # <<>>
    BY <1>4 DEF TaskCommand, Typed, TypeOK
  <2>2. c = queue[t][1] /\ c \in Calls /\ Len(queue[t]) \in Nat \ {0}
    BY <2>1
  <2>3. call[c].pc = "await"
    BY <2>2 DEF QueueInv
  <2> HIDE DEF c
  <2>4. call'[c].pc = "done" /\ \A d \in Calls \ {c} : call'[d] = call[d]
    BY <2>1, <2>2, ReturnTyped, NoCallTyped
  <2> QED
    BY <1>1, <2>3, <2>4
<1> QED
  BY <1>2, <1>3, <1>4

(* Calls that go on, or return, stay apart.                                *)
LEMMA ApartStays ==
  ASSUME ApartInv, UNCHANGED shares,
         \A c \in Calls :
           \/ call'[c] = call[c] \/ ~Active(c)'
           \/ /\ Active(c) /\ call'[c].kind = call[c].kind /\ call'[c].share = call[c].share
              /\ call[c].kind = "remove" /\ call'[c].pc \in RemovePc => call[c].pc \in RemovePc
  PROVE  ApartInv'
<1>1. \A c \in Calls : Active(c)' => /\ Active(c) /\ call'[c].kind = call[c].kind
                                     /\ call'[c].share = call[c].share
  BY DEF Active
<1>2. \A c, d \in Calls : Apart(c, d)'
  BY <1>1 DEF ApartInv, Apart
<1>3. \A c \in Calls : call'[c].kind = "remove" /\ call'[c].pc \in RemovePc =>
                         call[c].kind = "remove" /\ call[c].pc \in RemovePc
  BY DEF RemovePc, Active
<1> QED
  BY <1>1, <1>2, <1>3 DEF ApartInv, RemovePc, Active

LEMMA CallStepKeepsApart ==
  ASSUME TaskInv, Typed', ApartInv, NEW c \in Calls, CallStep(c)
  PROVE  ApartInv'
<1>1. /\ Typed /\ Active(c) /\ \A d \in Calls \ {c} : call'[d] = call[d]
      /\ \/ call'[c].pc = "done"
         \/ call'[c].kind = call[c].kind /\ call'[c].share = call[c].share
      /\ \/ Deregister(c) \/ Spawn(c)
         \/ /\ UNCHANGED shares
            /\ call[c].kind = "remove" /\ call'[c].pc \in RemovePc => call[c].pc \in RemovePc
  BY CallStepEffect DEF TaskInv
<1>2. \A d, e \in Calls : Apart(d, e)'
  BY <1>1 DEF ApartInv, Apart, Active
<1>3. CASE UNCHANGED shares /\ (call[c].kind = "remove" /\ call'[c].pc \in RemovePc => call[c].pc \in RemovePc)
  BY <1>1, <1>3, ApartStays DEF Active
<1>4. CASE Deregister(c)
  <2>1. call[c].share \in Shares
    BY <1>1, <1>4 DEF Deregister, Typed, CallOK
  <2>2. shares'[call[c].share] = 0 /\ \A u \in Shares \ {call[c].share} : shares'[u] = shares[u]
    BY <1>1, <1>4, <2>1 DEF Deregister, Typed, TypeOK
  <2>3. \A d \in Calls : d # c /\ call[d].pc \in RemovePc => call[d].share \in Shares
    BY <1>1 DEF RemovePc, Typed, CallOK
  <2> QED
    BY <1>1, <1>2, <2>2, <2>3 DEF ApartInv, RemovePc
<1>5. CASE Spawn(c)
  <2>1. /\ call[c].share \in Shares /\ call[c].kind \in {"add", "join"} /\ call'[c].kind = "none"
    BY <1>1, <1>5, ReturnTyped, NoCallTyped DEF Spawn, Typed, CallOK
  <2>2. \A u \in Shares \ {call[c].share} : shares'[u] = shares[u]
    BY <1>1, <1>5, <2>1 DEF Spawn, Typed, TypeOK
  <2>3. \A d \in Calls : d # c /\ call[d].pc \in RemovePc /\ call[d].kind = "remove" =>
          call[d].share \in Shares \ {call[c].share}
    BY <1>1, <2>1 DEF RemovePc, Typed, CallOK, ApartInv, Apart, Active
  <2> QED
    BY <1>1, <1>2, <2>1, <2>2, <2>3 DEF ApartInv
<1> QED
  BY <1>1, <1>3, <1>4, <1>5

(* Removals stay apart from adds and joins of their share, and the share   *)
(* that is being removed stays out of the map.                             *)
LEMMA ApartHolds == ~Overlap => (Spec => []ApartInv)
<1> SUFFICES ASSUME ~Overlap PROVE Spec => []ApartInv
  OBVIOUS
<1>1. Init => ApartInv
  BY NoCallTyped DEF Init, ApartInv, Apart, Active, NoCall, RemovePc
<1>2. TaskInv /\ Typed' /\ ApartInv /\ [Next]_vars => ApartInv'
  <2> SUFFICES ASSUME TaskInv, Typed', ApartInv, [Next]_vars PROVE ApartInv'
    OBVIOUS
  <2>1. CASE UNCHANGED <<call, shares>>
    BY <2>1, ApartStays
  <2>2. ASSUME NEW c \in Calls, NEW k \in Kinds, NEW s \in Shares, Begin(c, k, s) PROVE ApartInv'
    <3>1. /\ call'[c].pc \in {"lookup", "shares"} /\ call'[c].kind = k /\ call'[c].share = s
          /\ \A d \in Calls \ {c} : call'[d] = call[d]
      BY <2>2, BeginTyped DEF TaskInv
    <3>2. \A d \in Calls : Active(d) /\ call[d].share = s =>
            /\ ~(k = "remove" /\ call[d].kind \in {"add", "join"})
            /\ ~(k \in {"add", "join"} /\ call[d].kind = "remove")
      BY <2>2 DEF Begin, MayCall
    <3>3. \A d, e \in Calls : Apart(d, e)'
      BY <3>1, <3>2 DEF ApartInv, Apart, Active
    <3> QED
      BY <2>2, <3>1, <3>3 DEF Begin, ApartInv, RemovePc
  <2>3. ASSUME NEW t \in Tasks,
               TaskReady(t) \/ TaskBusy(t) \/ TaskFails(t) \/ TaskCommand(t) \/ TaskShutdown(t)
        PROVE  ApartInv'
    BY <2>3, TaskStepEffect, ApartStays DEF TaskInv, Active, RemovePc
  <2>4. CASE Start
    <3>1. \A c \in Calls : call'[c] = call[c] /\ ~Active(c)
      BY <2>4 DEF Start, up, TaskInv, DownInv
    <3> QED
      BY <3>1 DEF ApartInv, Apart, Active, RemovePc
  <2>5. CASE FinishShutdown \/ Kill
    <3>1. \A c \in Calls : call'[c].pc \in {"idle", "done"}
      BY <2>5, NoCallTyped DEF FinishShutdown, Kill, Exit, Active
    <3> QED
      BY <3>1 DEF ApartInv, Apart, Active, RemovePc
  <2>6. CASE ServePoll \/ ServeJoined \/ ServeCheck \/ Signal
    BY <2>1, <2>6 DEF ServePoll, ServeJoined, ServeCheck, Signal
  <2>7. ASSUME NEW s \in Shares, DirectAdd(s) \/ DirectJoin(s) \/ DirectRemove(s) PROVE ApartInv'
    BY <2>1, <2>7 DEF DirectAdd, DirectJoin, DirectRemove
  <2> QED
    BY <2>1, <2>2, <2>3, <2>4, <2>5, <2>6, <2>7, CallStepKeepsApart DEF Next, vars
<1> QED
  BY <1>1, <1>2, TaskInvHolds, LifecycleTyped, PTL DEF Spec

(* A spawn finds no task of its share running: one in the map would have   *)
(* been refused, and one out of the map is being removed.                  *)
THEOREM OneTaskRunsAShare == ~Overlap => (Spec => []OneTaskPerShare)
<1> SUFFICES ASSUME ~Overlap PROVE Spec => []OneTaskPerShare
  OBVIOUS
<1>1. Init => OneTaskPerShare
  BY DEF Init, OneTaskPerShare, Live, Tasks
<1>2. TaskInv /\ ApartInv /\ OneTaskPerShare /\ [Next]_vars => OneTaskPerShare'
  <2> SUFFICES ASSUME TaskInv, ApartInv, OneTaskPerShare, [Next]_vars PROVE OneTaskPerShare'
    OBVIOUS
  <2>1. CASE \A t \in Tasks : Live(t)' => Live(t)
    BY <2>1 DEF OneTaskPerShare, Tasks
  <2>2. ASSUME NEW c \in Calls, Spawn(c) PROVE OneTaskPerShare'
    <3> DEFINE s == call[c].share  t == <<s, NextGen(s)>>
    <3>1. /\ Typed /\ s \in Shares /\ call[c].kind \in {"add", "join"} /\ Active(c) /\ shares[s] = 0
          /\ NextGen(s) \in Gens
      BY <2>2, NextGenUnborn
         DEF TaskInv, Active, Spawn, Typed, CallOK, LockInv, Writing
    <3>2. \A g \in Gens : ~Live(<<s, g>>)
      <4> SUFFICES ASSUME NEW g \in Gens, Live(<<s, g>>) PROVE FALSE
        OBVIOUS
      <4>1. <<s, g>> \in Tasks /\ g # 0
        BY <3>1 DEF Tasks, Gens
      <4>2. PICK d \in Calls : Stopping(d, <<s, g>>)
        BY <3>1, <4>1 DEF TaskInv, TasksCanBeStopped
      <4>3. Active(d) /\ call[d].kind = "remove" /\ call[d].share = s
        BY <4>2 DEF Stopping, Active
      <4> QED
        BY <3>1, <4>3 DEF ApartInv, Apart
    <3>3. \A u \in Tasks : u # t => task'[u] = task[u]
      BY <2>2, <3>1 DEF Spawn, Typed, TypeOK
    <3>4. \A u \in Shares, g \in Gens : Live(<<u, g>>)' => Live(<<u, g>>) \/ <<u, g>> = t
      BY <3>3 DEF Live, Tasks
    <3> QED
      BY <3>2, <3>4 DEF OneTaskPerShare
  <2>3. CASE Start
    <3>1. \A s \in Shares, g \in Gens : Live(<<s, g>>)' => g = NextGen(s)
      BY <2>3 DEF Start, up, TaskInv, DownInv, Live, Tasks
    <3> QED
      BY <3>1 DEF OneTaskPerShare
  <2>4. ASSUME NEW t \in Tasks,
               TaskReady(t) \/ TaskBusy(t) \/ TaskFails(t) \/ TaskCommand(t) \/ TaskShutdown(t)
        PROVE  \A u \in Tasks : Live(u)' => Live(u)
    BY <2>4 DEF TaskReady, TaskBusy, TaskFails, TaskCommand, TaskShutdown, Ended, Live,
                TaskInv, Typed, TypeOK
  <2>5. CASE FinishShutdown \/ Kill
    BY <2>1, <2>5 DEF FinishShutdown, Kill, Exit, Live
  <2>6. CASE UNCHANGED task
    BY <2>1, <2>6 DEF Live
  <2>7. ASSUME NEW c \in Calls, CallStep(c), ~Spawn(c) PROVE UNCHANGED task
    BY <2>7 DEF CallStep, AcquireShares, AcquireTasks, TruncateConfig, WriteConfig,
         InstallKeyring, WriteAuthLog, Lookup, Send, Deregister, RemoveLookup, RemoveDir, RemoveShadow
  <2>8. (\E s \in Shares : DirectAdd(s) \/ DirectJoin(s) \/ DirectRemove(s)) => UNCHANGED task
    BY DEF DirectAdd, DirectJoin, DirectRemove
  <2>9. (\E c \in Calls, k \in Kinds, s \in Shares : Begin(c, k, s)) => UNCHANGED task
    BY DEF Begin
  <2>10. ServePoll \/ ServeJoined \/ ServeCheck \/ Signal => UNCHANGED task
    BY DEF ServePoll, ServeJoined, ServeCheck, Signal
  <2> QED
    BY <2>1, <2>2, <2>3, <2>4, <2>5, <2>6, <2>7, <2>8, <2>9, <2>10 DEF Next, vars
<1> QED
  BY <1>1, <1>2, TaskInvHolds, ApartHolds, PTL DEF Spec

-----------------------------------------------------------------------------
(***************************************************************************)
(* The files of a share and the map.                                       *)
(***************************************************************************)
(* Where share.json and keys.bin stay, and no call comes out from between  *)
(* their writes.                                                           *)
LEMMA KeysStay ==
  ASSUME NEW s \in Shares, KeysOf(s), cut \subseteq cut',
         disk'[s]["config"] = disk[s]["config"],
         disk[s]["keys"] = "ticket" => disk'[s]["keys"] = "ticket",
         \A c \in Calls : Between(c, s) => Between(c, s)'
  PROVE  KeysOf(s)'
BY DEF KeysOf

(* Writing one file of a share.                                            *)
LEMMA OneFile ==
  ASSUME Typed, NEW s \in Shares, NEW f \in File, NEW x \in Content,
         disk' = [disk EXCEPT ![s][f] = x]
  PROVE  /\ disk'[s][f] = x /\ \A h \in File \ {f} : disk'[s][h] = disk[s][h]
         /\ \A u \in Shares \ {s} : disk'[u] = disk[u]
BY DEF Typed, TypeOK

LEMMA CallStepKeepsKeys ==
  ASSUME TaskInv, Typed', NEW c \in Calls, CallStep(c), NEW s \in Shares, KeysOf(s)
  PROVE  KeysOf(s)'
<1>1. /\ Typed /\ Active(c) /\ call[c].share \in Shares
      /\ \A d \in Calls \ {c} : call'[d] = call[d]
  BY CallStepEffect DEF TaskInv, Typed, CallOK, Active
<1>2. \A d \in Calls \ {c} : Between(d, s) <=> Between(d, s)'
  BY <1>1 DEF Between
<1>3. CASE AcquireShares(c) \/ AcquireTasks(c) \/ Lookup(c) \/ Send(c) \/ RemoveLookup(c) \/ Deregister(c)
  <2>1. ~Between(c, s) /\ UNCHANGED <<disk, cut>>
    BY <1>3 DEF AcquireShares, AcquireTasks, Lookup, Send, RemoveLookup, Deregister, Between
  <2> QED
    BY <1>2, <2>1, KeysStay
<1>4. CASE TruncateConfig(c)
  <2>1. ~Between(c, s) /\ UNCHANGED cut
    BY <1>4 DEF TruncateConfig, Between
  <2>2. disk'[call[c].share]["config"] = "torn" /\ \A u \in Shares \ {call[c].share} : disk'[u] = disk[u]
    BY <1>1, <1>4, OneFile DEF TruncateConfig, File, Content
  <2> QED
    BY <1>2, <2>1, <2>2, KeysStay DEF KeysOf
<1>5. CASE WriteConfig(c)
  <2>1. ~Between(c, s) /\ UNCHANGED cut
    BY <1>5 DEF WriteConfig, Between
  <2>2. /\ disk'[call[c].share]["config"] = Origin(c)
        /\ \A u \in Shares \ {call[c].share} : disk'[u] = disk[u]
    <3>1. Origin(c) \in Content /\ "config" \in File
      BY DEF Origin, File, Content
    <3>2. disk' = [disk EXCEPT ![call[c].share]["config"] = Origin(c)]
      BY <1>5 DEF WriteConfig
    <3> QED
      BY <1>1, <3>1, <3>2 DEF Typed, TypeOK
  <2>3. call[c].kind = "join" => call'[c].share = call[c].share /\ call'[c].pc = "keys"
    BY <1>1, <1>5 DEF WriteConfig, Go, Typed, TypeOK, Call
  <2>4. CASE call[c].share = s
    <3>1. CASE call[c].kind = "join"
      BY <2>3, <2>4, <3>1 DEF KeysOf, Between
    <3>2. CASE call[c].kind # "join"
      <4>1. disk'[s]["config"] = "own"
        BY <2>2, <2>4, <3>2 DEF Origin
      <4> QED
        BY <4>1 DEF KeysOf
    <3> QED
      BY <3>1, <3>2
  <2>5. CASE call[c].share # s
    BY <1>2, <2>1, <2>2, <2>5, KeysStay
  <2> QED
    BY <2>4, <2>5
<1>6. CASE InstallKeyring(c)
  <2>1. CASE UNCHANGED cut /\ disk' = [disk EXCEPT ![call[c].share]["keys"] = "ticket"]
    <3>1. /\ disk'[call[c].share]["keys"] = "ticket"
          /\ \A u \in Shares \ {call[c].share} : disk'[u] = disk[u]
      BY <1>1, <2>1, OneFile DEF File, Content
    <3>2. CASE call[c].share = s
      BY <3>1, <3>2 DEF KeysOf
    <3>3. CASE call[c].share # s
      BY <1>2, <2>1, <3>1, <3>3, KeysStay DEF Between
    <3> QED
      BY <3>2, <3>3
  <2>2. CASE cut' = cut \cup {call[c].share} /\ UNCHANGED disk
    <3>1. CASE call[c].share = s
      BY <2>2, <3>1 DEF KeysOf
    <3>2. CASE call[c].share # s
      BY <1>2, <2>2, <3>2, KeysStay DEF Between
    <3> QED
      BY <3>1, <3>2
  <2> QED
    BY <1>6, <2>1, <2>2 DEF InstallKeyring
<1>7. CASE WriteAuthLog(c)
  <2>1. ~Between(c, s) /\ cut \subseteq cut'
    BY <1>7 DEF WriteAuthLog, Between
  <2>2. disk'[s]["config"] = disk[s]["config"] /\ disk'[s]["keys"] = disk[s]["keys"]
    <3>1. CASE UNCHANGED disk
      BY <3>1
    <3>2. CASE disk' = [disk EXCEPT ![call[c].share]["auth"] = Origin(c)]
      <4>1. Origin(c) \in Content /\ {"config", "keys", "auth"} \subseteq File
        BY DEF Origin, File, Content
      <4>2. /\ \A h \in File \ {"auth"} : disk'[call[c].share][h] = disk[call[c].share][h]
            /\ \A u \in Shares \ {call[c].share} : disk'[u] = disk[u]
        BY <1>1, <3>2, <4>1, OneFile
      <4> QED
        BY <4>1, <4>2
    <3> QED
      BY <1>7, <3>1, <3>2 DEF WriteAuthLog
  <2> QED
    BY <1>2, <2>1, <2>2, KeysStay
<1>8. CASE Spawn(c)
  <2>1. ~Between(c, s) /\ UNCHANGED cut
    BY <1>8 DEF Spawn, Between
  <2>2. disk[call[c].share] \in [File -> Content] /\ disk' = [disk EXCEPT ![call[c].share] = WithKeys(@)]
    BY <1>1, <1>8 DEF Spawn, Typed, TypeOK
  <2>3. (disk'[s] = disk[s] \/ disk'[s] = WithKeys(disk[s])) /\ disk[s] \in [File -> Content]
    BY <1>1, <2>2 DEF Typed, TypeOK
  <2>4. disk'[s]["config"] = disk[s]["config"] /\ (disk[s]["keys"] = "ticket" => disk'[s]["keys"] = "ticket")
    BY <2>3, WithKeysTyped DEF File
  <2> QED
    BY <1>2, <2>1, <2>4, KeysStay
<1>9. CASE RemoveDir(c)
  <2> DEFINE u == call[c].share
  <2>1. UNCHANGED cut
    BY <1>9 DEF RemoveDir
  <2>2. CASE \E f \in Dir(u) : disk' = [disk EXCEPT ![u][f] = "none"] /\ (Dir(u) = {f} \/ UNCHANGED call)
    <3>1. PICK f \in Dir(u) : disk' = [disk EXCEPT ![u][f] = "none"] /\ (Dir(u) = {f} \/ UNCHANGED call)
      BY <2>2
    <3>2. /\ disk'[u][f] = "none" /\ \A h \in File \ {f} : disk'[u][h] = disk[u][h]
          /\ \A w \in Shares \ {u} : disk'[w] = disk[w]
      BY <1>1, <3>1, OneFile DEF Dir, Content
    <3>3. CASE u # s
      BY <1>2, <2>1, <3>2, <3>3, KeysStay DEF Between
    <3>4. CASE u = s /\ UNCHANGED call
      BY <1>9, <3>4 DEF RemoveDir, KeysOf, Between
    <3>5. CASE u = s /\ Dir(u) = {f}
      <4>1. disk'[s]["config"] = "none"
        BY <3>2, <3>5 DEF Dir, File
      <4> QED
        BY <4>1 DEF KeysOf
    <3> QED
      BY <3>1, <3>3, <3>4, <3>5
  <2>3. CASE Dir(u) = {} /\ UNCHANGED disk
    <3>1. CASE u # s
      BY <1>2, <2>1, <2>3, <3>1, KeysStay DEF Between
    <3>2. CASE u = s
      <4>1. disk'[s]["config"] = "none"
        BY <2>3, <3>2 DEF Dir, File
      <4> QED
        BY <4>1 DEF KeysOf
    <3> QED
      BY <3>1, <3>2
  <2> QED
    BY <1>9, <2>2, <2>3 DEF RemoveDir
<1>10. CASE RemoveShadow(c)
  <2>1. ~Between(c, s) /\ UNCHANGED cut
    BY <1>10 DEF RemoveShadow, Between
  <2>2. disk'[s]["config"] = disk[s]["config"] /\ disk'[s]["keys"] = disk[s]["keys"]
    <3>1. "none" \in Content /\ {"config", "keys", "shadow"} \subseteq File
      BY DEF File, Content
    <3>2. /\ \A h \in File \ {"shadow"} : disk'[call[c].share][h] = disk[call[c].share][h]
          /\ \A u \in Shares \ {call[c].share} : disk'[u] = disk[u]
      BY <1>1, <1>10, <3>1, OneFile DEF RemoveShadow
    <3> QED
      BY <3>1, <3>2
  <2> QED
    BY <1>2, <2>1, <2>2, KeysStay
<1> QED
  BY <1>3, <1>4, <1>5, <1>6, <1>7, <1>8, <1>9, <1>10 DEF CallStep

LEMMA TaskStepKeepsKeys ==
  ASSUME TaskInv, NEW t \in Tasks, NEW s \in Shares, KeysOf(s),
         TaskReady(t) \/ TaskBusy(t) \/ TaskFails(t) \/ TaskCommand(t) \/ TaskShutdown(t)
  PROVE  KeysOf(s)'
<1>1. Typed /\ UNCHANGED cut /\ \A c \in Calls : Between(c, s) => Between(c, s)'
  BY TaskStepEffect DEF TaskInv, Between
<1>2. disk'[s]["config"] = disk[s]["config"] /\ (disk[s]["keys"] = "ticket" => disk'[s]["keys"] = "ticket")
  <2>1. CASE TaskReady(t)
    <3>1. "own" \in Content /\ {"config", "keys", "shadow"} \subseteq File /\ t[1] \in Shares
      BY DEF File, Content, Tasks
    <3>2. /\ \A h \in File \ {"shadow"} : disk'[t[1]][h] = disk[t[1]][h]
          /\ \A u \in Shares \ {t[1]} : disk'[u] = disk[u]
      BY <1>1, <2>1, <3>1, OneFile DEF TaskReady
    <3> QED
      BY <3>1, <3>2
  <2>2. CASE TaskCommand(t)
    BY <1>1, <2>2, CommandWrites
  <2>3. CASE UNCHANGED disk
    BY <2>3
  <2> QED
    BY <2>1, <2>2, <2>3 DEF TaskBusy, TaskFails, TaskShutdown
<1> QED
  BY <1>1, <1>2, KeysStay

(* A stop between the two files of a join or a removal marks its share;    *)
(* an orderly stop waits for both.                                         *)
LEMMA StopKeepsKeys ==
  ASSUME TaskInv, NEW s \in Shares, KeysOf(s), FinishShutdown \/ Kill
  PROVE  KeysOf(s)'
<1>1. UNCHANGED disk /\ cut \subseteq cut'
  BY DEF FinishShutdown, Kill, Exit
<1>2. ASSUME NEW c \in Calls, Between(c, s) PROVE s \in cut'
  <2>1. CASE FinishShutdown
    BY <1>2, <2>1 DEF FinishShutdown, TasksLocked, Writing, Between
  <2>2. CASE Kill
    <3>1. call[c].pc = "keys" => call[c].kind = "join"
      BY DEF TaskInv, Typed, CallOK
    <3> QED
      BY <1>2, <2>2, <3>1 DEF Kill, Between
  <2> QED
    BY <2>1, <2>2
<1> QED
  BY <1>1, <1>2 DEF KeysOf

LEMMA StartKeepsKeys ==
  ASSUME TaskInv, NEW s \in Shares, KeysOf(s), Start
  PROVE  KeysOf(s)'
<1>1. (disk'[s] = disk[s] \/ disk'[s] = WithKeys(disk[s])) /\ disk[s] \in [File -> Content]
  BY DEF Start, TaskInv, Typed, TypeOK
<1>2. disk'[s]["config"] = disk[s]["config"] /\ (disk[s]["keys"] = "ticket" => disk'[s]["keys"] = "ticket")
  BY <1>1, WithKeysTyped DEF File
<1>3. UNCHANGED <<cut, call>>
  BY DEF Start
<1> QED
  BY <1>2, <1>3, KeysStay DEF Between

(* What the direct commands make of share.json.                            *)
LEMMA DirectWrites ==
  ASSUME Typed, NEW s \in Shares, DirectAdd(s) \/ DirectRemove(s)
  PROVE  disk'[s]["config"] # "ticket" /\ \A u \in Shares \ {s} : disk'[u] = disk[u]
<1>1. disk \in [Shares -> [File -> Content]] /\ "config" \in File
  BY DEF Typed, TypeOK, File
<1>2. CASE DirectAdd(s)
  BY <1>1, <1>2 DEF DirectAdd
<1>3. CASE DirectRemove(s)
  <2> DEFINE e == [f \in File |-> IF f = "shadow" /\ ~Configured(s) THEN disk[s][f] ELSE "none"]
  <2>1. disk' = [disk EXCEPT ![s] = e]
    BY <1>3 DEF DirectRemove
  <2>2. e["config"] = "none"
    BY <1>1
  <2> HIDE DEF e
  <2> QED
    BY <1>1, <2>1, <2>2
<1> QED
  BY <1>2, <1>3

(* KeysInv holds in every state, also when calls overlap.                  *)
LEMMA KeysHold == Spec => []KeysInv
<1>1. Init => KeysInv
  <2> SUFFICES ASSUME Init, NEW s \in Shares PROVE disk[s]["config"] # "ticket"
    BY DEF KeysInv, KeysOf
  <2> QED
    BY DEF Init, File
<1>2. TaskInv /\ Typed' /\ KeysInv /\ [Next]_vars => KeysInv'
  <2> SUFFICES ASSUME TaskInv, Typed', KeysInv, [Next]_vars, NEW s \in Shares PROVE KeysOf(s)'
    BY DEF KeysInv
  <2> USE DEF KeysInv
  <2>1. CASE UNCHANGED <<disk, cut, call>>
    BY <2>1, KeysStay DEF Between
  <2>2. ASSUME NEW c \in Calls, NEW k \in Kinds, NEW u \in Shares, Begin(c, k, u) PROVE KeysOf(s)'
    <3>1. /\ call[c].pc = "idle" /\ \A d \in Calls \ {c} : call'[d] = call[d]
          /\ UNCHANGED <<disk, cut>>
      BY <2>2, BeginTyped DEF Begin, TaskInv
    <3> QED
      BY <3>1, KeysStay DEF Between
  <2>3. CASE ServePoll \/ ServeJoined \/ ServeCheck \/ Signal
    BY <2>1, <2>3 DEF ServePoll, ServeJoined, ServeCheck, Signal
  <2>4. ASSUME NEW u \in Shares, DirectAdd(u) \/ DirectRemove(u) PROVE KeysOf(s)'
    <3>1. UNCHANGED <<cut, call>>
      BY <2>4 DEF DirectAdd, DirectRemove
    <3>2. disk'[u]["config"] # "ticket" /\ \A w \in Shares \ {u} : disk'[w] = disk[w]
      BY <2>4, DirectWrites DEF TaskInv
    <3> QED
      BY <3>1, <3>2, KeysStay DEF KeysOf, Between
  <2>5. ASSUME NEW u \in Shares, DirectJoin(u) PROVE KeysOf(s)'
    <3>1. UNCHANGED call /\ cut \subseteq cut'
      BY <2>5 DEF DirectJoin
    <3>2. (disk'[u]["keys"] = "ticket" \/ u \in cut') /\ \A w \in Shares \ {u} : disk'[w] = disk[w]
      BY <2>5, DirectJoinWrites DEF TaskInv
    <3>3. CASE u = s
      BY <3>2, <3>3 DEF KeysOf
    <3>4. CASE u # s
      BY <3>1, <3>2, <3>4, KeysStay DEF Between
    <3> QED
      BY <3>3, <3>4
  <2> QED
    BY <2>1, <2>2, <2>3, <2>4, <2>5, CallStepKeepsKeys, TaskStepKeepsKeys, StopKeepsKeys,
       StartKeepsKeys DEF Next, vars
<1> QED
  BY <1>1, <1>2, TaskInvHolds, LifecycleTyped, PTL DEF Spec

(* No running share has share.json from a ticket and a keyring of its own  *)
(* making, unless a stop or an error came between the two files.           *)
THEOREM JoinedSharesKeepTheirKeys == ~Overlap => (Spec => []JoinedSharesHaveTheirKeys)
<1> SUFFICES ASSUME ~Overlap PROVE Spec => []JoinedSharesHaveTheirKeys
  OBVIOUS
<1>1. TaskInv /\ ApartInv /\ KeysInv => JoinedSharesHaveTheirKeys
  <2> SUFFICES ASSUME TaskInv, ApartInv, KeysInv, NEW s \in Shares, shares[s] # 0
               PROVE  \A c \in Calls : ~Between(c, s)
    BY DEF JoinedSharesHaveTheirKeys, KeysInv, KeysOf
  <2> QED
    BY DEF TaskInv, Typed, CallOK, LockInv, ApartInv, Between, Writing, RemovePc
<1> QED
  BY <1>1, KeysHold, TaskInvHolds, ApartHolds, PTL

(* A step of call c changes share.json only while it has the locks, or     *)
(* while it deletes the files.                                             *)
LEMMA CallStepConfig ==
  ASSUME Typed, NEW c \in Calls, CallStep(c)
  PROVE  \/ /\ call[c].pc \in {"truncate", "config", "delete"} /\ ~Spawn(c) /\ ~Deregister(c)
            /\ \A u \in Shares \ {call[c].share} : disk'[u] = disk[u]
         \/ \A u \in Shares : disk'[u]["config"] = disk[u]["config"]
<1> DEFINE s == call[c].share
<1>1. /\ disk \in [Shares -> [File -> Content]] /\ {"config", "keys", "auth", "shadow"} \subseteq File
      /\ s \in Shares
  BY CallStepEffect DEF Typed, TypeOK, CallOK, Active, File
<1>2. CASE TruncateConfig(c) \/ WriteConfig(c) \/ RemoveDir(c)
  BY <1>1, <1>2 DEF TruncateConfig, WriteConfig, RemoveDir, Spawn, Deregister
<1>3. CASE UNCHANGED disk
  BY <1>3
<1>4. CASE InstallKeyring(c)
  BY <1>1, <1>4 DEF InstallKeyring
<1>5. CASE WriteAuthLog(c)
  BY <1>1, <1>5 DEF WriteAuthLog
<1>6. CASE Spawn(c)
  <2>1. disk' = [disk EXCEPT ![s] = WithKeys(@)] /\ WithKeys(disk[s])["config"] = disk[s]["config"]
    BY <1>1, <1>6, WithKeysTyped DEF Spawn
  <2> QED
    BY <1>1, <2>1
<1>7. CASE RemoveShadow(c)
  BY <1>1, <1>7 DEF RemoveShadow
<1> QED
  BY <1>2, <1>3, <1>4, <1>5, <1>6, <1>7
     DEF CallStep, AcquireShares, AcquireTasks, Lookup, Send, RemoveLookup, Deregister

(* The steps after which share.json is written.                            *)
LEMMA CallStepTarget ==
  ASSUME Typed, NEW c \in Calls, CallStep(c), call'[c].pc \in {"keys", "auth", "spawn"}
  PROVE  WriteConfig(c) \/ InstallKeyring(c) \/ WriteAuthLog(c)
<1>1. call[c] \in Call /\ call \in [Calls -> Call] /\ CallOK(call[c])
  BY DEF Typed, TypeOK
<1>2. ~Return(c)
  BY NoCallTyped, ReturnTyped
<1>3. \A pc \in CallPc \ {"keys", "auth", "spawn"} : ~Go(c, pc)
  BY <1>1 DEF Go, Call
<1>4. ~AcquireShares(c) /\ ~AcquireTasks(c) /\ ~TruncateConfig(c) /\ ~Spawn(c) /\ ~RemoveShadow(c)
  BY <1>2, <1>3 DEF AcquireShares, AcquireTasks, TruncateConfig, Spawn, RemoveShadow, CallPc
<1>5. ~RemoveDir(c)
  <2>1. ~UNCHANGED call \/ call[c].pc # "delete"
    OBVIOUS
  <2> QED
    BY <1>2, <1>3, <2>1 DEF RemoveDir, CallPc
<1>6. ~Lookup(c) /\ ~RemoveLookup(c) /\ ~Deregister(c)
  <2> DEFINE g == shares[call[c].share]  b == Configured(call[c].share)
  <2>1. ~(call' = [call EXCEPT ![c].pc = "send", ![c].gen = g])
    BY <1>1 DEF Call
  <2>2. ~(call' = [call EXCEPT ![c].pc = "delete", ![c].gen = g])
    BY <1>1 DEF Call
  <2> HIDE DEF b
  <2>3. ~(call' = [call EXCEPT ![c].pc = "shares", ![c].root = b])
    BY <1>1 DEF Call
  <2> QED
    BY <1>2, <2>1, <2>2, <2>3 DEF Lookup, RemoveLookup, Deregister, b
<1>7. ~Send(c)
  <2>1. ASSUME call' = [call EXCEPT ![c] = Unanswered(@)] PROVE FALSE
    <3>1. call'[c] = Unanswered(call[c])
      BY <1>1, <2>1
    <3> QED
      BY <1>1, <3>1, UnansweredTyped, NoCallTyped
  <2> QED
    BY <1>3, <2>1 DEF Send, CallPc
<1> QED
  BY <1>4, <1>5, <1>6, <1>7 DEF CallStep

(* ShareConfig::save leaves a share.json that load_all reads.              *)
LEMMA ConfigWritten ==
  ASSUME Typed, NEW c \in Calls, WriteConfig(c), call[c].share \in Shares
  PROVE  Configured(call[c].share)'
<1>1. call'[c].share = call[c].share
  BY DEF WriteConfig, Go, Typed, TypeOK, Call
<1>2. Origin(c) \in {"own", "ticket"} /\ "config" \in File
  BY DEF Origin, File
<1>3. disk'[call[c].share]["config"] = Origin(c)
  BY <1>2 DEF WriteConfig, Typed, TypeOK
<1> QED
  BY <1>1, <1>2, <1>3 DEF Configured

OnDiskInv == SharesOnDisk /\ WrittenInv

(* A step of a call keeps the map on disk.                                 *)
LEMMA CallStepKeepsOnDisk ==
  ASSUME TaskInv, Typed', ApartInv, OnDiskInv, NEW c \in Calls, CallStep(c)
  PROVE  OnDiskInv'
<1> DEFINE s == call[c].share
<1>1. /\ Typed /\ Active(c) /\ s \in Shares /\ call[c] \in Call /\ CallOK(call[c])
      /\ \A d \in Calls \ {c} : call'[d] = call[d]
  BY CallStepEffect DEF TaskInv, Typed, TypeOK, CallOK, Active
<1>2. \A d \in Calls : Active(d) => call[d].share \in Shares
  BY <1>1 DEF Typed, CallOK, Active
<1>3. CASE \A u \in Shares : disk'[u]["config"] = disk[u]["config"]
  <2>1. SharesOnDisk'
    <3>1. CASE UNCHANGED shares
      BY <1>3, <3>1 DEF OnDiskInv, SharesOnDisk, Configured
    <3>2. CASE Deregister(c)
      <4>1. \A u \in Shares : shares'[u] # 0 => shares[u] # 0
        BY <1>1, <3>2 DEF Deregister, Typed, TypeOK
      <4> QED
        BY <1>3, <4>1 DEF OnDiskInv, SharesOnDisk, Configured
    <3>3. CASE Spawn(c)
      <4>1. /\ Configured(s) /\ \A u \in Shares : shares'[u] # 0 => shares[u] # 0 \/ u = s
        BY <1>1, <3>3 DEF Spawn, Typed, TypeOK, OnDiskInv, WrittenInv
      <4> QED
        BY <1>3, <4>1 DEF OnDiskInv, SharesOnDisk, Configured
    <3> QED
      BY <1>1, <3>1, <3>2, <3>3, CallStepEffect
  <2>2. WrittenInv'
    <3> SUFFICES ASSUME NEW d \in Calls, call'[d].pc \in {"keys", "auth", "spawn"}
                 PROVE  Configured(call[d].share)'
      BY DEF WrittenInv, Configured
    <3>1. CASE d # c
      BY <1>1, <1>2, <1>3, <3>1 DEF OnDiskInv, WrittenInv, Configured, Active
    <3>2. CASE d = c
      <4>1. call[c].pc \in {"config", "keys", "auth", "spawn"} /\ call'[c].share = s
        <5>1. call'[c].share = s /\ call'[c].pc # "done"
          BY <1>1, <3>2, CallStepEffect
        <5>2. WriteConfig(c) \/ InstallKeyring(c) \/ WriteAuthLog(c)
          BY <1>1, <3>2, CallStepTarget
        <5> QED
          BY <5>1, <5>2 DEF WriteConfig, InstallKeyring, WriteAuthLog
      <4>2. CASE call[c].pc = "config"
        <5>1. WriteConfig(c)
          BY <1>1, <3>2, <4>2, CallStepTarget DEF InstallKeyring, WriteAuthLog
        <5> QED
          BY <1>1, <3>2, <5>1, ConfigWritten
      <4>3. CASE call[c].pc # "config"
        BY <1>1, <1>3, <3>2, <4>1, <4>3 DEF OnDiskInv, WrittenInv, Configured
      <4> QED
        BY <4>2, <4>3
    <3> QED
      BY <3>1, <3>2
  <2> QED
    BY <2>1, <2>2 DEF OnDiskInv
<1>4. CASE /\ call[c].pc \in {"truncate", "config", "delete"} /\ ~Spawn(c) /\ ~Deregister(c)
           /\ \A u \in Shares \ {s} : disk'[u] = disk[u]
  <2>1. UNCHANGED shares /\ shares[s] = 0
    BY <1>1, <1>4, CallStepEffect
       DEF TaskInv, LockInv, Writing, ApartInv, RemovePc, CallOK
  <2>2. SharesOnDisk'
    BY <1>4, <2>1 DEF OnDiskInv, SharesOnDisk, Configured
  <2>3. WrittenInv'
    <3> SUFFICES ASSUME NEW d \in Calls, call'[d].pc \in {"keys", "auth", "spawn"}
                 PROVE  Configured(call[d].share)'
      BY DEF WrittenInv, Configured
    <3>1. CASE d # c
      <4>1. call'[d] = call[d] /\ Writing(d) /\ Active(d) /\ call[d].share \in Shares
        BY <1>1, <1>2, <3>1 DEF Writing, Active
      <4>2. call[c].pc = "delete"
        BY <1>4, <3>1, <4>1 DEF TaskInv, LockInv, Locking, Writing
      <4>3. call[d].kind \in {"add", "join"} /\ call[c].kind = "remove"
        BY <1>1, <4>1, <4>2 DEF Typed, CallOK, Writing
      <4>4. call[d].share # s
        BY <1>1, <4>1, <4>3 DEF ApartInv, Apart
      <4> QED
        BY <1>4, <4>1, <4>4 DEF OnDiskInv, WrittenInv, Configured
    <3>2. CASE d = c
      <4>1. call[c].pc = "config" /\ WriteConfig(c)
        BY <1>1, <1>4, <3>2, CallStepTarget DEF InstallKeyring, WriteAuthLog, WriteConfig
      <4> QED
        BY <1>1, <3>2, <4>1, ConfigWritten
    <3> QED
      BY <3>1, <3>2
  <2> QED
    BY <2>2, <2>3 DEF OnDiskInv
<1> QED
  BY <1>1, <1>3, <1>4, CallStepConfig

(* What the map lists is on disk, as long as nobody edits the files of a   *)
(* running daemon: share_list, and the next start, miss nothing that runs. *)
THEOREM MapIsOnDisk ==
  ~Overlap /\ TRUE \notin DirectWhen => (Spec => []SharesOnDisk)
<1> SUFFICES ASSUME ~Overlap, TRUE \notin DirectWhen PROVE Spec => []SharesOnDisk
  OBVIOUS
<1>1. Init => OnDiskInv
  BY NoCallTyped DEF Init, OnDiskInv, SharesOnDisk, WrittenInv, NoCall
<1>2. TaskInv /\ Typed' /\ ApartInv /\ OnDiskInv /\ [Next]_vars => OnDiskInv'
  <2> SUFFICES ASSUME TaskInv, Typed', ApartInv, OnDiskInv, [Next]_vars PROVE OnDiskInv'
    OBVIOUS
  <2>1. ASSUME UNCHANGED shares, \A u \in Shares : disk'[u]["config"] = disk[u]["config"],
               \A c \in Calls : call'[c].pc \in {"keys", "auth", "spawn"} => call'[c] = call[c]
        PROVE  OnDiskInv'
    <3>1. \A c \in Calls : call[c].pc \in {"keys", "auth", "spawn"} => call[c].share \in Shares
      BY DEF TaskInv, Typed, CallOK
    <3> QED
      BY <2>1, <3>1 DEF OnDiskInv, SharesOnDisk, WrittenInv, Configured
  <2>2. CASE UNCHANGED <<shares, disk, call>>
    BY <2>1, <2>2
  <2>3. ASSUME NEW c \in Calls, NEW k \in Kinds, NEW s \in Shares, Begin(c, k, s) PROVE OnDiskInv'
    <3>1. /\ call'[c].pc \in {"lookup", "shares"} /\ \A d \in Calls \ {c} : call'[d] = call[d]
          /\ UNCHANGED <<disk, shares>>
      BY <2>3, BeginTyped DEF Begin, TaskInv
    <3> QED
      BY <2>1, <3>1
  <2>4. ASSUME NEW t \in Tasks,
               TaskReady(t) \/ TaskBusy(t) \/ TaskFails(t) \/ TaskCommand(t) \/ TaskShutdown(t)
        PROVE  OnDiskInv'
    <3>1. UNCHANGED shares /\ \A c \in Calls : call'[c].pc \in {"keys", "auth", "spawn"} => call'[c] = call[c]
      BY <2>4, TaskStepEffect DEF TaskInv
    <3>2. \A u \in Shares : disk'[u]["config"] = disk[u]["config"]
      <4>1. CASE TaskReady(t)
        <5>1. disk \in [Shares -> [File -> Content]] /\ {"config", "shadow"} \subseteq File
          BY DEF TaskInv, Typed, TypeOK, File
        <5> QED
          BY <4>1, <5>1 DEF TaskReady
      <4>2. CASE TaskCommand(t)
        BY <4>2, CommandWrites DEF TaskInv
      <4> QED
        BY <2>4, <4>1, <4>2 DEF TaskBusy, TaskFails, TaskShutdown
    <3> QED
      BY <2>1, <3>1, <3>2
  <2>5. CASE Start
    <3>1. \A s \in Shares : shares'[s] # 0 => Configured(s)
      BY <2>5 DEF Start
    <3>2. \A s \in Shares : disk'[s]["config"] = disk[s]["config"]
      BY <2>5, WithKeysTyped DEF Start, TaskInv, Typed, TypeOK, File
    <3>3. \A c \in Calls : call'[c] = call[c] /\ ~Active(c)
      BY <2>5 DEF Start, up, TaskInv, DownInv
    <3> QED
      BY <3>1, <3>2, <3>3 DEF OnDiskInv, SharesOnDisk, WrittenInv, Configured, Active
  <2>6. CASE FinishShutdown \/ Kill
    <3>1. \A s \in Shares : shares'[s] = 0
      BY <2>6 DEF FinishShutdown, Kill, Exit
    <3>2. \A c \in Calls : call'[c].pc \in {"idle", "done"}
      BY <2>6, NoCallTyped DEF FinishShutdown, Kill, Exit, Active
    <3> QED
      BY <3>1, <3>2 DEF OnDiskInv, SharesOnDisk, WrittenInv
  <2>7. CASE ServePoll \/ ServeJoined \/ ServeCheck \/ Signal
    BY <2>2, <2>7 DEF ServePoll, ServeJoined, ServeCheck, Signal
  <2>8. ASSUME NEW s \in Shares, DirectAdd(s) \/ DirectJoin(s) \/ DirectRemove(s) PROVE OnDiskInv'
    <3>1. ~up /\ UNCHANGED <<shares, call>>
      BY <2>8 DEF DirectAdd, DirectJoin, DirectRemove, up
    <3>2. /\ \A u \in Shares : shares'[u] = 0
          /\ \A c \in Calls : call'[c].pc \notin {"keys", "auth", "spawn"}
      BY <3>1 DEF TaskInv, DownInv, Active
    <3> QED
      BY <3>2 DEF OnDiskInv, SharesOnDisk, WrittenInv
  <2> QED
    BY <2>2, <2>3, <2>4, <2>5, <2>6, <2>7, <2>8, CallStepKeepsOnDisk DEF Next, vars
<1>3. OnDiskInv => SharesOnDisk
  BY DEF OnDiskInv
<1> QED
  BY <1>1, <1>2, <1>3, TaskInvHolds, LifecycleTyped, ApartHolds, PTL DEF Spec

=============================================================================

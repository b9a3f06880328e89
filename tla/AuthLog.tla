------------------------------ MODULE AuthLog ------------------------------
(***************************************************************************)
(* The membership log of a share, AuthState of src/auth.rs: authoring an   *)
(* operation, applying the ones that gossip or a ticket brings, auth.log   *)
(* and its replay, and the commands of src/main.rs that edit the file      *)
(* without the daemon.                                                     *)
(*                                                                         *)
(* An operation is its position in `forge`, the list of all operations     *)
(* signed so far; the same content, signed twice, is the same operation.   *)
(* Signatures are perfect.  The group CRDT of p2panda-auth is external:    *)
(* its state is the set of operations it has processed, and what it        *)
(* accepts is taken from how this code uses it.  Bounds: one peer creates  *)
(* the group, and nobody revokes a manager.                                *)
(***************************************************************************)
EXTENDS Naturals, Sequences, FiniteSets
LOCAL INSTANCE SequencesExt

CONSTANTS
  Peers,
  Creator,          \* the peer that created the share
  CoOwners,         \* peers that are invited as Owner
  Leeches,          \* peers whose share has the role Leech
  Askers,           \* peers whose operators invite and revoke
  DirectWhen,       \* they do so directly while the daemon is up, down, ...
  MaxOps,           \* bound on operations
  MaxCrashes        \* bound on daemon stops

ASSUME AuthLogAssumption ==
  /\ Creator \in Peers
  /\ CoOwners \subseteq Peers \ {Creator}
  /\ Askers \subseteq Peers /\ Leeches \subseteq Peers
  /\ DirectWhen \subseteq BOOLEAN
  /\ MaxOps \in Nat \ {0} /\ MaxCrashes \in Nat

VARIABLES
  forge,        \* the content of every operation that was signed
  up,           \* is the share task running?
  state,        \* its AuthState
  log,          \* auth.log; <<>> when there is none
  snapshots,    \* logs that were published
  tickets,      \* invitations handed out
  crashes

vars == <<forge, up, state, log, snapshots, tickets, crashes>>

OpIds == 1..MaxOps
Content == [author : Peers, deps : SUBSET OpIds, kind : {"Create", "Add", "Remove"}, member : Peers]
Log == UNION {[1..n -> OpIds] : n \in 0..MaxOps}
AuthState == [crdt : SUBSET OpIds, ops : Log, pending : Log]

TypeOK ==
  /\ Len(forge) <= MaxOps /\ \A i \in 1..Len(forge) : forge[i] \in Content
  /\ up \in [Peers -> BOOLEAN]
  /\ state \in [Peers -> AuthState]
  /\ log \in [Peers -> Log]
  /\ snapshots \subseteq Log
  /\ tickets \subseteq [invitee : Peers, auth_log : Log]
  /\ crashes \in 0..MaxCrashes

Set(s) == {s[i] : i \in 1..Len(s)}
-----------------------------------------------------------------------------
(***************************************************************************)
(* The CRDT (external).                                                    *)
(***************************************************************************)
\* The operations of set S and all that they depend on.
Closed(f, T) == \A i \in T : f[i].deps \subseteq T
Past(f, S) ==
  {i \in 1..Len(f) :
     \A T \in SUBSET (1..Len(f)) : S \subseteq T /\ Closed(f, T) => i \in T}

\* Members and managers of the group after the operations of set S.
MembersOf(f, S) ==
  LET alive(m, i) ==
        \A r \in S : f[r].kind = "Remove" /\ f[r].member = m => r \in Past(f, f[i].deps)
  IN {m \in Peers : \E i \in S : f[i].kind # "Remove" /\ f[i].member = m /\ alive(m, i)}

ManagersOf(f, S) == MembersOf(f, S) \cap (CoOwners \cup {Creator})

Heads(f, S) == {i \in S : \A j \in S : i \notin f[j].deps}

\* Crdt::process succeeds: the author may do it in the state at its deps.
Accepts(f, crdt, o) ==
  IF f[o].kind = "Create" THEN crdt = {}
  ELSE /\ f[o].deps # {} /\ f[o].deps \subseteq crdt
       /\ f[o].author \in ManagersOf(f, Past(f, f[o].deps))
-----------------------------------------------------------------------------
(***************************************************************************)
(* AuthState.  A result is the state left behind and whether it was Ok.    *)
(***************************************************************************)
Empty == [crdt |-> {}, ops |-> <<>>, pending |-> <<>>]

process_first(f, st, o) ==
  IF Accepts(f, st.crdt, o)
  THEN [ok |-> TRUE, st |-> [st EXCEPT !.crdt = @ \cup {o}, !.ops = <<o>> \o @]]
  ELSE [ok |-> FALSE, st |-> [st EXCEPT !.crdt = {}]]

\* AuthState::process has taken the CRDT out before it knows of an error.
process(f, st, o) ==
  IF Accepts(f, st.crdt, o)
  THEN [ok |-> TRUE, st |-> [st EXCEPT !.crdt = @ \cup {o}, !.ops = Append(@, o)]]
  ELSE [ok |-> FALSE, st |-> [st EXCEPT !.crdt = {}]]

\* One round of the loop in drain_pending, and the loop.
DrainOne(f, r) ==
  LET ready == {i \in 1..Len(r.st.pending) : f[r.st.pending[i]].deps \subseteq Set(r.st.ops)}
      first == CHOOSE i \in ready : \A j \in ready : i <= j
  IN IF ~r.ok \/ ready = {} THEN r
     ELSE process(f, [r.st EXCEPT !.pending = RemoveAt(@, first)], r.st.pending[first])

drain_pending(f, r) ==
  LET rounds[n \in 0..Len(r.st.pending)] ==
        IF n = 0 THEN r ELSE DrainOne(f, rounds[n - 1])
  IN rounds[Len(r.st.pending)]

\* apply_remote: FALSE in `new` stands for Ok(false), known already or pending.
apply_remote(f, st, o) ==
  IF o \in Set(st.ops) \cup Set(st.pending) THEN [ok |-> TRUE, new |-> FALSE, st |-> st]
  ELSE IF ~(f[o].deps \subseteq Set(st.ops))
  THEN [ok |-> TRUE, new |-> FALSE, st |-> [st EXCEPT !.pending = Append(@, o)]]
  ELSE LET r == drain_pending(f, process(f, st, o)) IN [ok |-> r.ok, new |-> r.ok, st |-> r.st]

\* load: the first error ends the replay.
Replay(f, ops) ==
  LET after[n \in 0..Len(ops)] ==
        IF n = 0 THEN [ok |-> TRUE, new |-> FALSE, st |-> Empty]
        ELSE LET acc == after[n - 1] IN
             IF acc.ok THEN apply_remote(f, acc.st, ops[n]) ELSE acc
  IN after[Len(ops)]

Loads(f, ops) == Replay(f, ops).ok /\ Replay(f, ops).st.pending = <<>>

ApplyAll_stops(f, st, ops) ==
  LET r == apply_remote(f, st, ops[1]) IN
  [new |-> r.new, st |-> IF r.new THEN Replay(f, ops).st ELSE st]

\* apply_auth_ops goes on after an error; `new`: has anything been applied?
ApplyAll(f, st, ops) ==
  LET after[n \in 0..Len(ops)] ==
        IF n = 0 THEN [new |-> FALSE, st |-> st]
        ELSE LET acc == after[n - 1]
                 r == apply_remote(f, acc.st, ops[n])
             IN [new |-> acc.new \/ r.new, st |-> r.st]
  IN after[Len(ops)]

Init ==
  /\ forge = <<[author |-> Creator, deps |-> {}, kind |-> "Create", member |-> Creator]>>
  /\ up = [p \in Peers |-> p = Creator]
  /\ state = [p \in Peers |->
       IF p = Creator THEN [crdt |-> {1}, ops |-> <<1>>, pending |-> <<>>] ELSE Empty]
  /\ log = [p \in Peers |-> IF p = Creator THEN <<1>> ELSE <<>>]
  /\ snapshots = {}
  /\ tickets = {}
  /\ crashes = 0
-----------------------------------------------------------------------------
\* add_member and remove_member by p on top of st; the heads become the deps.
Signed(st, p, kind, m) ==
  [author |-> p, deps |-> Heads(forge, st.crdt), kind |-> kind, member |-> m]

\* The checks of handle_invite and handle_revoke, and the bound.
MayAuthor(st, p, kind, m) ==
  /\ p \in Askers
  /\ st.ops # <<>>
  /\ (kind = "Remove") = (m \in MembersOf(forge, st.crdt))
  /\ m \notin {p, Creator} /\ (kind = "Remove" => m \notin CoOwners)

\* author: sign, process.  The operation, all that is signed then, the result.
author(st, p, kind, m) ==
  LET content == Signed(st, p, kind, m)
      old == {i \in 1..Len(forge) : forge[i] = content}
      o == IF old = {} THEN Len(forge) + 1 ELSE CHOOSE i \in old : TRUE
      signed == IF old = {} THEN Append(forge, content) ELSE forge
  IN [op |-> o, forge |-> signed, result |-> process(signed, st, o)]

Saved_appends(p, kind, m, ops) ==
  /\ log' = [log EXCEPT ![p] = @ \o ops]
  /\ tickets' = IF kind = "Add" THEN tickets \cup {[invitee |-> m, auth_log |-> ops]} ELSE tickets

\* save, and for an invitation the ticket with the log.
Saved(p, kind, m, ops) ==
  /\ log' = [log EXCEPT ![p] = ops]
  /\ tickets' = IF kind = "Add" THEN tickets \cup {[invitee |-> m, auth_log |-> ops]} ELSE tickets

\* handle_invite and handle_revoke.
Command(p, kind, m) ==
  LET a == author(state[p], p, kind, m) IN
  /\ up[p]
  /\ MayAuthor(state[p], p, kind, m) /\ a.op <= MaxOps
  /\ forge' = a.forge
  /\ state' = [state EXCEPT ![p] = a.result.st]
  /\ IF a.result.ok THEN Saved(p, kind, m, a.result.st.ops) ELSE UNCHANGED <<log, tickets>>
  /\ UNCHANGED <<up, snapshots, crashes>>

\* cmd_share_invite_direct and cmd_share_revoke_direct replay and rewrite
\* auth.log, and leave the running task alone.
DirectCommand(p, kind, m) ==
  LET st == Replay(forge, log[p]).st
      a == author(st, p, kind, m)
  IN
  /\ up[p] \in DirectWhen
  /\ Loads(forge, log[p])
  /\ MayAuthor(st, p, kind, m) /\ a.op <= MaxOps
  /\ forge' = a.forge
  /\ IF a.result.ok THEN Saved(p, kind, m, a.result.st.ops) ELSE UNCHANGED <<log, tickets>>
  /\ UNCHANGED <<up, state, snapshots, crashes>>

\* share_join: the ticket's log must list us; then spawn_share_task loads it.
Join(p) ==
  \E t \in tickets :
    LET st == Replay(forge, t.auth_log).st IN
    /\ log[p] = <<>> /\ t.invitee = p
    /\ Replay(forge, t.auth_log).ok /\ p \in MembersOf(forge, st.crdt)
    /\ log' = [log EXCEPT ![p] = st.ops]
    /\ state' = [state EXCEPT ![p] = Replay(forge, st.ops).st]
    /\ up' = [up EXCEPT ![p] = TRUE]
    /\ UNCHANGED <<forge, snapshots, tickets, crashes>>

\* publish_auth_ops, on a tick; leech_loop has none.
Publish(p) ==
  /\ up[p] /\ p \notin Leeches
  /\ snapshots' = snapshots \cup {state[p].ops}
  /\ UNCHANGED <<forge, up, state, log, tickets, crashes>>

ApplyAuthOps_unsaved(p, ops) ==
  /\ up[p]
  /\ state' = [state EXCEPT ![p] = ApplyAll(forge, @, ops).st]
  /\ UNCHANGED <<forge, up, log, snapshots, tickets, crashes>>

ApplyAuthOps_replaces(p, ops) ==
  LET r == Replay(forge, ops) IN
  /\ up[p]
  /\ state' = [state EXCEPT ![p] = r.st]
  /\ log' = [log EXCEPT ![p] = r.st.ops]
  /\ UNCHANGED <<forge, up, snapshots, tickets, crashes>>

\* apply_auth_ops: saves when something was applied.
ApplyAuthOps(p, ops) ==
  LET r == ApplyAll(forge, state[p], ops) IN
  /\ up[p]
  /\ state' = [state EXCEPT ![p] = r.st]
  /\ log' = [log EXCEPT ![p] = IF r.new THEN r.st.ops ELSE @]
  /\ UNCHANGED <<forge, up, snapshots, tickets, crashes>>

Crash(p) ==
  /\ up[p] /\ crashes < MaxCrashes
  /\ crashes' = crashes + 1
  /\ up' = [up EXCEPT ![p] = FALSE]
  /\ state' = [state EXCEPT ![p] = Empty]
  /\ UNCHANGED <<forge, log, snapshots, tickets>>

\* spawn_share_task; a log that does not load leaves the share out.
Start(p) ==
  /\ ~up[p] /\ log[p] # <<>>
  /\ Loads(forge, log[p])
  /\ up' = [up EXCEPT ![p] = TRUE]
  /\ state' = [state EXCEPT ![p] = Replay(forge, log[p]).st]
  /\ UNCHANGED <<forge, log, snapshots, tickets, crashes>>

Next ==
  \E p \in Peers :
    \/ \E kind \in {"Add", "Remove"}, m \in Peers : Command(p, kind, m) \/ DirectCommand(p, kind, m)
    \/ Join(p)
    \/ Publish(p)
    \/ \E ops \in snapshots : ApplyAuthOps(p, ops)
    \/ Crash(p)
    \/ Start(p)

Spec == Init /\ [][Next]_vars
-----------------------------------------------------------------------------
(***************************************************************************)
(* Fairness: a daemon is started again, publishes on every tick, and a     *)
(* peer that keeps listening hears one of the ticks of each other peer.    *)
(***************************************************************************)
CanStart(p) == ~up[p] /\ log[p] # <<>> /\ Loads(forge, log[p])

HasNews(p, q) ==
  /\ up[p] /\ state[q].ops \in snapshots
  /\ ApplyAll(forge, state[p], state[q].ops).st # state[p]

HearFrom(p, q) == HasNews(p, q) /\ ApplyAuthOps(p, state[q].ops)

\* Weak fairness with ENABLED spelled out: computing it by search is slow.
Fairness ==
  /\ \A p \in Peers :
       /\ WF_vars(Publish(p))
       /\ []<>~CanStart(p) \/ []<><<Start(p)>>_vars
  /\ \A p, q \in Peers :
       []<>~HasNews(p, q) \/ []<><<HearFrom(p, q)>>_vars

FairSpec == Spec /\ Fairness
-----------------------------------------------------------------------------
(* auth.log can always be replayed: each operation comes after the ones it *)
(* depends on and is accepted again, so that `load` does not take the log  *)
(* for corrupt and lock the share out ("log is corrupt").                  *)
LogsLoad ==
  \A p \in Peers : Loads(forge, log[p]) /\ Replay(forge, log[p]).st.ops = log[p]

(* The task's members are those of its log ("Mirrors auth.log on disk",    *)
(* "Reads the local replay of the share's auth log"): no operation has     *)
(* been lost from the CRDT, and none is left waiting for another.          *)
MembersFollowLog ==
  \A p \in Peers : up[p] => state[p] = Replay(forge, log[p]).st

(* All running peers end up with the same operations, and the same         *)
(* members, whatever order they heard them in.                             *)
LogsConverge ==
  <>[](\A p, q \in Peers : up[p] /\ up[q] =>
         /\ Set(state[p].ops) = Set(state[q].ops)
         /\ MembersOf(forge, state[p].crdt) = MembersOf(forge, state[q].crdt))

(* The log keeps what AuthSets promises: sets that only grow, by one new   *)
(* operation or by a whole snapshot.                                       *)
Sets == INSTANCE AuthSets WITH
  Ops <- OpIds,
  known <- [p \in Peers |-> Set(log[p])],
  published <- {Set(s) : s \in snapshots} \cup {Set(t.auth_log) : t \in tickets}

ImplementsAuthSets == Sets!Spec
=============================================================================

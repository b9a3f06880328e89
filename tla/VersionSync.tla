---------------------------- MODULE VersionSync ----------------------------
(***************************************************************************)
(* The version protocol of a Sync share (sync_loop in src/daemon.rs) with  *)
(* the folder contents, the ciphertext shadow and BitTorrent abstracted    *)
(* away: a local change is a new version hash, and a fetch that succeeds   *)
(* is one step.  Gossip may delay, reorder, duplicate or lose an announce: *)
(* a peer may take any announce ever published, any number of times.       *)
(***************************************************************************)
EXTENDS ShareVersion, FiniteSets

CONSTANTS
  VHashes,      \* version hashes
  Stamps,       \* wall-clock readings
  Synced,       \* every edit is stamped later than the version it edits
  MayWipe,      \* the share root may be emptied while the daemon is down
  PersistMayFail,   \* writing state.json may fail
  MaxVersions,  \* bound on the versions ever created
  MaxCrashes    \* bound on daemon stops

ASSUME VersionAssumption ==
  /\ VHashes \subseteq Nat
  /\ Stamps \subseteq Nat
  /\ Synced \in BOOLEAN
  /\ MayWipe \in BOOLEAN
  /\ PersistMayFail \in BOOLEAN
  /\ MaxVersions \in Nat
  /\ MaxCrashes \in Nat
  /\ NoState \notin Version(Nat, Nat)

VARIABLES
  up,           \* the share task is in its loop
  state,        \* the loop's `state`, lost when the daemon stops
  persisted,    \* shares/<id>/state.json
  announced,    \* every announce published so far
  born,         \* history: every version ever created, by its creator's counter
  crashes       \* number of daemon stops so far

vars == <<up, state, persisted, announced, born, crashes>>

Births == [peer : Peers, n : Nat, vhash : VHashes, ts : Stamps]

TypeOK ==
  /\ up \in [Peers -> BOOLEAN]
  /\ state \in [Peers -> Version(VHashes, Stamps) \cup {NoState}]
  /\ persisted \in [Peers -> Version(VHashes, Stamps) \cup {NoState}]
  /\ announced \subseteq Version(VHashes, Stamps)
  /\ born \subseteq Births
  /\ crashes \in 0..MaxCrashes

Init ==
  /\ up = [p \in Peers |-> FALSE]
  /\ state = [p \in Peers |-> NoState]
  /\ persisted = [p \in Peers |-> NoState]
  /\ announced = {}
  /\ born = {}
  /\ crashes = 0
-----------------------------------------------------------------------------
\* Utc::now() when p creates a version that succeeds `base`.  A peer's own
\* clock advances; another peer's may be behind the one that stamped `base`.
MayStamp(p, base, t) ==
  IF Synced THEN base # NoState => t > base.ts
            ELSE \A e \in born : t # e.ts /\ (e.peer = p => t > e.ts)

\* persist, publish_sync_announce and the assignment of `state`.
Install(p, new) ==
  /\ state' = [state EXCEPT ![p] = new]
  /\ announced' = announced \cup {new}

Birth(p, new) == [peer |-> p, n |-> new.clock[p], vhash |-> new.vhash, ts |-> new.ts]

NewVersion_unpersisted(p, base, v, t) ==
  LET new == Edited(base, p, v, t) IN
  /\ Cardinality(born) < MaxVersions
  /\ MayStamp(p, base, t)
  /\ base # NoState => v # base.vhash
  /\ Install(p, new)
  /\ born' = born \cup {Birth(p, new)}
  /\ UNCHANGED persisted

\* p turns content v into a version that succeeds `base`.
NewVersion(p, base, v, t) ==
  LET new == Edited(base, p, v, t) IN
  /\ Cardinality(born) < MaxVersions
  /\ MayStamp(p, base, t)
  /\ base # NoState => v # base.vhash
  /\ Install(p, new)
  /\ persisted' = [persisted EXCEPT ![p] = new]
  /\ born' = born \cup {Birth(p, new)}

\* handle_local_change, after the debounce: the content is not the state's.
LocalChange(p, v, t) ==
  /\ up[p]
  /\ NewVersion(p, state[p], v, t)
  /\ UNCHANGED <<up, crashes>>

\* A failed persist is only logged on these two paths.
PersistOrWarn(p, new) ==
  \/ persisted' = [persisted EXCEPT ![p] = new]
  \/ PersistMayFail /\ UNCHANGED persisted

\* Concurrent announce, local side wins: merge the clock, no fetch.
KeepLocal(p, m) ==
  /\ up[p]
  /\ KeepsLocal(state[p], m)
  /\ Install(p, LocalWins(state[p], m))
  /\ PersistOrWarn(p, LocalWins(state[p], m))
  /\ UNCHANGED <<up, born, crashes>>

\* apply_remote_sync succeeded.
ApplyRemote(p, m) ==
  /\ up[p]
  /\ Fetches(state[p], m)
  /\ Install(p, Adopted(state[p], m))
  /\ PersistOrWarn(p, Adopted(state[p], m))
  /\ UNCHANGED <<up, born, crashes>>

\* Any stop of the daemon, before or after the loop has started: shutdown
\* aborts the share task like a crash does.
Crash(p) ==
  /\ crashes < MaxCrashes
  /\ crashes' = crashes + 1
  /\ up' = [up EXCEPT ![p] = FALSE]
  /\ state' = [state EXCEPT ![p] = NoState]
  /\ UNCHANGED <<persisted, announced, born>>

\* reconcile_on_start, root empty: None, whatever state.json says.
StartEmpty(p) ==
  /\ ~up[p]
  /\ persisted[p] # NoState => MayWipe
  /\ up' = [up EXCEPT ![p] = TRUE]
  /\ UNCHANGED <<state, persisted, announced, born, crashes>>

\* reconcile_on_start, content as persisted.
StartResumed(p) ==
  /\ ~up[p]
  /\ persisted[p] # NoState
  /\ up' = [up EXCEPT ![p] = TRUE]
  /\ Install(p, persisted[p])
  /\ UNCHANGED <<persisted, born, crashes>>

\* reconcile_on_start, first run or out-of-band edit.
StartEdited(p, v, t) ==
  /\ ~up[p]
  /\ up' = [up EXCEPT ![p] = TRUE]
  /\ NewVersion(p, persisted[p], v, t)
  /\ UNCHANGED crashes

Next ==
  \E p \in Peers :
    \/ \E v \in VHashes, t \in Stamps : LocalChange(p, v, t)
    \/ \E m \in announced : KeepLocal(p, m)
    \/ \E m \in announced : ApplyRemote(p, m)
    \/ Crash(p)
    \/ StartEmpty(p)
    \/ StartResumed(p)
    \/ \E v \in VHashes, t \in Stamps : StartEdited(p, v, t)

Spec == Init /\ [][Next]_vars
-----------------------------------------------------------------------------
(***************************************************************************)
(* Liveness.  A stopped daemon is restarted, and a peer keeps being told   *)
(* of the others' current versions: every loop republishes its state each  *)
(* ten seconds.  Fetches are assumed to end, which FolderSync examines.    *)
(***************************************************************************)
Start(p) ==
  \/ StartEmpty(p)
  \/ StartResumed(p)
  \/ \E v \in VHashes, t \in Stamps : StartEdited(p, v, t)

HearFrom(p, q) ==
  /\ state[q] # NoState
  /\ KeepLocal(p, state[q]) \/ ApplyRemote(p, state[q])

Fairness ==
  /\ \A p \in Peers : WF_vars(Start(p))
  /\ \A p, q \in Peers : WF_vars(HearFrom(p, q))

FairSpec == Spec /\ Fairness
-----------------------------------------------------------------------------
\* Precedence of last-write-wins between a created version and a held one.
LE(e, s) == e.ts < s.ts \/ (e.ts = s.ts /\ e.vhash <= s.vhash)

(* The clock of a ShareState "Identifies the logical version across peers":*)
(* the loop skips an announce whose clock equals its own, so two announces *)
(* with equal clocks must stand for the same content, for ever.            *)
EqualClocksSameVersion ==
  \A m, n \in announced :
    m.clock = n.clock => m.vhash = n.vhash /\ m.ts = n.ts

(* Last write wins globally: of all the versions a peer's clock accounts   *)
(* for, merged in whatever order the announces came, the peer holds the    *)
(* one with the greatest timestamp (then hash).                            *)
HeldVersionIsLatestKnown ==
  \A p \in Peers : state[p] # NoState =>
    \A e \in born : e.n <= state[p].clock[e.peer] => LE(e, state[p])

(* A counter names one version: a peer never stamps two versions with the  *)
(* same own counter, in spite of stops between persisting and publishing   *)
(* and of merges whose persist failed.                                     *)
CountersNameVersions ==
  \A e, f \in born : e.peer = f.peer /\ e.n = f.n => e = f

(* The inductive strengthening behind the three invariants above.  A clock *)
(* stands for the set of versions it counts; what has been published must  *)
(* be the greatest of them in last-write-wins order, and a peer must never *)
(* lose its own count.                                                     *)
Covered(m) ==
  \A r \in Peers : m.clock[r] > 0 =>
    \E e \in born : e.peer = r /\ e.n = m.clock[r] /\ LE(e, m)

Witnessed(m) ==
  \E e \in born : m.clock[e.peer] = e.n /\ e.ts = m.ts /\ e.vhash = m.vhash

BirthsAdvance ==
  \A e, f \in born : e.peer = f.peer /\ e.n < f.n => e.ts < f.ts

OwnCountKept ==
  \A e \in born :
    /\ e.n > 0
    /\ persisted[e.peer] # NoState
    /\ e.n <= persisted[e.peer].clock[e.peer]
    /\ state[e.peer] # NoState => e.n <= state[e.peer].clock[e.peer]

Published ==
  \A p \in Peers :
    /\ state[p] \in announced \cup {NoState}
    /\ persisted[p] \in announced \cup {NoState}
    /\ ~up[p] => state[p] = NoState
    /\ up[p] /\ state[p] = NoState => persisted[p] = NoState

(* Every published version is the last-write-wins maximum of the versions  *)
(* its clock counts, and no peer ever loses count of its own versions.     *)
IndInv ==
  /\ TypeOK
  /\ Published
  /\ CountersNameVersions
  /\ BirthsAdvance
  /\ OwnCountKept
  /\ \A m \in announced : Covered(m) /\ Witnessed(m)

(* Agreement: once the edits and the stops are over, all the peers hold    *)
(* the same version under the same clock, for good.                        *)
Converges == <>[](\A p, q \in Peers : state[p] = state[q])
=============================================================================

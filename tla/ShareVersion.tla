---------------------------- MODULE ShareVersion ----------------------------
(***************************************************************************)
(* A version of a share as the sync loop of src/daemon.rs sees it: the     *)
(* hash of its content, its vector clock and the wall-clock time it was    *)
(* created at; and the rules by which a peer that holds one version judges *)
(* an announced one.  Version hashes are numbers, ordered the way the code *)
(* orders their hexadecimal text.                                          *)
(***************************************************************************)
EXTENDS VectorClock

CONSTANT NoState        \* Option::None of the loop's state and of state.json

\* Every version was created by some peer, which counted it.
Version(VHashes, Stamps) ==
  [vhash : VHashes, clock : Clocks \ {ZeroClock}, ts : Stamps]

\* current.map(|s| s.clock.clone()).unwrap_or_default()
ClockOf(s) == IF s = NoState THEN ZeroClock ELSE s.clock

lww_always_remote(local_ts, local_vhash, remote_ts, remote_vhash) == FALSE

lww_tie_kept(local_ts, local_vhash, remote_ts, remote_vhash) == local_ts >= remote_ts

\* Last write wins; an equal timestamp falls back on the larger hash.
lww_we_win(local_ts, local_vhash, remote_ts, remote_vhash) ==
  \/ local_ts > remote_ts
  \/ local_ts = remote_ts /\ local_vhash > remote_vhash

WeWin(s, m) == lww_we_win(s.ts, s.vhash, m.ts, m.vhash)

\* What the Announce arm of sync_loop does with announce m.
Ignores(s, m) ==
  s # NoState /\ compare(s.clock, m.clock) \in {"Equal", "SelfDominates"}

KeepsLocal(s, m) ==
  s # NoState /\ compare(s.clock, m.clock) = "Concurrent" /\ WeWin(s, m)

\* Everything else falls through to apply_remote_sync.
Fetches(s, m) == ~Ignores(s, m) /\ ~KeepsLocal(s, m)

\* ShareState { clock, ..local.clone() } after a conflict the local side won.
LocalWins(s, m) == [s EXCEPT !.clock = merge(s.clock, m.clock)]

\* The state apply_remote_sync returns.
Adopted(s, m) ==
  [vhash |-> m.vhash, clock |-> merge(ClockOf(s), m.clock), ts |-> m.ts]

Edited_uncounted(s, p, v, t) == [vhash |-> v, clock |-> ClockOf(s), ts |-> t]

\* The state handle_local_change and reconcile_on_start build for new content.
Edited(s, p, v, t) ==
  [vhash |-> v, clock |-> increment(ClockOf(s), p), ts |-> t]
=============================================================================

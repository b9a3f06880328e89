---------------------------- MODULE KeyRotation ----------------------------
(***************************************************************************)
(* How the content key of a share reaches its members: the keyring of      *)
(* src/crypto.rs, invitations (handle_invite and the ticket), revocation   *)
(* with its rotation (handle_revoke, src/rotation.rs), rotation by hand,   *)
(* and the receive side with the buffer of early rotations                 *)
(* (apply_key_rotation, drain_rotation_buffer, buffer_push).               *)
(*                                                                         *)
(* A key is the number of keys generated before it, plus one.  An auth log *)
(* is its set of Add and Remove operations; a snapshot that is published   *)
(* contains all that its operations depend on, so a receiver ends up with  *)
(* the union.  Bounds on what the operators do: a peer is invited once,    *)
(* and nobody revokes a manager (the CRDT that settles such disputes is    *)
(* not part of this repository).  Signatures and sealed boxes are perfect. *)
(***************************************************************************)
EXTENDS Naturals, Sequences, FiniteSets

CONSTANTS
  Peers,
  Creator,          \* the peer that created the share
  Founders,         \* peers that have joined with the key of epoch 1
  Absent,           \* peers invited at first, whose tickets are lost
  CoOwners,         \* peers that are invited as Owner
  HandRotators,     \* peers whose operators run `share rotate-key`
  BufferCap,        \* ROTATION_BUFFER_CAP
  MaxKeys,          \* bound on keys generated
  MaxCrashes,       \* bound on daemon stops
  MaxErrors         \* bound on error returns of the handlers that rotate

ASSUME RotationAssumption ==
  /\ Creator \in Peers
  /\ Founders \subseteq Peers \ {Creator}
  /\ Absent \subseteq Peers \ {Creator}
  /\ CoOwners \subseteq Peers \ {Creator}
  /\ HandRotators \subseteq Peers
  /\ {BufferCap, MaxKeys, MaxCrashes, MaxErrors} \subseteq Nat
  /\ BufferCap > 0 /\ MaxKeys > 0

VARIABLES
  pc,           \* the share task: not running, in its loop, or inside handle_revoke
  keys,         \* keys.bin; <<>> before joining
  ring,         \* the in-memory KeyRing, which encrypts and goes into tickets
  auth,         \* the operations in auth.log
  pending,      \* pending_rotations/
  buffer,       \* rotation_buffer, at most one rotation per epoch
  tickets,      \* tickets handed out
  sent,         \* rotations published
  snapshots,    \* auth-log snapshots published
  minted,       \* number of keys generated
  crashes,
  errors,
  lockout,      \* history: the newest key a peer may know, since it was revoked
  shut          \* history: whom a handler of p, by returning Ok, has shut out

vars == <<pc, keys, ring, auth, pending, buffer, tickets, sent, snapshots, minted,
          crashes, errors, lockout, shut>>

Keys == 1..MaxKeys
Op == [kind : {"Add", "Remove"}, member : Peers]
Rotation == [epoch : Keys, rotator : Peers, key : Keys, to : SUBSET Peers]
Ticket == [invitee : Peers, keys : Seq(Keys), auth_log : SUBSET Op]

TypeOK ==
  /\ pc \in [Peers -> {"down", "idle", "removed", "rotated"}]
  /\ keys \in [Peers -> Seq(Keys)]
  /\ ring \in [Peers -> Seq(Keys)]
  /\ auth \in [Peers -> SUBSET Op]
  /\ pending \in [Peers -> SUBSET Rotation]
  /\ buffer \in [Peers -> SUBSET Rotation]
  /\ tickets \subseteq Ticket
  /\ sent \subseteq Rotation
  /\ snapshots \subseteq SUBSET Op
  /\ minted \in Keys
  /\ crashes \in 0..MaxCrashes
  /\ errors \in 0..MaxErrors
  /\ lockout \in [Peers -> 0..MaxKeys]
  /\ shut \in [Peers -> SUBSET Peers]

Add(m) == [kind |-> "Add", member |-> m]
Remove(m) == [kind |-> "Remove", member |-> m]

Removed(log) == {m \in Peers : Remove(m) \in log}

\* AuthState::members over the group of the share.
Members(log) ==
  {m \in Peers : m = Creator \/ Add(m) \in log} \ Removed(log)

Owners(log) == Members(log) \cap (CoOwners \cup {Creator})

\* The creator's share exists, with the key of epoch 1.
Init ==
  LET in == {Creator} \cup Founders IN
  /\ pc = [p \in Peers |-> IF p \in in THEN "idle" ELSE "down"]
  /\ keys = [p \in Peers |-> IF p \in in THEN <<1>> ELSE <<>>]
  /\ ring = keys
  /\ auth = [p \in Peers |-> IF p \in in THEN {Add(m) : m \in Founders \cup Absent} ELSE {}]
  /\ pending = [p \in Peers |-> {}]
  /\ buffer = [p \in Peers |-> {}]
  /\ tickets = {}
  /\ sent = {}
  /\ snapshots = {}
  /\ minted = 1
  /\ crashes = 0
  /\ errors = 0
  /\ lockout = [p \in Peers |-> MaxKeys]
  /\ shut = [p \in Peers |-> {}]
-----------------------------------------------------------------------------
\* handle_invite: the ticket carries the keys in memory and the log with the Add.
Invite(p, m) ==
  LET log == auth[p] \cup {Add(m)} IN
  /\ pc[p] = "idle"
  /\ p \in Owners(auth[p])
  /\ m # Creator /\ Add(m) \notin auth[p]
  /\ auth' = [auth EXCEPT ![p] = log]
  /\ tickets' = tickets \cup {[invitee |-> m, keys |-> ring[p], auth_log |-> log]}
  /\ UNCHANGED <<pc, keys, ring, pending, buffer, sent, snapshots, minted, crashes, errors, lockout, shut>>

\* share_join: install_keyring refuses to overwrite keys.bin.
Join(p) ==
  /\ keys[p] = <<>>
  /\ \E t \in tickets :
       /\ t.invitee = p
       /\ keys' = [keys EXCEPT ![p] = t.keys]
       /\ ring' = [ring EXCEPT ![p] = t.keys]
       /\ auth' = [auth EXCEPT ![p] = t.auth_log]
  /\ pc' = [pc EXCEPT ![p] = "idle"]
  /\ UNCHANGED <<pending, buffer, tickets, sent, snapshots, minted, crashes, errors, lockout, shut>>

\* rotate_keyring: a fresh key on top of keys.bin.
rotate_keyring(p) ==
  /\ minted < MaxKeys
  /\ minted' = minted + 1
  /\ keys' = [keys EXCEPT ![p] = Append(@, minted + 1)]

\* The file is read back into the KeyRing that the loop shares.
reload_keyring(p) == ring' = [ring EXCEPT ![p] = keys'[p]]

\* An error return takes the share task back to its loop.
Error(p) ==
  /\ errors < MaxErrors
  /\ errors' = errors + 1
  /\ pc' = [pc EXCEPT ![p] = "idle"]

\* Ok from handle_revoke or handle_rotate_key: nobody that p has removed is
\* supposed to read what p encrypts from now on.
ShutOut(p) == shut' = [shut EXCEPT ![p] = @ \cup Removed(auth[p])]

\* handle_rotate_key asks for no role and tells nobody.
RotateKey(p) ==
  /\ p \in HandRotators
  /\ pc[p] = "idle"
  /\ rotate_keyring(p)
  /\ reload_keyring(p)
  /\ ShutOut(p)
  /\ UNCHANGED <<pc, auth, pending, buffer, tickets, sent, snapshots, crashes, errors, lockout>>

\* Its error return when keys.bin is written and cannot be read back.
RotateKeyFails(p) ==
  /\ p \in HandRotators
  /\ pc[p] = "idle"
  /\ rotate_keyring(p)
  /\ Error(p)
  /\ UNCHANGED <<ring, auth, pending, buffer, tickets, sent, snapshots, crashes, lockout, shut>>

(* handle_revoke writes auth.log, then keys.bin, then pending_rotations/:  *)
(* the daemon may stop after each.                                         *)
RevokeRemove(p, m) ==
  /\ pc[p] = "idle"
  /\ p \in Owners(auth[p])
  /\ m \in Members(auth[p]) \ (CoOwners \cup {Creator})
  /\ minted < MaxKeys
  /\ auth' = [auth EXCEPT ![p] = @ \cup {Remove(m)}]
  /\ pc' = [pc EXCEPT ![p] = "removed"]
  /\ lockout' = [lockout EXCEPT ![m] = IF minted < @ THEN minted ELSE @]
  /\ UNCHANGED <<keys, ring, pending, buffer, tickets, sent, snapshots, minted, crashes, errors, shut>>

RevokeRotate_no_reload(p) ==
  /\ pc[p] = "removed"
  /\ rotate_keyring(p)
  /\ pc' = [pc EXCEPT ![p] = "rotated"]
  /\ UNCHANGED <<ring, auth, pending, buffer, tickets, sent, snapshots, crashes, errors, lockout, shut>>

RevokeRotate(p) ==
  /\ pc[p] = "removed"
  /\ rotate_keyring(p)
  /\ reload_keyring(p)
  /\ pc' = [pc EXCEPT ![p] = "rotated"]
  /\ UNCHANGED <<auth, pending, buffer, tickets, sent, snapshots, crashes, errors, lockout, shut>>

(* The error returns before the new key is in memory: rotate_keyring       *)
(* failed, or it wrote keys.bin and reading it back failed.  The member is *)
(* removed all the same, so a second `share revoke` finds nobody to revoke.*)
RevokeRotateFails(p) ==
  /\ pc[p] = "removed"
  /\ rotate_keyring(p) \/ UNCHANGED <<keys, minted>>
  /\ Error(p)
  /\ UNCHANGED <<ring, auth, pending, buffer, tickets, sent, snapshots, crashes, lockout, shut>>

NewRotation_next_epoch(p) ==
  [epoch |-> Len(keys[p]) + 1, rotator |-> p, key |-> keys[p][Len(keys[p])],
   to |-> Members(auth[p])]

NewRotation_to_all(p) ==
  [epoch |-> Len(keys[p]), rotator |-> p, key |-> keys[p][Len(keys[p])],
   to |-> {m \in Peers : Add(m) \in auth[p]}]

\* build_signed_rotation: one envelope per remaining member.
NewRotation(p) ==
  [epoch |-> Len(keys[p]), rotator |-> p, key |-> keys[p][Len(keys[p])],
   to |-> Members(auth[p])]

RevokeQueue(p) ==
  /\ pc[p] = "rotated"
  /\ pending' = [pending EXCEPT ![p] = @ \cup {NewRotation(p)}]
  /\ pc' = [pc EXCEPT ![p] = "idle"]
  /\ ShutOut(p)
  /\ UNCHANGED <<keys, ring, auth, buffer, tickets, sent, snapshots, minted, crashes, errors, lockout>>

(* The error returns of build_signed_rotation, for a member id that is no  *)
(* curve point, and of save_pending: the new key is in use, nobody is told.*)
RevokeQueueFails(p) ==
  /\ pc[p] = "rotated"
  /\ Error(p)
  /\ UNCHANGED <<keys, ring, auth, pending, buffer, tickets, sent, snapshots, minted, crashes, lockout, shut>>
-----------------------------------------------------------------------------
Tick_once(p) ==
  /\ pc[p] = "idle"
  /\ snapshots' = snapshots \cup {auth[p]}
  /\ sent' = sent \cup pending[p]
  /\ pending' = [pending EXCEPT ![p] = {}]
  /\ UNCHANGED <<pc, keys, ring, auth, buffer, tickets, minted, crashes, errors, lockout, shut>>

\* The tick: publish_auth_ops and publish_pending_rotations.
Tick(p) ==
  /\ pc[p] = "idle"
  /\ snapshots' = snapshots \cup {auth[p]}
  /\ sent' = sent \cup pending[p]
  /\ UNCHANGED <<pc, keys, ring, auth, pending, buffer, tickets, minted, crashes, errors, lockout, shut>>

\* apply_auth_ops with AuthState::apply_remote.
ApplyAuthOps(p, ops) ==
  /\ pc[p] = "idle"
  /\ auth' = [auth EXCEPT ![p] = @ \cup ops]
  /\ UNCHANGED <<pc, keys, ring, pending, buffer, tickets, sent, snapshots, minted, crashes, errors, lockout, shut>>

\* verify_and_decrypt yields OkForUs.
OkForUs(p, r) == r.rotator \in Owners(auth[p]) /\ p \in r.to

\* Epochs that drain_rotation_buffer installs on top of ring k: those that
\* the buffer continues without a gap.
Ready(k, buf) ==
  LET has == {r.epoch : r \in buf} IN
  {e \in has : e > Len(k) /\ \A i \in (Len(k) + 1)..e : i \in has}

Drained(k, buf) ==
  [e \in DOMAIN k \cup Ready(k, buf) |->
     IF e \in DOMAIN k THEN k[e] ELSE (CHOOSE r \in buf : r.epoch = e).key]

\* What is left in the buffer is still ahead of the ring by a gap.
Gapped(k, buf) == {r \in buf : r.epoch > Len(k) /\ r.epoch \notin Ready(k, buf)}

Install_any_epoch(p, r) ==
  LET k == Append(keys[p], r.key) IN
  /\ r.epoch > Len(keys[p])
  /\ keys' = [keys EXCEPT ![p] = Drained(k, buffer[p])]
  /\ reload_keyring(p)
  /\ buffer' = [buffer EXCEPT ![p] = Gapped(k, @)]

\* InstallOutcome::Installed, and the drain that follows it.
Install(p, r) ==
  LET k == Append(keys[p], r.key) IN
  /\ r.epoch = Len(keys[p]) + 1
  /\ keys' = [keys EXCEPT ![p] = Drained(k, buffer[p])]
  /\ reload_keyring(p)
  /\ buffer' = [buffer EXCEPT ![p] = Gapped(k, @)]

\* buffer_push drops the lowest epoch when the buffer is full.
buffer_push(buf, r) ==
  IF r.epoch \in {s.epoch : s \in buf} THEN buf
  ELSE IF Cardinality(buf) < BufferCap THEN buf \cup {r}
  ELSE {s \in buf : \E l \in buf : l.epoch < s.epoch} \cup {r}

Buffer(p, r) ==
  /\ r.epoch > Len(keys[p]) + 1
  /\ buffer' = [buffer EXCEPT ![p] = buffer_push(@, r)]
  /\ UNCHANGED <<keys, ring>>

\* apply_key_rotation.  Every other outcome changes nothing: bad rotator, no
\* envelope for us, an old epoch, or the current one with whatever key.
ApplyKeyRotation(p, r) ==
  /\ pc[p] = "idle"
  /\ p # r.rotator
  /\ OkForUs(p, r)
  /\ Install(p, r) \/ Buffer(p, r)
  /\ UNCHANGED <<pc, auth, pending, tickets, sent, snapshots, minted, crashes, errors, lockout, shut>>

\* A stop loses what is in memory, and what handle_revoke had not written yet.
Crash(p) ==
  /\ pc[p] # "down"
  /\ crashes < MaxCrashes
  /\ crashes' = crashes + 1
  /\ pc' = [pc EXCEPT ![p] = "down"]
  /\ ring' = [ring EXCEPT ![p] = <<>>]
  /\ buffer' = [buffer EXCEPT ![p] = {}]
  /\ UNCHANGED <<keys, auth, pending, tickets, sent, snapshots, minted, errors, lockout, shut>>

\* spawn_share_task loads keys.bin, auth.log and pending_rotations/.
Start(p) ==
  /\ pc[p] = "down" /\ keys[p] # <<>>
  /\ pc' = [pc EXCEPT ![p] = "idle"]
  /\ ring' = [ring EXCEPT ![p] = keys[p]]
  /\ UNCHANGED <<keys, auth, pending, buffer, tickets, sent, snapshots, minted, crashes, errors, lockout, shut>>

Next ==
  \E p \in Peers :
    \/ \E m \in Peers : Invite(p, m)
    \/ Join(p)
    \/ RotateKey(p)
    \/ RotateKeyFails(p)
    \/ \E m \in Peers : RevokeRemove(p, m)
    \/ RevokeRotate(p)
    \/ RevokeRotateFails(p)
    \/ RevokeQueue(p)
    \/ RevokeQueueFails(p)
    \/ Tick(p)
    \/ \E ops \in snapshots : ApplyAuthOps(p, ops)
    \/ \E r \in sent : ApplyKeyRotation(p, r)
    \/ Crash(p)
    \/ Start(p)

Spec == Init /\ [][Next]_vars
-----------------------------------------------------------------------------
(***************************************************************************)
(* Fairness: a stopped daemon is started again, a handler that has begun   *)
(* ends, and since every tick publishes all pending rotations again, each  *)
(* of them is heard by a peer that keeps listening.                        *)
(***************************************************************************)
HearRotation(p, q, e) ==
  \E r \in pending[q] \cap sent : r.epoch = e /\ ApplyKeyRotation(p, r)

Fairness ==
  /\ \A p \in Peers :
       WF_vars(Start(p)) /\ WF_vars(RevokeRotate(p)) /\ WF_vars(RevokeQueue(p)) /\ WF_vars(Tick(p))
  /\ \A p, q \in Peers, e \in Keys : WF_vars(HearRotation(p, q, e))

FairSpec == Spec /\ Fairness
-----------------------------------------------------------------------------
(* "The epoch tells the receiver which key to use": an epoch number means  *)
(* the same key in every keyring, however rotations were delayed, lost,    *)
(* reordered or buffered, and whoever joined with an older ticket.         *)
KeyringsAgree ==
  \A p, q \in Peers, e \in Keys :
    e <= Len(keys[p]) /\ e <= Len(keys[q]) => keys[p][e] = keys[q][e]

(* After a peer is revoked, it never learns a key that is generated later: *)
(* neither by an envelope, nor from the buffer, nor by joining late with   *)
(* the ticket it still has.                                                *)
RevokedGetNoNewKeys ==
  \A m \in Peers : \A i \in 1..Len(keys[m]) : keys[m][i] <= lockout[m]

(* The inductive strengthening of the two invariants above for a share     *)
(* with one owner: the creator generates all the keys, so the key of epoch *)
(* e is the e-th key ever generated wherever it is (on disk, in memory, in *)
(* a ticket, on the wire, in a buffer), and none that a revoked peer could *)
(* still open is newer than its lockout.                                   *)
OnTheWay(p) == sent \cup pending[p] \cup buffer[p]

Numbered(k) == Len(k) <= minted /\ \A e \in 1..Len(k) : k[e] = e

Genuine(r) == r.rotator = Creator /\ r.key = r.epoch /\ r.key <= minted

OneSource ==
  /\ Len(keys[Creator]) = minted
  /\ \A p \in Peers : Numbered(keys[p]) /\ Numbered(ring[p])
  /\ \A t \in tickets : Numbered(t.keys)
  /\ \A p \in Peers : \A r \in OnTheWay(p) : Genuine(r)
  /\ \A p \in Peers : pc[p] \in {"removed", "rotated"} => p = Creator

Lockouts ==
  /\ lockout[Creator] = MaxKeys
  /\ \A m \in Peers : lockout[m] < MaxKeys => {Add(m), Remove(m)} \subseteq auth[Creator]
  /\ \A p \in Peers : \A r \in OnTheWay(p) : \A m \in r.to : r.key <= lockout[m]
  /\ \A p \in Peers : \A r \in buffer[p] : p \in r.to
  /\ \A t \in tickets : Len(t.keys) <= lockout[t.invitee]
  /\ \A m \in Peers : Len(keys[m]) <= lockout[m]

(* One owner, one source of keys, and nothing newer than its lockout on    *)
(* its way to a revoked peer.                                              *)
KeyInv == TypeOK /\ OneSource /\ Lockouts

(* A revocation that returned Ok takes effect, and so does every earlier   *)
(* one that had failed halfway: whatever was stopped or failed since, the  *)
(* owner never again encrypts under a key that the removed peer holds,     *)
(* wherever that peer was with its ticket or its rotations at the time.    *)
RevocationRotates ==
  \A p \in Peers : ring[p] # <<>> =>
    \A m \in shut[p] : \A i \in 1..Len(keys[m]) : keys[m][i] # ring[p][Len(ring[p])]

(* A member that was away, heard the rotations in the wrong order, lost    *)
(* its buffer or had to drop rotations from it still ends up with the      *)
(* owner's keyring, unless it stands before an epoch whose rotation was    *)
(* never queued for anyone (by hand, or in a handler that was cut short).  *)
Untold(e) == \A r \in sent \cup pending[Creator] : r.epoch # e

KeysReachMembers ==
  <>[](\A p \in Members(auth[Creator]) :
         keys[p] # <<>> => keys[p] = keys[Creator] \/ Untold(Len(keys[p]) + 1))
=============================================================================

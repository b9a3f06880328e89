------------------------- MODULE KeyRotationProofs -------------------------
(***************************************************************************)
(* Proofs about KeyRotation, for every set of members, buffer capacity and *)
(* number of stops: types for any number of owners; with one owner, whose  *)
(* keys are then the only ones, keyrings agree and a revocation locks the  *)
(* peer out.                                                               *)
(***************************************************************************)
EXTENDS KeyRotation, FoldProofs, SequenceTheorems

(* What drain_rotation_buffer installs continues the ring without a gap.   *)
LEMMA ReadyIsInterval ==
  ASSUME NEW k \in Seq(Keys), NEW buf \in SUBSET Rotation
  PROVE  \E n \in Nat : n >= Len(k) /\ Ready(k, buf) = (Len(k) + 1)..n
<1> DEFINE has == {r.epoch : r \in buf}
           T == {n \in Nat : n >= Len(k) /\ n + 1 \notin has}
<1>0. Len(k) \in Nat /\ MaxKeys \in Nat
  BY RotationAssumption
<1>1. \A e \in has : e \in Nat /\ e <= MaxKeys
  BY <1>0 DEF Rotation, Keys
<1>2. Ready(k, buf) = {e \in has : e > Len(k) /\ \A i \in (Len(k) + 1)..e : i \in has}
  BY DEF Ready
<1> HIDE DEF has
<1>3. Len(k) + MaxKeys \in T
  BY <1>0, <1>1
<1>4. PICK n \in T : \A m \in T : n <= m
  <2>1. T \in SUBSET Nat /\ T # {}
    BY <1>3
  <2> HIDE DEF T
  <2> QED BY <2>1, LeastPosition
<1>5. n \in Nat /\ n >= Len(k) /\ n + 1 \notin has
  BY <1>4
<1>6. ASSUME NEW e \in (Len(k) + 1)..n PROVE e \in has
  <2>1. e - 1 \in Nat /\ e - 1 >= Len(k) /\ ~(n <= e - 1) /\ (e - 1) + 1 = e
    BY <1>0, <1>5
  <2> QED BY <1>4, <2>1
<1>7. ASSUME NEW e \in Ready(k, buf) PROVE e \in (Len(k) + 1)..n
  BY <1>0, <1>1, <1>2, <1>5
<1>8. ASSUME NEW e \in (Len(k) + 1)..n PROVE e \in Ready(k, buf)
  BY <1>0, <1>1, <1>2, <1>5, <1>6
<1>9. Ready(k, buf) = (Len(k) + 1)..n
  BY <1>7, <1>8
<1> QED BY <1>5, <1>9

(* Draining keeps a ring in which the key of epoch e is key number e, and  *)
(* brings in no key beyond any bound that the ring and the buffer respect. *)
LEMMA DrainedRing ==
  ASSUME NEW k \in Seq(Keys), NEW buf \in SUBSET Rotation, NEW b \in Nat,
         Len(k) <= b, \A e \in 1..Len(k) : k[e] = e,
         \A r \in buf : r.key = r.epoch /\ r.key <= b
  PROVE  /\ Drained(k, buf) \in Seq(Keys)
         /\ Len(Drained(k, buf)) <= b
         /\ \A e \in 1..Len(Drained(k, buf)) : Drained(k, buf)[e] = e
<1>1. PICK n \in Nat : n >= Len(k) /\ Ready(k, buf) = (Len(k) + 1)..n
  BY ReadyIsInterval
<1>2. DOMAIN k = 1..Len(k) /\ Len(k) \in Nat
  OBVIOUS
<1>3. DOMAIN k \cup Ready(k, buf) = 1..n
  BY <1>1, <1>2
<1>4. ASSUME NEW e \in Ready(k, buf)
      PROVE  (CHOOSE r \in buf : r.epoch = e).key = e /\ e \in Keys /\ e <= b
  <2>1. PICK r \in buf : r.epoch = e
    BY DEF Ready
  <2>2. \A s \in buf : s.epoch = e => s.key = e /\ s.key \in Keys /\ s.key <= b
    BY DEF Rotation
  <2> QED BY <2>1, <2>2
<1>5. \A e \in 1..n : e \in Keys /\ e <= b
  <2>1. \A e \in DOMAIN k : k[e] \in Keys
    BY <1>2
  <2> QED BY <1>1, <1>2, <1>3, <1>4, <2>1
<1>6. Drained(k, buf) = [e \in 1..n |-> e]
  <2> DEFINE val(e) == IF e \in DOMAIN k THEN k[e] ELSE (CHOOSE r \in buf : r.epoch = e).key
  <2>1. ASSUME NEW e \in 1..n PROVE val(e) = e
    <3>1. CASE e \in DOMAIN k
      BY <1>2, <3>1
    <3>2. CASE e \notin DOMAIN k
      BY <1>3, <1>4, <3>2
    <3> QED BY <3>1, <3>2
  <2>2. Drained(k, buf) = [e \in 1..n |-> val(e)]
    BY <1>3, Zenon DEF Drained
  <2> HIDE DEF val
  <2> QED BY <2>1, <2>2
<1>7. [e \in 1..n |-> e] \in [1..n -> Keys]
  BY <1>5
<1>8. Drained(k, buf) \in Seq(Keys) /\ Len(Drained(k, buf)) = n
  BY <1>6, <1>7, SeqDef
<1>9. n <= b
  BY <1>1, <1>5
<1> QED BY <1>6, <1>8, <1>9

-----------------------------------------------------------------------------
\* Nobody but the creator manages the share or rotates by hand.
OneOwner == CoOwners = {} /\ HandRotators \subseteq {Creator}

LEMMA OwnerIsCreator ==
  ASSUME OneOwner, NEW log
  PROVE  Owners(log) \subseteq {Creator}
BY DEF OneOwner, Owners

LEMMA OnTheWayType ==
  ASSUME TypeOK, NEW p \in Peers
  PROVE  OnTheWay(p) \subseteq Rotation
BY DEF TypeOK, OnTheWay

LEMMA KeyInvInit ==
  ASSUME Init
  PROVE  KeyInv
<1>1. 1 \in Keys /\ MaxKeys \in Nat /\ MaxKeys >= 1
  BY RotationAssumption DEF Keys
<1>2. <<1>> \in Seq(Keys) /\ <<>> \in Seq(Keys) /\ Len(<<1>>) = 1 /\ Len(<<>>) = 0 /\ <<1>>[1] = 1
  BY <1>1
<1>3. TypeOK
  BY <1>1, <1>2, RotationAssumption DEF Init, TypeOK, Op, Add
<1>4. \A p \in Peers : OnTheWay(p) = {}
  BY DEF Init, OnTheWay
<1>5. OneSource
  BY <1>1, <1>2, <1>4, RotationAssumption DEF Init, OneSource, Numbered
<1>6. Lockouts
  BY <1>1, <1>2, <1>4, RotationAssumption DEF Init, Lockouts
<1> QED BY <1>3, <1>5, <1>6 DEF KeyInv

LEMMA KeyInvInvite ==
  ASSUME OneOwner, KeyInv, NEW p \in Peers, NEW m \in Peers, Invite(p, m)
  PROVE  KeyInv'
<1> USE DEF KeyInv
<1>1. p = Creator
  BY OwnerIsCreator DEF Invite
<1>2. TypeOK'
  BY DEF TypeOK, Invite, Ticket, Op, Add
<1>3. \A q \in Peers : OnTheWay(q)' = OnTheWay(q)
  BY DEF Invite, OnTheWay
<1>4. OneSource'
  BY <1>3 DEF OneSource, Numbered, Genuine, Invite
<1>5. Lockouts'
  <2>1. lockout[m] = MaxKeys
    BY <1>1 DEF Lockouts, Invite, TypeOK
  <2>2. Len(ring[p]) <= MaxKeys
    BY RotationAssumption DEF OneSource, Numbered, TypeOK, Keys
  <2> QED BY <1>1, <1>3, <2>1, <2>2 DEF Lockouts, Invite, TypeOK
<1> QED BY <1>2, <1>4, <1>5

LEMMA KeyInvJoin ==
  ASSUME OneOwner, KeyInv, NEW p \in Peers, Join(p)
  PROVE  KeyInv'
<1> USE DEF KeyInv
<1>1. p # Creator
  BY RotationAssumption DEF Join, OneSource, TypeOK, Keys
<1>2. PICK t \in tickets :
        /\ t.invitee = p
        /\ keys' = [keys EXCEPT ![p] = t.keys]
        /\ ring' = [ring EXCEPT ![p] = t.keys]
        /\ auth' = [auth EXCEPT ![p] = t.auth_log]
  BY DEF Join
<1>3. TypeOK'
  BY <1>2 DEF TypeOK, Join, Ticket
<1>4. \A q \in Peers : OnTheWay(q)' = OnTheWay(q)
  BY DEF Join, OnTheWay
<1>5. OneSource'
  <2>1. keys'[Creator] = keys[Creator] /\ Numbered(t.keys)
    BY <1>1, <1>2, RotationAssumption DEF OneSource, TypeOK
  <2>2. \A q \in Peers : Numbered(keys'[q]) /\ Numbered(ring'[q])
    BY <1>2, <2>1 DEF OneSource, TypeOK
  <2>3. \A q \in Peers : pc'[q] \in {"removed", "rotated"} => q = Creator
    BY DEF OneSource, Join, TypeOK
  <2> QED BY <1>4, <2>1, <2>2, <2>3 DEF OneSource, Numbered, Genuine, Join
<1>6. Lockouts'
  <2>1. auth'[Creator] = auth[Creator] /\ Len(t.keys) <= lockout[p]
    BY <1>1, <1>2, RotationAssumption DEF Lockouts, TypeOK
  <2>2. \A q \in Peers : Len(keys'[q]) <= lockout[q]
    BY <1>2, <2>1 DEF Lockouts, TypeOK
  <2> QED BY <1>4, <2>1, <2>2 DEF Lockouts, Join
<1> QED BY <1>3, <1>5, <1>6

(* rotate_keyring on the creator's keyring, read back or not.              *)
LEMMA KeyInvRotate ==
  ASSUME KeyInv, rotate_keyring(Creator), reload_keyring(Creator) \/ ring' = ring,
         errors' \in 0..MaxErrors, shut' \in [Peers -> SUBSET Peers],
         pc' \in [Peers -> {"down", "idle", "removed", "rotated"}],
         \A p \in Peers : pc'[p] \in {"removed", "rotated"} => p = Creator,
         UNCHANGED <<auth, pending, buffer, tickets, sent, snapshots, crashes, lockout>>
  PROVE  KeyInv'
<1> USE DEF KeyInv
<1>1. minted' = minted + 1 /\ minted + 1 \in Keys /\ minted \in Nat
  BY RotationAssumption DEF rotate_keyring, TypeOK, Keys
<1>2. /\ keys[Creator] \in Seq(Keys) /\ Len(keys[Creator]) = minted
      /\ keys' = [keys EXCEPT ![Creator] = Append(keys[Creator], minted + 1)]
  BY RotationAssumption DEF rotate_keyring, TypeOK, OneSource
<1>3. /\ keys'[Creator] \in Seq(Keys) /\ Len(keys'[Creator]) = minted + 1
      /\ \A e \in 1..minted + 1 : keys'[Creator][e] = e
  BY <1>1, <1>2, RotationAssumption DEF TypeOK, OneSource, Numbered
<1>r. /\ ring' \in [Peers -> Seq(Keys)]
      /\ \A p \in Peers : ring'[p] = ring[p] \/ (p = Creator /\ ring'[p] = keys'[p])
  <2>1. CASE ring' = ring
    BY <2>1 DEF TypeOK
  <2>2. CASE reload_keyring(Creator)
    <3>1. ring' = [ring EXCEPT ![Creator] = keys'[Creator]] /\ ring \in [Peers -> Seq(Keys)]
      BY <2>2 DEF reload_keyring, TypeOK
    <3> QED BY <1>3, <3>1, RotationAssumption
  <2> QED BY <2>1, <2>2
<1>4. TypeOK'
  BY <1>1, <1>2, <1>3, <1>r DEF TypeOK
<1>5. \A q \in Peers : OnTheWay(q)' = OnTheWay(q)
  BY DEF OnTheWay
<1>6. \A p \in Peers : p # Creator => keys'[p] = keys[p]
  BY <1>2 DEF TypeOK
<1>7. OneSource'
  <2>1. \A p \in Peers : Numbered(keys[p])'
    <3>1. ASSUME NEW p \in Peers, p # Creator PROVE Numbered(keys[p])'
      <4>1. keys[p] \in Seq(Keys) /\ Len(keys[p]) \in Nat /\ Numbered(keys[p])
        BY DEF TypeOK, OneSource
      <4> QED BY <1>1, <1>6, <3>1, <4>1 DEF Numbered
    <3>2. Numbered(keys[Creator])'
      BY <1>1, <1>3 DEF Numbered
    <3> QED BY <3>1, <3>2
  <2>4. \A p \in Peers : Numbered(ring[p])'
    <3>1. ASSUME NEW p \in Peers, ring'[p] = ring[p] PROVE Numbered(ring[p])'
      <4>1. ring[p] \in Seq(Keys) /\ Len(ring[p]) \in Nat /\ Numbered(ring[p])
        BY DEF TypeOK, OneSource
      <4> QED BY <1>1, <3>1, <4>1 DEF Numbered
    <3>2. ASSUME ring'[Creator] = keys'[Creator] PROVE Numbered(ring[Creator])'
      BY <2>1, <3>2, RotationAssumption DEF Numbered
    <3> QED BY <1>r, <3>1, <3>2
  <2>2. \A t \in tickets : Numbered(t.keys)'
    BY <1>1 DEF OneSource, Numbered, TypeOK, Ticket
  <2>3. ASSUME NEW q \in Peers, NEW r \in OnTheWay(q) PROVE Genuine(r)'
    <3>1. r \in Rotation
      BY OnTheWayType
    <3> QED BY <1>1, <3>1 DEF OneSource, Genuine, Rotation, Keys
  <2> QED BY <1>1, <1>3, <1>5, <2>1, <2>2, <2>3, <2>4 DEF OneSource
<1>8. Lockouts'
  BY <1>1, <1>3, <1>5, <1>6 DEF Lockouts, Keys
<1> QED BY <1>4, <1>7, <1>8

(* What the four steps that may call rotate_keyring do besides.            *)
LEMMA RotateSteps ==
  ASSUME TypeOK, NEW p \in Peers,
         RotateKey(p) \/ RotateKeyFails(p) \/ RevokeRotate(p) \/ RevokeRotateFails(p)
  PROVE  /\ pc[p] \in {"idle", "removed"}
         /\ pc' \in [Peers -> {"down", "idle", "removed", "rotated"}]
         /\ \A q \in Peers : q # p => pc'[q] = pc[q]
         /\ pc'[p] # "down"
         /\ rotate_keyring(p) \/ UNCHANGED <<keys, minted, ring>>
         /\ reload_keyring(p) \/ ring' = ring
         /\ errors' \in 0..MaxErrors
         /\ shut' \in [Peers -> SUBSET Peers]
         /\ UNCHANGED <<auth, pending, buffer, tickets, sent, snapshots, crashes, lockout>>
<1> USE RotationAssumption
<1>1. CASE RotateKey(p)
  BY <1>1 DEF RotateKey, ShutOut, Removed, TypeOK
<1>2. CASE RotateKeyFails(p)
  BY <1>2 DEF RotateKeyFails, Error, TypeOK
<1>3. CASE RevokeRotate(p)
  BY <1>3 DEF RevokeRotate, TypeOK
<1>4. CASE RevokeRotateFails(p)
  BY <1>4 DEF RevokeRotateFails, Error, TypeOK
<1> QED BY <1>1, <1>2, <1>3, <1>4

(* The first write of handle_revoke.                                       *)
LEMMA RemoveSteps ==
  ASSUME TypeOK, NEW p \in Peers, NEW m \in Peers, RevokeRemove(p, m)
  PROVE  /\ TypeOK'
         /\ \A q \in Peers : q # m => lockout'[q] = lockout[q]
         /\ lockout'[m] = minted \/ lockout'[m] = lockout[m]
<1>1. minted \in 0..MaxKeys
  BY RotationAssumption DEF TypeOK, Keys
<1>2. lockout \in [Peers -> 0..MaxKeys]
  BY DEF TypeOK
<1>3. lockout' = [lockout EXCEPT ![m] = IF minted < lockout[m] THEN minted ELSE lockout[m]]
  BY DEF RevokeRemove
<1>4. /\ lockout' \in [Peers -> 0..MaxKeys]
      /\ \A q \in Peers : q # m => lockout'[q] = lockout[q]
      /\ lockout'[m] = minted \/ lockout'[m] = lockout[m]
  BY <1>1, <1>2, <1>3
<1>5. pc' \in [Peers -> {"down", "idle", "removed", "rotated"}]
  BY DEF RevokeRemove, TypeOK
<1>6. auth' \in [Peers -> SUBSET Op]
  BY DEF RevokeRemove, TypeOK, Op, Remove
<1>7. UNCHANGED <<keys, ring, pending, buffer, tickets, sent, snapshots, minted, crashes, errors, shut>>
  BY DEF RevokeRemove
<1>8. TypeOK'
  BY <1>4, <1>5, <1>6, <1>7 DEF TypeOK
<1> QED BY <1>4, <1>8

LEMMA KeyInvRevokeRemove ==
  ASSUME OneOwner, KeyInv, NEW p \in Peers, NEW m \in Peers, RevokeRemove(p, m)
  PROVE  KeyInv'
<1> USE DEF KeyInv
<1>1. p = Creator /\ m # Creator
  BY OwnerIsCreator DEF RevokeRemove
<1>2. minted \in Nat /\ minted < MaxKeys /\ MaxKeys \in Nat
  BY RotationAssumption DEF RevokeRemove, TypeOK, Keys
<1>3. /\ lockout' \in [Peers -> 0..MaxKeys]
      /\ \A q \in Peers : q # m => lockout'[q] = lockout[q]
      /\ lockout'[m] = minted \/ lockout'[m] = lockout[m]
  BY RemoveSteps DEF TypeOK
<1>4. TypeOK'
  BY RemoveSteps
<1>5. \A q \in Peers : OnTheWay(q)' = OnTheWay(q)
  BY DEF RevokeRemove, OnTheWay
<1>6. OneSource'
  <2>1. UNCHANGED <<keys, ring, tickets, minted>>
    BY DEF RevokeRemove
  <2>2. \A q \in Peers : pc'[q] \in {"removed", "rotated"} => q = Creator
    BY <1>1 DEF OneSource, RevokeRemove, TypeOK
  <2> QED BY <1>5, <2>1, <2>2 DEF OneSource, Numbered, Genuine
<1>7. Lockouts'
  <2>1. {Add(m), Remove(m)} \subseteq auth'[Creator] /\ auth[Creator] \subseteq auth'[Creator]
    BY <1>1 DEF RevokeRemove, Members, TypeOK
  <2>2. ASSUME NEW q \in Peers, lockout'[q] < MaxKeys
        PROVE  {Add(q), Remove(q)} \subseteq auth'[Creator]
    BY <1>3, <2>1, <2>2 DEF Lockouts
  <2>3. ASSUME NEW o \in Peers, NEW r \in OnTheWay(o), NEW q \in r.to
        PROVE  r.key <= lockout'[q]
    <3>1. q \in Peers /\ r.key <= minted /\ r.key <= lockout[q]
      BY OnTheWayType DEF OneSource, Genuine, Lockouts, Rotation
    <3> QED BY <1>3, <3>1
  <2>4. ASSUME NEW t \in tickets PROVE Len(t.keys) <= lockout'[t.invitee]
    <3>1. t.invitee \in Peers /\ Len(t.keys) <= minted /\ Len(t.keys) <= lockout[t.invitee]
      BY DEF OneSource, Numbered, Lockouts, Ticket, TypeOK
    <3> QED BY <1>3, <3>1
  <2>5. ASSUME NEW q \in Peers PROVE Len(keys[q]) <= lockout'[q]
    BY <1>3 DEF OneSource, Numbered, Lockouts
  <2> QED BY <1>1, <1>3, <1>5, <2>2, <2>3, <2>4, <2>5, RotationAssumption
          DEF Lockouts, RevokeRemove
<1> QED BY <1>4, <1>6, <1>7

(* handle_revoke ends in an error after its rotation.                      *)
LEMMA KeyInvRevokeQueueFails ==
  ASSUME KeyInv, NEW p \in Peers, RevokeQueueFails(p)
  PROVE  KeyInv'
<1> USE DEF KeyInv
<1>1. errors' \in 0..MaxErrors
  BY RotationAssumption DEF TypeOK, RevokeQueueFails, Error
<1>2. TypeOK'
  BY <1>1 DEF TypeOK, RevokeQueueFails, Error
<1>3. \A q \in Peers : OnTheWay(q)' = OnTheWay(q)
  BY DEF OnTheWay, RevokeQueueFails
<1>4. OneSource' /\ Lockouts'
  <2>1. UNCHANGED <<keys, ring, auth, buffer, tickets, minted, lockout>>
    BY DEF RevokeQueueFails
  <2>2. \A q \in Peers : pc'[q] \in {"removed", "rotated"} => q = Creator
    BY DEF OneSource, RevokeQueueFails, Error, TypeOK
  <2> QED BY <1>3, <2>1, <2>2 DEF OneSource, Lockouts, Numbered, Genuine
<1> QED BY <1>2, <1>4

LEMMA KeyInvRevokeQueue ==
  ASSUME OneOwner, KeyInv, NEW p \in Peers, RevokeQueue(p)
  PROVE  KeyInv'
<1> USE DEF KeyInv
<1> DEFINE new == NewRotation(p)
<1>1. p = Creator
  BY DEF RevokeQueue, OneSource
<1>2. minted \in Keys /\ minted \in Nat /\ MaxKeys \in Nat /\ minted >= 1
  BY RotationAssumption DEF TypeOK, Keys
<1>3. /\ new.epoch = minted /\ new.key = minted /\ new.rotator = Creator
      /\ new.to = Members(auth[Creator]) /\ new \in Rotation
  <2>1. Len(keys[Creator]) = minted /\ keys[Creator][minted] = minted
    BY <1>2, RotationAssumption DEF OneSource, Numbered
  <2>2. Members(auth[Creator]) \subseteq Peers
    BY DEF Members
  <2> QED BY <1>1, <1>2, <2>1, <2>2 DEF NewRotation, Rotation
<1>4. ASSUME NEW m \in new.to PROVE m \in Peers /\ lockout[m] = MaxKeys
  <2>1. m \in Peers /\ Remove(m) \notin auth[Creator]
    BY <1>3, <1>4 DEF Members, Removed
  <2>2. lockout[m] \in 0..MaxKeys /\ ~(lockout[m] < MaxKeys)
    BY <2>1 DEF Lockouts, TypeOK
  <2> QED BY <1>2, <2>1, <2>2
<1> HIDE DEF new
<1>5. /\ pending' = [pending EXCEPT ![p] = @ \cup {new}]
      /\ pc' = [pc EXCEPT ![p] = "idle"]
      /\ shut' \in [Peers -> SUBSET Peers]
      /\ UNCHANGED <<keys, ring, auth, buffer, tickets, sent, snapshots, minted, crashes, errors, lockout>>
  BY DEF RevokeQueue, ShutOut, Removed, TypeOK, new
<1>6. TypeOK'
  BY <1>3, <1>5 DEF TypeOK
<1>7. \A q \in Peers : OnTheWay(q)' \subseteq OnTheWay(q) \cup {new}
  BY <1>5 DEF TypeOK, OnTheWay
<1>8. OneSource'
  <2>1. Genuine(new)
    BY <1>2, <1>3 DEF Genuine
  <2>2. \A q \in Peers : pc'[q] \in {"removed", "rotated"} => q = Creator
    BY <1>5 DEF OneSource, TypeOK
  <2>3. \A q \in Peers : \A r \in OnTheWay(q)' : Genuine(r)
    BY <1>7, <2>1 DEF OneSource
  <2> QED BY <1>5, <2>2, <2>3 DEF OneSource, Genuine, Numbered
<1>9. Lockouts'
  <2>1. minted <= MaxKeys
    BY <1>2 DEF Keys
  <2> QED BY <1>3, <1>4, <1>5, <1>7, <2>1 DEF Lockouts
<1> QED BY <1>6, <1>8, <1>9

LEMMA KeyInvTick ==
  ASSUME KeyInv, NEW p \in Peers, Tick(p)
  PROVE  KeyInv'
<1> USE DEF KeyInv
<1>1. TypeOK'
  BY DEF TypeOK, Tick
<1>2. \A q \in Peers : OnTheWay(q)' \subseteq OnTheWay(q) \cup OnTheWay(p)
  BY DEF OnTheWay, Tick
<1>3. OneSource' /\ Lockouts'
  BY <1>2 DEF OneSource, Lockouts, Numbered, Genuine, Tick
<1> QED BY <1>1, <1>3

LEMMA KeyInvApplyAuthOps ==
  ASSUME KeyInv, NEW p \in Peers, NEW ops \in snapshots, ApplyAuthOps(p, ops)
  PROVE  KeyInv'
<1> USE DEF KeyInv
<1>1. TypeOK'
  BY DEF TypeOK, ApplyAuthOps
<1>2. \A q \in Peers : OnTheWay(q)' = OnTheWay(q)
  BY DEF OnTheWay, ApplyAuthOps
<1>3. auth[Creator] \subseteq auth'[Creator]
  BY RotationAssumption DEF ApplyAuthOps, TypeOK
<1>4. OneSource' /\ Lockouts'
  BY <1>2, <1>3 DEF OneSource, Lockouts, Numbered, Genuine, ApplyAuthOps
<1> QED BY <1>1, <1>4

LEMMA KeyInvApplyKeyRotation ==
  ASSUME KeyInv, NEW p \in Peers, NEW r \in sent, ApplyKeyRotation(p, r)
  PROVE  KeyInv'
<1> USE DEF KeyInv
<1>1. r \in Rotation /\ Genuine(r) /\ p \in r.to /\ r.key <= lockout[p]
  BY DEF TypeOK, OneSource, Lockouts, OnTheWay, ApplyKeyRotation, OkForUs
<1>2. p # Creator
  BY <1>1 DEF ApplyKeyRotation, Genuine
<1>3. minted \in Nat /\ lockout[p] \in Nat
  BY RotationAssumption DEF TypeOK, Keys
<1>4. /\ keys[p] \in Seq(Keys) /\ Numbered(keys[p]) /\ Len(keys[p]) <= lockout[p]
      /\ buffer[p] \in SUBSET Rotation
      /\ \A s \in buffer[p] : Genuine(s) /\ p \in s.to /\ s.key <= lockout[p]
  BY DEF TypeOK, OneSource, Lockouts, OnTheWay
<1>5. UNCHANGED <<pc, auth, pending, tickets, sent, snapshots, minted, crashes, errors, lockout, shut>>
  BY DEF ApplyKeyRotation
\* The ring stays numbered and within the lockout, the buffer gains r at most.
<1>6. /\ keys' \in [Peers -> Seq(Keys)]
      /\ \A q \in Peers : q # p => keys'[q] = keys[q]
      /\ Numbered(keys'[p]) /\ Len(keys'[p]) <= lockout[p]
      /\ buffer' \in [Peers -> SUBSET Rotation]
      /\ \A q \in Peers : q # p => buffer'[q] = buffer[q]
      /\ buffer'[p] \subseteq buffer[p] \cup {r}
  <2>1. CASE Install(p, r)
    <3> DEFINE k == Append(keys[p], r.key)
               new == Drained(k, buffer[p])
    <3>1. r.epoch = Len(keys[p]) + 1 /\ r.key = Len(keys[p]) + 1 /\ r.key \in Keys
      BY <1>1, <2>1 DEF Install, Genuine, Rotation
    <3>2. /\ k \in Seq(Keys) /\ Len(k) = Len(keys[p]) + 1
          /\ \A e \in 1..Len(k) : k[e] = e
      BY <1>4, <3>1 DEF Numbered
    <3>3. Len(k) <= minted /\ Len(k) <= lockout[p]
      BY <1>1, <3>1, <3>2 DEF Genuine
    <3> HIDE DEF k
    <3>4. new \in Seq(Keys) /\ Len(new) <= minted /\ \A e \in 1..Len(new) : new[e] = e
      BY <1>3, <1>4, <3>2, <3>3, DrainedRing DEF Genuine
    <3>5. Len(new) <= lockout[p]
      BY <1>3, <1>4, <3>2, <3>3, DrainedRing DEF Genuine
    <3> HIDE DEF new
    <3>6. keys' = [keys EXCEPT ![p] = new] /\ buffer' = [buffer EXCEPT ![p] = Gapped(k, buffer[p])]
      BY <2>1 DEF Install, k, new
    <3>7. Gapped(k, buffer[p]) \subseteq buffer[p]
      BY DEF Gapped
    <3> QED BY <1>4, <3>4, <3>5, <3>6, <3>7 DEF TypeOK, Numbered
  <2>2. CASE Buffer(p, r)
    <3>1. buffer_push(buffer[p], r) \subseteq buffer[p] \cup {r}
      BY DEF buffer_push
    <3>2. keys' = keys /\ buffer' = [buffer EXCEPT ![p] = buffer_push(buffer[p], r)]
      BY <2>2 DEF Buffer
    <3> QED BY <1>1, <1>4, <3>1, <3>2 DEF TypeOK
  <2> QED BY <2>1, <2>2 DEF ApplyKeyRotation
<1>12. /\ ring' \in [Peers -> Seq(Keys)]
       /\ \A q \in Peers : ring'[q] = ring[q] \/ (q = p /\ ring'[q] = keys'[q])
  <2>1. ring' = ring \/ ring' = [ring EXCEPT ![p] = keys'[p]]
    BY DEF ApplyKeyRotation, Install, Buffer, reload_keyring
  <2>2. ring \in [Peers -> Seq(Keys)] /\ keys'[p] \in Seq(Keys)
    BY <1>6 DEF TypeOK
  <2> QED BY <2>1, <2>2
<1>7. TypeOK'
  BY <1>5, <1>6, <1>12 DEF TypeOK
<1>8. \A q \in Peers : OnTheWay(q)' \subseteq OnTheWay(q) \cup {r}
  BY <1>5, <1>6 DEF OnTheWay
<1>9. \A q \in Peers : r \in OnTheWay(q)
  BY DEF OnTheWay
<1>10. OneSource'
  <2>1. \A q \in Peers : Numbered(keys'[q]) /\ Numbered(ring'[q])
    BY <1>6, <1>12 DEF OneSource
  <2>2. keys'[Creator] = keys[Creator]
    BY <1>2, <1>6, RotationAssumption
  <2>3. \A q \in Peers : \A s \in OnTheWay(q)' : Genuine(s)
    BY <1>1, <1>8 DEF OneSource
  <2>4. \A q \in Peers : Numbered(keys[q])' /\ Numbered(ring[q])'
    BY <1>5, <2>1 DEF Numbered
  <2>5. \A t \in tickets' : Numbered(t.keys)'
    BY <1>5 DEF OneSource, Numbered
  <2>6. \A q \in Peers : \A s \in OnTheWay(q)' : Genuine(s)'
    BY <1>5, <2>3 DEF Genuine
  <2> QED BY <1>5, <2>2, <2>4, <2>5, <2>6 DEF OneSource
<1>11. Lockouts'
  <2>1. \A q \in Peers : Len(keys'[q]) <= lockout[q]
    BY <1>6 DEF Lockouts
  <2>2. \A q \in Peers : \A s \in buffer'[q] : q \in s.to
    BY <1>1, <1>6 DEF Lockouts
  <2> QED BY <1>5, <1>8, <1>9, <2>1, <2>2 DEF Lockouts
<1> QED BY <1>7, <1>10, <1>11

LEMMA KeyInvRestart ==
  ASSUME KeyInv, NEW p \in Peers, Crash(p) \/ Start(p)
  PROVE  KeyInv'
<1> USE DEF KeyInv
<1>1. TypeOK'
  <2>1. pc' \in [Peers -> {"down", "idle", "removed", "rotated"}]
    BY DEF TypeOK, Crash, Start
  <2>2. buffer' \in [Peers -> SUBSET Rotation]
    BY DEF TypeOK, Crash, Start
  <2>3. crashes' \in 0..MaxCrashes
    BY RotationAssumption DEF TypeOK, Crash, Start
  <2>4. ring' \in [Peers -> Seq(Keys)]
    <3>1. ring' = [ring EXCEPT ![p] = <<>>] \/ ring' = [ring EXCEPT ![p] = keys[p]]
      BY DEF Crash, Start
    <3>2. ring \in [Peers -> Seq(Keys)] /\ keys[p] \in Seq(Keys) /\ <<>> \in Seq(Keys)
      BY DEF TypeOK
    <3> QED BY <3>1, <3>2
  <2> QED BY <2>1, <2>2, <2>3, <2>4 DEF TypeOK, Crash, Start
<1>2. \A q \in Peers : OnTheWay(q)' \subseteq OnTheWay(q) /\ buffer'[q] \subseteq buffer[q]
  BY DEF OnTheWay, Crash, Start, TypeOK
<1>3. \A q \in Peers : pc'[q] \in {"removed", "rotated"} => q = Creator
  BY DEF OneSource, Crash, Start, TypeOK
<1>4. UNCHANGED <<keys, auth, tickets, minted, lockout>>
  BY DEF Crash, Start
<1>6. \A q \in Peers : Numbered(ring'[q])
  <2>1. \A q \in Peers : ring'[q] \in {ring[q], keys[q], <<>>}
    BY DEF Crash, Start, TypeOK
  <2>2. Numbered(<<>>)
    BY RotationAssumption DEF Numbered, TypeOK, Keys
  <2> QED BY <2>1, <2>2 DEF OneSource
<1>5. OneSource' /\ Lockouts'
  BY <1>2, <1>3, <1>4, <1>6 DEF OneSource, Lockouts, Numbered, Genuine
<1> QED BY <1>1, <1>5

LEMMA RotateStepKeyInv ==
  ASSUME KeyInv, NEW p \in Peers, p = Creator, rotate_keyring(p),
         RotateKey(p) \/ RotateKeyFails(p) \/ RevokeRotate(p) \/ RevokeRotateFails(p)
  PROVE  KeyInv'
<1>1. /\ pc' \in [Peers -> {"down", "idle", "removed", "rotated"}]
      /\ \A q \in Peers : q # p => pc'[q] = pc[q]
      /\ reload_keyring(p) \/ ring' = ring
      /\ errors' \in 0..MaxErrors
      /\ shut' \in [Peers -> SUBSET Peers]
      /\ UNCHANGED <<auth, pending, buffer, tickets, sent, snapshots, crashes, lockout>>
  BY RotateSteps DEF KeyInv
<1>2. \A q \in Peers : pc'[q] \in {"removed", "rotated"} => q = Creator
  BY <1>1 DEF KeyInv, OneSource
<1> QED BY <1>1, <1>2, KeyInvRotate

LEMMA KeyInvNext ==
  ASSUME OneOwner, KeyInv, [Next]_vars
  PROVE  KeyInv'
<1>1. CASE UNCHANGED vars
  BY <1>1 DEF vars, KeyInv, TypeOK, OneSource, Lockouts, OnTheWay, Numbered, Genuine
<1>2. ASSUME NEW p \in Peers, RotateKey(p) \/ RotateKeyFails(p) PROVE KeyInv'
  <2>1. p = Creator
    BY <1>2 DEF RotateKey, RotateKeyFails, OneOwner
  <2>2. rotate_keyring(p)
    BY <1>2 DEF RotateKey, RotateKeyFails
  <2> QED BY <1>2, <2>1, <2>2, RotateStepKeyInv
<1>3. ASSUME NEW p \in Peers, RevokeRotate(p) PROVE KeyInv'
  <2>1. p = Creator
    BY <1>3 DEF RevokeRotate, KeyInv, OneSource
  <2>2. rotate_keyring(p)
    BY <1>3 DEF RevokeRotate
  <2> QED BY <1>3, <2>1, <2>2, RotateStepKeyInv
<1>4. ASSUME NEW p \in Peers, RevokeRotateFails(p) PROVE KeyInv'
  <2>1. p = Creator
    BY <1>4 DEF RevokeRotateFails, KeyInv, OneSource
  <2>2. CASE rotate_keyring(p)
    BY <1>4, <2>1, <2>2, RotateStepKeyInv
  <2>3. CASE UNCHANGED <<keys, minted>>
    <3>0. /\ pc' \in [Peers -> {"down", "idle", "removed", "rotated"}]
          /\ errors' \in 0..MaxErrors
          /\ UNCHANGED <<ring, auth, pending, buffer, tickets, sent, snapshots, crashes, lockout, shut>>
      BY <1>4, RotateSteps DEF KeyInv, RevokeRotateFails
    <3>4. \A q \in Peers : pc'[q] \in {"removed", "rotated"} => q = Creator
      BY <1>4 DEF RevokeRotateFails, Error, KeyInv, OneSource, TypeOK
    <3>1. TypeOK'
      BY <2>3, <3>0 DEF KeyInv, TypeOK
    <3>2. \A q \in Peers : OnTheWay(q)' = OnTheWay(q)
      BY <1>4 DEF RevokeRotateFails, OnTheWay
    <3>3. OneSource' /\ Lockouts'
      BY <2>3, <3>0, <3>2, <3>4 DEF KeyInv, OneSource, Lockouts, Numbered, Genuine
    <3> QED BY <3>1, <3>3 DEF KeyInv
  <2> QED BY <1>4, <2>2, <2>3 DEF RevokeRotateFails
<1> QED BY <1>1, <1>2, <1>3, <1>4, KeyInvRevokeQueueFails, KeyInvInvite, KeyInvJoin, KeyInvRevokeRemove, KeyInvRevokeQueue,
           KeyInvTick, KeyInvApplyAuthOps, KeyInvApplyKeyRotation, KeyInvRestart DEF Next
-----------------------------------------------------------------------------
(* In a share with one owner every key, wherever it is, is the creator's   *)
(* key of its epoch, and none newer than its lockout is on its way to a    *)
(* revoked peer.                                                           *)
THEOREM KeyInvHolds == OneOwner /\ Spec => []KeyInv
<1>1. Init => KeyInv
  BY KeyInvInit
<1> SUFFICES ASSUME OneOwner PROVE Spec => []KeyInv
  OBVIOUS
<1>2. KeyInv /\ [Next]_vars => KeyInv'
  BY KeyInvNext
<1> QED BY <1>1, <1>2, PTL DEF Spec

(* In a share with one owner an epoch number means the same key in every   *)
(* keyring, whatever happens to rotations, tickets and daemons: decrypt    *)
(* may look a key up by the epoch in the blob.                             *)
THEOREM EpochsIdentifyKeys == OneOwner /\ Spec => []KeyringsAgree
<1>1. KeyInv => KeyringsAgree
  BY DEF KeyInv, OneSource, Numbered, KeyringsAgree, Keys
<1> QED BY <1>1, KeyInvHolds, PTL

(* In a share with one owner a revoked peer never comes to hold a key that *)
(* was generated after its revocation.                                     *)
THEOREM RevocationLocksOut == OneOwner /\ Spec => []RevokedGetNoNewKeys
<1>1. KeyInv => RevokedGetNoNewKeys
  <2> SUFFICES ASSUME KeyInv, NEW m \in Peers, NEW i \in 1..Len(keys[m])
               PROVE  keys[m][i] <= lockout[m]
    BY DEF RevokedGetNoNewKeys
  <2>1. keys[m][i] = i
    BY DEF KeyInv, OneSource, Numbered
  <2>2. Len(keys[m]) \in Nat /\ lockout[m] \in Nat
    BY RotationAssumption DEF KeyInv, TypeOK
  <2>3. Len(keys[m]) <= lockout[m]
    BY DEF KeyInv, Lockouts
  <2> QED BY <2>1, <2>2, <2>3
<1> QED BY <1>1, KeyInvHolds, PTL
-----------------------------------------------------------------------------
(***************************************************************************)
(* Types, for any number of owners and rotations by hand.                  *)
(***************************************************************************)
\* No ring, ticket or rotation is ahead of the keys that were generated, and
\* a daemon that runs has a key.
EpochInv ==
  /\ TypeOK
  /\ \A p \in Peers : Len(keys[p]) <= minted /\ (pc[p] # "down" => keys[p] # <<>>)
  /\ \A p \in Peers : Len(ring[p]) <= minted /\ (pc[p] # "down" => ring[p] # <<>>)
  /\ \A t \in tickets : Len(t.keys) <= minted /\ t.keys # <<>>
  /\ \A p \in Peers : \A r \in OnTheWay(p) : r.epoch <= minted

(* Draining yields a keyring, no longer than the epochs it is fed.         *)
LEMMA DrainedType ==
  ASSUME NEW k \in Seq(Keys), k # <<>>, NEW buf \in SUBSET Rotation, NEW b \in Nat,
         Len(k) <= b, \A r \in buf : r.epoch <= b
  PROVE  /\ Drained(k, buf) \in Seq(Keys)
         /\ Len(Drained(k, buf)) <= b /\ Drained(k, buf) # <<>>
<1>1. PICK n \in Nat : n >= Len(k) /\ Ready(k, buf) = (Len(k) + 1)..n
  BY ReadyIsInterval
<1>2. DOMAIN k = 1..Len(k) /\ Len(k) \in Nat \ {0}
  OBVIOUS
<1>3. DOMAIN k \cup Ready(k, buf) = 1..n
  BY <1>1, <1>2
<1>4. ASSUME NEW e \in Ready(k, buf)
      PROVE  (CHOOSE r \in buf : r.epoch = e).key \in Keys /\ e <= b
  <2>1. PICK r \in buf : r.epoch = e
    BY DEF Ready
  <2>2. \A s \in buf : s.key \in Keys
    BY DEF Rotation
  <2>3. (CHOOSE s \in buf : s.epoch = e) \in buf
    BY <2>1
  <2> QED BY <2>1, <2>2, <2>3
<1>5. Drained(k, buf) \in [1..n -> Keys]
  <2> DEFINE val(e) == IF e \in DOMAIN k THEN k[e] ELSE (CHOOSE r \in buf : r.epoch = e).key
  <2>1. ASSUME NEW e \in 1..n PROVE val(e) \in Keys
    <3>1. CASE e \in DOMAIN k
      BY <1>2, <3>1
    <3>2. CASE e \notin DOMAIN k
      BY <1>3, <1>4, <3>2
    <3> QED BY <3>1, <3>2
  <2>2. Drained(k, buf) = [e \in 1..n |-> val(e)]
    BY <1>3, Zenon DEF Drained
  <2> HIDE DEF val
  <2> QED BY <2>1, <2>2
<1>6. Drained(k, buf) \in Seq(Keys) /\ Len(Drained(k, buf)) = n
  BY <1>5, SeqDef
<1>7. n <= b
  <2>1. CASE n = Len(k)
    BY <2>1
  <2>2. CASE n # Len(k)
    <3>1. n \in Nat /\ n >= Len(k)
      BY <1>1
    <3>2. Len(k) \in Nat /\ Len(k) + 1 <= n
      BY <2>2, <3>1
    <3>3. n \in Ready(k, buf)
      BY <1>1, <3>1, <3>2
    <3> QED BY <1>4, <3>3
  <2> QED BY <2>1, <2>2
<1>8. Drained(k, buf) # <<>>
  BY <1>1, <1>2, <1>6
<1> QED BY <1>6, <1>7, <1>8

LEMMA EpochInvInit ==
  ASSUME Init
  PROVE  EpochInv
<1>1. TypeOK
  BY KeyInvInit DEF KeyInv
<1>2. Len(<<1>>) = 1 /\ Len(<<>>) = 0 /\ <<1>> # <<>>
  OBVIOUS
<1>3. ring = keys /\ \A p \in Peers : Len(keys[p]) <= minted /\ (pc[p] # "down" => keys[p] # <<>>)
  BY <1>2 DEF Init
<1>4. tickets = {} /\ \A p \in Peers : OnTheWay(p) = {}
  BY DEF Init, OnTheWay
<1> QED BY <1>1, <1>3, <1>4 DEF EpochInv

LEMMA EpochInvInvite ==
  ASSUME EpochInv, NEW p \in Peers, NEW m \in Peers, Invite(p, m)
  PROVE  EpochInv'
<1> USE DEF EpochInv
<1>1. TypeOK'
  BY DEF TypeOK, Invite, Ticket, Op, Add
<1>2. \A q \in Peers : OnTheWay(q)' = OnTheWay(q)
  BY DEF Invite, OnTheWay
<1>3. Len(ring[p]) <= minted /\ ring[p] # <<>>
  BY DEF Invite
<1> QED BY <1>1, <1>2, <1>3 DEF Invite

LEMMA EpochInvJoin ==
  ASSUME EpochInv, NEW p \in Peers, Join(p)
  PROVE  EpochInv'
<1> USE DEF EpochInv
<1>1. PICK t \in tickets :
        /\ t.invitee = p
        /\ keys' = [keys EXCEPT ![p] = t.keys]
        /\ ring' = [ring EXCEPT ![p] = t.keys]
        /\ auth' = [auth EXCEPT ![p] = t.auth_log]
  BY DEF Join
<1>2. TypeOK'
  BY <1>1 DEF TypeOK, Join, Ticket
<1>3. \A q \in Peers : OnTheWay(q)' = OnTheWay(q)
  BY DEF Join, OnTheWay
<1>4. \A q \in Peers : /\ Len(keys'[q]) <= minted /\ (pc'[q] # "down" => keys'[q] # <<>>)
                         /\ Len(ring'[q]) <= minted /\ (pc'[q] # "down" => ring'[q] # <<>>)
  BY <1>1 DEF Join, TypeOK
<1> QED BY <1>2, <1>3, <1>4 DEF Join

(* Any owner, or a rotation by hand, with its error returns.               *)
LEMMA EpochInvRotate ==
  ASSUME EpochInv, NEW p \in Peers,
         RotateKey(p) \/ RotateKeyFails(p) \/ RevokeRotate(p) \/ RevokeRotateFails(p)
  PROVE  EpochInv'
<1> USE DEF EpochInv
<1>1. /\ pc[p] # "down"
      /\ pc' \in [Peers -> {"down", "idle", "removed", "rotated"}]
      /\ \A q \in Peers : pc'[q] # "down" => pc[q] # "down"
      /\ rotate_keyring(p) \/ UNCHANGED <<keys, minted, ring>>
      /\ reload_keyring(p) \/ ring' = ring
      /\ errors' \in 0..MaxErrors
      /\ shut' \in [Peers -> SUBSET Peers]
      /\ UNCHANGED <<auth, pending, buffer, tickets, sent, snapshots, crashes, lockout>>
  BY RotateSteps
<1>2. \A q \in Peers : OnTheWay(q)' = OnTheWay(q)
  BY <1>1 DEF OnTheWay
<1>3. CASE UNCHANGED <<keys, minted, ring>>
  <2>1. TypeOK'
    BY <1>1, <1>3 DEF TypeOK
  <2> QED BY <1>1, <1>2, <1>3, <2>1
<1>4. CASE rotate_keyring(p)
  <2>1. MaxKeys \in Nat /\ minted \in Nat
    BY RotationAssumption DEF TypeOK, Keys
  <2>2. minted < MaxKeys /\ minted' = minted + 1
    BY <1>4 DEF rotate_keyring
  <2>3. minted + 1 \in Keys
    BY <2>1, <2>2 DEF Keys
  <2>4. keys[p] \in Seq(Keys) /\ Len(keys[p]) <= minted
    BY DEF TypeOK
  <2>5. /\ Append(keys[p], minted + 1) \in Seq(Keys)
        /\ Len(Append(keys[p], minted + 1)) <= minted + 1
        /\ Append(keys[p], minted + 1) # <<>>
    <3>1. /\ Append(keys[p], minted + 1) \in Seq(Keys)
          /\ Len(Append(keys[p], minted + 1)) = Len(keys[p]) + 1
          /\ Len(keys[p]) \in Nat
      BY <2>3, <2>4
    <3>2. Append(keys[p], minted + 1) # <<>>
      BY <3>1
    <3> QED BY <2>1, <2>4, <3>1, <3>2
  <2>6. keys' = [keys EXCEPT ![p] = Append(keys[p], minted + 1)]
    BY <1>4 DEF rotate_keyring
  <2>7. /\ keys' \in [Peers -> Seq(Keys)]
        /\ \A q \in Peers : Len(keys'[q]) <= minted + 1 /\ (pc'[q] # "down" => keys'[q] # <<>>)
    <3>1. keys \in [Peers -> Seq(Keys)]
      BY DEF TypeOK
    <3>2. keys' \in [Peers -> Seq(Keys)] /\ keys'[p] = Append(keys[p], minted + 1)
      BY <2>5, <2>6, <3>1
    <3>3. ASSUME NEW q \in Peers, q # p
          PROVE  Len(keys'[q]) <= minted + 1 /\ (pc'[q] # "down" => keys'[q] # <<>>)
      <4>1. keys'[q] = keys[q] /\ (pc'[q] # "down" => pc[q] # "down")
        BY <1>1, <2>6, <3>1, <3>3
      <4>2. Len(keys[q]) \in Nat /\ Len(keys[q]) <= minted /\ (pc[q] # "down" => keys[q] # <<>>)
        BY <3>1
      <4> QED BY <2>1, <4>1, <4>2
    <3> QED BY <2>5, <3>2, <3>3
  <2>8. /\ ring' \in [Peers -> Seq(Keys)]
        /\ \A q \in Peers : ring'[q] = ring[q] \/ ring'[q] = keys'[q]
    BY <1>1, <2>7 DEF reload_keyring, TypeOK
  <2>9. \A q \in Peers : Len(ring'[q]) <= minted + 1 /\ (pc'[q] # "down" => ring'[q] # <<>>)
    <3> SUFFICES ASSUME NEW q \in Peers
                 PROVE  Len(ring'[q]) <= minted + 1 /\ (pc'[q] # "down" => ring'[q] # <<>>)
      OBVIOUS
    <3>1. CASE ring'[q] = keys'[q]
      BY <2>7, <3>1
    <3>2. CASE ring'[q] = ring[q]
      <4>1. Len(ring[q]) \in Nat /\ Len(ring[q]) <= minted /\ (pc[q] # "down" => ring[q] # <<>>)
        BY DEF TypeOK
      <4> QED BY <1>1, <2>1, <3>2, <4>1
    <3> QED BY <2>8, <3>1, <3>2
  <2>10. TypeOK'
    BY <1>1, <2>2, <2>3, <2>7, <2>8 DEF TypeOK
  <2>11. \A q \in Peers : \A r \in OnTheWay(q) : r.epoch <= minted + 1
    BY <2>1, OnTheWayType DEF Rotation, Keys
  <2>12. \A t \in tickets : Len(t.keys) <= minted + 1
    BY <2>1 DEF TypeOK, Ticket
  <2> QED BY <1>1, <1>2, <2>2, <2>7, <2>9, <2>10, <2>11, <2>12
<1> QED BY <1>1, <1>3, <1>4

LEMMA EpochInvRevoke ==
  ASSUME EpochInv, NEW p \in Peers,
         RevokeQueue(p) \/ RevokeQueueFails(p) \/ \E m \in Peers : RevokeRemove(p, m)
  PROVE  EpochInv'
<1> USE DEF EpochInv
<1>1. ASSUME NEW m \in Peers, RevokeRemove(p, m) PROVE EpochInv'
  <2>2. TypeOK'
    BY <1>1, RemoveSteps
  <2>3. \A q \in Peers : OnTheWay(q)' = OnTheWay(q)
    BY <1>1 DEF RevokeRemove, OnTheWay
  <2> QED BY <1>1, <2>2, <2>3 DEF RevokeRemove, TypeOK
<1>2. CASE RevokeQueue(p)
  <2> DEFINE n == Len(keys[p])
  <2>1. keys[p] \in Seq(Keys) /\ keys[p] # <<>> /\ n <= minted /\ minted \in Keys
    BY <1>2 DEF RevokeQueue, TypeOK
  <2>2. n \in Keys /\ keys[p][n] \in Keys
    BY <2>1, RotationAssumption DEF Keys
  <2>3. Members(auth[p]) \subseteq Peers
    BY DEF Members
  <2>4. NewRotation(p) \in Rotation /\ NewRotation(p).epoch <= minted
    BY <2>1, <2>2, <2>3 DEF NewRotation, Rotation
  <2>5. TypeOK'
    <3>1. shut' \in [Peers -> SUBSET Peers]
      BY <1>2 DEF RevokeQueue, ShutOut, Removed, TypeOK
    <3> QED BY <1>2, <2>4, <3>1 DEF TypeOK, RevokeQueue
  <2>6. \A q \in Peers : OnTheWay(q)' \subseteq OnTheWay(q) \cup {NewRotation(p)}
    BY <1>2 DEF RevokeQueue, TypeOK, OnTheWay
  <2> QED BY <1>2, <2>4, <2>5, <2>6 DEF RevokeQueue, TypeOK
<1>3. CASE RevokeQueueFails(p)
  <2>1. errors' \in 0..MaxErrors
    BY <1>3, RotationAssumption DEF TypeOK, RevokeQueueFails, Error
  <2>2. TypeOK'
    BY <1>3, <2>1 DEF TypeOK, RevokeQueueFails, Error
  <2>3. \A q \in Peers : OnTheWay(q)' = OnTheWay(q)
    BY <1>3 DEF OnTheWay, RevokeQueueFails
  <2> QED BY <1>3, <2>2, <2>3 DEF RevokeQueueFails, Error, TypeOK
<1> QED BY <1>1, <1>2, <1>3

LEMMA EpochInvApplyKeyRotation ==
  ASSUME EpochInv, NEW p \in Peers, NEW r \in sent, ApplyKeyRotation(p, r)
  PROVE  EpochInv'
<1> USE DEF EpochInv
<1>1. r \in Rotation /\ r.epoch <= minted /\ minted \in Nat
  BY RotationAssumption DEF TypeOK, OnTheWay, Keys
<1>2. keys[p] \in Seq(Keys) /\ keys[p] # <<>> /\ buffer[p] \in SUBSET Rotation
  BY DEF TypeOK, ApplyKeyRotation
<1>3. UNCHANGED <<pc, auth, pending, tickets, sent, snapshots, minted, crashes, errors, lockout, shut>>
  BY DEF ApplyKeyRotation
<1>4. /\ keys' \in [Peers -> Seq(Keys)]
      /\ \A q \in Peers : Len(keys'[q]) <= minted /\ (pc[q] # "down" => keys'[q] # <<>>)
      /\ buffer' \in [Peers -> SUBSET Rotation]
      /\ \A q \in Peers : buffer'[q] \subseteq buffer[q] \cup {r}
  <2>1. CASE Install(p, r)
    <3> DEFINE k == Append(keys[p], r.key)
               new == Drained(k, buffer[p])
    <3>1. k \in Seq(Keys) /\ k # <<>> /\ Len(k) <= minted
      BY <1>1, <1>2, <2>1 DEF Install, Rotation
    <3>2. \A s \in buffer[p] : s.epoch <= minted
      BY DEF OnTheWay
    <3>3. keys' = [keys EXCEPT ![p] = new] /\ buffer' = [buffer EXCEPT ![p] = Gapped(k, buffer[p])]
      BY <2>1 DEF Install
    <3> HIDE DEF k
    <3>4. new \in Seq(Keys) /\ Len(new) <= minted /\ new # <<>>
      BY <1>1, <1>2, <3>1, <3>2, DrainedType
    <3> HIDE DEF new
    <3>5. Gapped(k, buffer[p]) \subseteq buffer[p]
      BY DEF Gapped
    <3> QED BY <1>2, <3>3, <3>4, <3>5 DEF TypeOK
  <2>2. CASE Buffer(p, r)
    <3>1. buffer_push(buffer[p], r) \subseteq buffer[p] \cup {r}
      BY DEF buffer_push
    <3>2. keys' = keys /\ buffer' = [buffer EXCEPT ![p] = buffer_push(buffer[p], r)]
      BY <2>2 DEF Buffer
    <3> QED BY <1>1, <1>2, <3>1, <3>2 DEF TypeOK
  <2> QED BY <2>1, <2>2 DEF ApplyKeyRotation
<1>7. /\ ring' \in [Peers -> Seq(Keys)]
      /\ \A q \in Peers : ring'[q] = ring[q] \/ ring'[q] = keys'[q]
  <2>1. ring' = ring \/ ring' = [ring EXCEPT ![p] = keys'[p]]
    BY DEF ApplyKeyRotation, Install, Buffer, reload_keyring
  <2>2. ring \in [Peers -> Seq(Keys)] /\ keys'[p] \in Seq(Keys)
    BY <1>4 DEF TypeOK
  <2> QED BY <2>1, <2>2
<1>8. \A q \in Peers : Len(ring'[q]) <= minted /\ (pc[q] # "down" => ring'[q] # <<>>)
  BY <1>4, <1>7
<1>5. TypeOK'
  BY <1>3, <1>4, <1>7 DEF TypeOK
<1>6. \A q \in Peers : OnTheWay(q)' \subseteq OnTheWay(q) \cup {r}
  BY <1>3, <1>4 DEF OnTheWay
<1> QED BY <1>1, <1>3, <1>4, <1>5, <1>6, <1>8

LEMMA EpochInvQuiet ==
  ASSUME EpochInv, NEW p \in Peers,
         \/ Tick(p) \/ Crash(p) \/ Start(p)
         \/ \E ops \in snapshots : ApplyAuthOps(p, ops)
  PROVE  EpochInv'
<1> USE DEF EpochInv
<1>1. UNCHANGED <<keys, tickets, minted>>
  BY DEF Tick, Crash, Start, ApplyAuthOps
<1>2. TypeOK'
  <2>1. CASE Tick(p)
    BY <2>1 DEF TypeOK, Tick
  <2>2. CASE Start(p)
    BY <2>2 DEF TypeOK, Start
  <2>3. ASSUME NEW ops \in snapshots, ApplyAuthOps(p, ops) PROVE TypeOK'
    BY <2>3 DEF TypeOK, ApplyAuthOps
  <2>4. CASE Crash(p)
    <3>1. crashes' \in 0..MaxCrashes
      BY <2>4, RotationAssumption DEF TypeOK, Crash
    <3> QED BY <2>4, <3>1 DEF TypeOK, Crash
  <2> QED BY <2>1, <2>2, <2>3, <2>4
<1>3. \A q \in Peers : pc'[q] # "down" => pc[q] # "down" \/ keys[q] # <<>>
  BY DEF Tick, Crash, Start, ApplyAuthOps, TypeOK
<1>4. \A q \in Peers : OnTheWay(q)' \subseteq OnTheWay(q) \cup OnTheWay(p)
  BY DEF Tick, Crash, Start, ApplyAuthOps, TypeOK, OnTheWay
<1>5. \A q \in Peers : Len(ring'[q]) <= minted /\ (pc'[q] # "down" => ring'[q] # <<>>)
  <2>1. CASE Tick(p) \/ \E ops \in snapshots : ApplyAuthOps(p, ops)
    BY <2>1 DEF Tick, ApplyAuthOps
  <2>2. CASE Start(p)
    BY <2>2 DEF Start, TypeOK
  <2>3. CASE Crash(p)
    <3>1. Len(<<>>) <= minted
      BY RotationAssumption DEF TypeOK, Keys
    <3> QED BY <2>3, <3>1 DEF Crash, TypeOK
  <2> QED BY <2>1, <2>2, <2>3
<1> QED BY <1>1, <1>2, <1>3, <1>4, <1>5

(* No epoch is ever ahead of the keys that were generated.                 *)
LEMMA EpochInvHolds == Spec => []EpochInv
<1>1. Init => EpochInv
  BY EpochInvInit
<1>2. EpochInv /\ [Next]_vars => EpochInv'
  <2> SUFFICES ASSUME EpochInv, [Next]_vars PROVE EpochInv'
    OBVIOUS
  <2>1. CASE UNCHANGED vars
    BY <2>1 DEF vars, EpochInv, TypeOK, OnTheWay
  <2> QED BY <2>1, EpochInvInvite, EpochInvJoin, EpochInvRotate, EpochInvRevoke,
             EpochInvApplyKeyRotation, EpochInvQuiet DEF Next
<1> QED BY <1>1, <1>2, PTL DEF Spec

(* Keyrings, tickets, rotations and buffers stay well formed, with any     *)
(* number of owners rotating at the same time: draining the buffer always  *)
(* leaves a keyring without a gap.                                         *)
THEOREM RotationTypeOK == Spec => []TypeOK
<1>1. EpochInv => TypeOK
  BY DEF EpochInv
<1> QED BY <1>1, EpochInvHolds, PTL
-----------------------------------------------------------------------------
(***************************************************************************)
(* A revocation that returned Ok takes effect.                             *)
(***************************************************************************)
\* Every Remove comes from the creator, whose log has it first; and the key
\* in the creator's memory is newer than all that a peer may know that was
\* shut out, or is about to be because the rotation has been done.
FromCreator(log) == \A m \in Peers : Remove(m) \in log => Remove(m) \in auth[Creator]

Newer(m) == lockout[m] < minted /\ (ring[Creator] # <<>> => lockout[m] < Len(ring[Creator]))

RemovalInv ==
  /\ \A p \in Peers : FromCreator(auth[p])
  /\ \A ops \in snapshots : FromCreator(ops)
  /\ \A t \in tickets : FromCreator(t.auth_log)
  /\ \A m \in Peers : Remove(m) \in auth[Creator] => lockout[m] <= minted

ShutInv ==
  /\ \A p \in Peers : p # Creator => shut[p] = {}
  /\ \A m \in Peers : m \in shut[Creator] => Remove(m) \in auth[Creator] /\ Newer(m)
  /\ pc[Creator] = "rotated" => \A m \in Peers : Remove(m) \in auth[Creator] => Newer(m)

LEMMA RemovalInvInit ==
  ASSUME Init
  PROVE  RemovalInv
<1>1. \A m, n \in Peers : Remove(m) # Add(n)
  BY DEF Remove, Add
<1>2. \A p, m \in Peers : Remove(m) \notin auth[p]
  BY <1>1, RotationAssumption DEF Init
<1> QED BY <1>2, RotationAssumption DEF Init, RemovalInv, FromCreator

(* The steps that leave what is known of removals and their keys alone.    *)
LEMMA RemovalInvQuiet ==
  ASSUME OneOwner, KeyInv, RemovalInv, NEW p \in Peers,
         \/ RevokeQueue(p) \/ RevokeQueueFails(p) \/ Tick(p) \/ Crash(p) \/ Start(p)
         \/ \E r \in sent : ApplyKeyRotation(p, r)
  PROVE  RemovalInv'
<1>1. UNCHANGED <<auth, tickets, minted, lockout>>
  BY DEF RevokeQueue, RevokeQueueFails, Tick, Crash, Start, ApplyKeyRotation
<1>2. snapshots' \subseteq snapshots \cup {auth[p]}
  BY DEF RevokeQueue, RevokeQueueFails, Tick, Crash, Start, ApplyKeyRotation
<1> QED BY <1>1, <1>2 DEF RemovalInv, FromCreator

(* What a peer learns of removals, by ticket or by snapshot, the creator   *)
(* knows already.                                                          *)
LEMMA RemovalInvLearn ==
  ASSUME OneOwner, KeyInv, RemovalInv, NEW p \in Peers,
         Join(p) \/ (\E ops \in snapshots : ApplyAuthOps(p, ops))
  PROVE  RemovalInv'
<1>1. UNCHANGED <<tickets, snapshots, minted, lockout>>
  BY DEF Join, ApplyAuthOps
<1>2. PICK log : /\ FromCreator(log)
                 /\ \/ Join(p) /\ auth' = [auth EXCEPT ![p] = log]
                    \/ ApplyAuthOps(p, log)
  BY DEF Join, RemovalInv
<1>3. Join(p) => p # Creator
  BY RotationAssumption DEF Join, KeyInv, OneSource, TypeOK, Keys
<1>4. \A m \in Peers : Remove(m) \in auth'[Creator] <=> Remove(m) \in auth[Creator]
  <2>1. auth \in [Peers -> SUBSET Op]
    BY DEF KeyInv, TypeOK
  <2>2. auth'[Creator] = auth[Creator] \/ auth'[Creator] = auth[Creator] \cup log
    BY <1>2, <1>3, <2>1, RotationAssumption DEF ApplyAuthOps
  <2>3. \A m \in Peers : Remove(m) \in log => Remove(m) \in auth[Creator]
    BY <1>2 DEF FromCreator
  <2> QED BY <2>2, <2>3
<1>5. \A q, m \in Peers : Remove(m) \in auth'[q] => Remove(m) \in auth[Creator]
  <2>1. \A q \in Peers : auth'[q] \subseteq auth[q] \cup log
    BY <1>2 DEF ApplyAuthOps, KeyInv, TypeOK
  <2> QED BY <1>2, <2>1 DEF FromCreator, RemovalInv
<1> QED BY <1>1, <1>4, <1>5 DEF RemovalInv, FromCreator

LEMMA RemovalInvInvite ==
  ASSUME OneOwner, KeyInv, RemovalInv, NEW p \in Peers, NEW m \in Peers, Invite(p, m)
  PROVE  RemovalInv'
<1> DEFINE log == auth[p] \cup {Add(m)}
<1>1. p = Creator
  BY OwnerIsCreator DEF Invite
<1>2. \A q \in Peers : Remove(q) \in log => Remove(q) \in auth[Creator]
  BY <1>1 DEF Remove, Add
<1>3. /\ auth' = [auth EXCEPT ![p] = log]
      /\ tickets' = tickets \cup {[invitee |-> m, keys |-> ring[p], auth_log |-> log]}
      /\ UNCHANGED <<pc, snapshots, minted, lockout>>
  BY DEF Invite
<1>4. auth[Creator] \subseteq log /\ auth'[Creator] = log
  BY <1>1, <1>3 DEF KeyInv, TypeOK
<1> HIDE DEF log
<1>5. \A q, n \in Peers : Remove(n) \in auth'[q] => Remove(n) \in auth[Creator]
  BY <1>1, <1>2, <1>3 DEF RemovalInv, FromCreator, KeyInv, TypeOK
<1>6. \A t \in tickets', n \in Peers : Remove(n) \in t.auth_log => Remove(n) \in auth[Creator]
  BY <1>2, <1>3 DEF RemovalInv, FromCreator
<1> QED BY <1>2, <1>3, <1>4, <1>5, <1>6 DEF RemovalInv, FromCreator

(* The creator alone removes, and locks the peer out of later keys.        *)
LEMMA RemovalInvRemove ==
  ASSUME OneOwner, KeyInv, RemovalInv, NEW p \in Peers, NEW m \in Peers, RevokeRemove(p, m)
  PROVE  RemovalInv'
<1>1. p = Creator
  BY OwnerIsCreator DEF RevokeRemove
<1>2. Remove(m) \notin auth[Creator]
  BY <1>1 DEF RevokeRemove, Members, Removed
<1>3. /\ minted \in Nat /\ minted < MaxKeys /\ MaxKeys \in Nat
      /\ lockout[m] \in 0..MaxKeys /\ ~(lockout[m] < MaxKeys)
  BY <1>2, RotationAssumption DEF RevokeRemove, KeyInv, TypeOK, Lockouts, Keys
<1>4. lockout'[m] = minted /\ \A q \in Peers : q # m => lockout'[q] = lockout[q]
  BY <1>3 DEF RevokeRemove, KeyInv, TypeOK
<1>5. auth' = [auth EXCEPT ![p] = @ \cup {Remove(m)}]
  BY <1>1 DEF RevokeRemove, KeyInv, TypeOK
<1>6. \A n \in Peers : n # m => Remove(n) # Remove(m)
  BY DEF Remove
<1>7. auth[Creator] \subseteq auth'[Creator] /\ \A q \in Peers : q # Creator => auth'[q] = auth[q]
  BY <1>1, <1>5 DEF KeyInv, TypeOK
<1>8. \A n \in Peers : n # m /\ Remove(n) \in auth'[Creator] => Remove(n) \in auth[Creator]
  BY <1>1, <1>5, <1>6 DEF KeyInv, TypeOK
<1>9. UNCHANGED <<tickets, snapshots, minted>>
  BY DEF RevokeRemove
<1>10. \A n \in Peers : Remove(n) \in auth'[Creator] => lockout'[n] <= minted
  BY <1>3, <1>4, <1>8 DEF RemovalInv
<1> QED BY <1>5, <1>7, <1>9, <1>10 DEF RemovalInv, FromCreator

LEMMA RemovalInvRotate ==
  ASSUME OneOwner, KeyInv, RemovalInv, NEW p \in Peers,
         RotateKey(p) \/ RotateKeyFails(p) \/ RevokeRotate(p) \/ RevokeRotateFails(p)
  PROVE  RemovalInv'
<1>1. UNCHANGED <<auth, tickets, snapshots, lockout>> /\ (minted' = minted + 1 \/ minted' = minted)
  BY RotateSteps DEF KeyInv, rotate_keyring
<1>2. minted \in Nat /\ \A m \in Peers : lockout[m] \in Nat
  BY RotationAssumption DEF KeyInv, TypeOK, Keys
<1>3. \A m \in Peers : Remove(m) \in auth[Creator] => lockout[m] <= minted'
  BY <1>1, <1>2 DEF RemovalInv
<1> QED BY <1>1, <1>3 DEF RemovalInv, FromCreator

(* With one owner every removal was the creator's.                         *)
LEMMA RemovalInvHolds == OneOwner /\ Spec => []RemovalInv
<1>1. Init => RemovalInv
  BY RemovalInvInit
<1> SUFFICES ASSUME OneOwner PROVE Spec => []RemovalInv
  OBVIOUS
<1>2. KeyInv /\ RemovalInv /\ [Next]_vars => RemovalInv'
  <2> SUFFICES ASSUME KeyInv, RemovalInv, [Next]_vars PROVE RemovalInv'
    OBVIOUS
  <2>1. CASE UNCHANGED vars
    BY <2>1 DEF vars, RemovalInv, FromCreator
  <2> QED BY <2>1, RemovalInvQuiet, RemovalInvLearn, RemovalInvInvite,
             RemovalInvRemove, RemovalInvRotate DEF Next
<1>3. OneOwner /\ Spec => []KeyInv
  BY KeyInvHolds
<1> QED BY <1>1, <1>2, <1>3, PTL DEF Spec

(* The steps that leave the creator's ring and what it has shut out alone. *)
LEMMA ShutInvQuiet ==
  ASSUME OneOwner, KeyInv, RemovalInv, ShutInv, NEW p \in Peers,
         \/ \E m \in Peers : Invite(p, m)
         \/ Join(p) \/ RevokeQueueFails(p) \/ Tick(p)
         \/ \E ops \in snapshots : ApplyAuthOps(p, ops)
         \/ \E r \in sent : ApplyKeyRotation(p, r)
  PROVE  ShutInv'
<1>1. UNCHANGED <<shut, lockout, minted>>
  BY DEF Invite, Join, RevokeQueueFails, Tick, ApplyAuthOps, ApplyKeyRotation
<1>2. Join(p) => p # Creator
  BY RotationAssumption DEF Join, KeyInv, OneSource, TypeOK, Keys
<1>3. \A r \in sent : ApplyKeyRotation(p, r) => p # Creator
  BY DEF ApplyKeyRotation, KeyInv, OneSource, OnTheWay, Genuine
<1>4. pc'[Creator] = "rotated" => pc[Creator] = "rotated"
  BY <1>2, RotationAssumption
  DEF Invite, Join, RevokeQueueFails, Error, Tick, ApplyAuthOps, ApplyKeyRotation, KeyInv, TypeOK
<1>5. ring'[Creator] = ring[Creator]
  <2>1. ASSUME NEW r \in sent, ApplyKeyRotation(p, r) PROVE ring'[Creator] = ring[Creator]
    <3>1. ring' = ring \/ ring' = [ring EXCEPT ![p] = keys'[p]]
      BY <2>1 DEF ApplyKeyRotation, Install, Buffer, reload_keyring
    <3>2. ring \in [Peers -> Seq(Keys)] /\ p # Creator
      BY <1>3, <2>1 DEF KeyInv, TypeOK
    <3> QED BY <3>1, <3>2, RotationAssumption
  <2>2. CASE Join(p)
    <3>1. PICK k : ring' = [ring EXCEPT ![p] = k]
      BY <2>2 DEF Join
    <3>2. DOMAIN ring = Peers /\ p # Creator
      BY <1>2, <2>2 DEF KeyInv, TypeOK
    <3> QED BY <3>1, <3>2, RotationAssumption
  <2>3. CASE ~Join(p) /\ ~\E r \in sent : ApplyKeyRotation(p, r)
    BY <2>3 DEF Invite, RevokeQueueFails, Tick, ApplyAuthOps
  <2> QED BY <2>1, <2>2, <2>3
<1>6. \A m \in Peers : Remove(m) \in auth'[Creator] <=> Remove(m) \in auth[Creator]
  <2>1. ASSUME NEW n \in Peers, Invite(p, n), NEW m \in Peers
        PROVE  Remove(m) \in auth'[Creator] <=> Remove(m) \in auth[Creator]
    BY <2>1, RotationAssumption DEF Invite, Remove, Add, KeyInv, TypeOK
  <2>2. ASSUME NEW ops \in snapshots, ApplyAuthOps(p, ops), NEW m \in Peers
        PROVE  Remove(m) \in auth'[Creator] <=> Remove(m) \in auth[Creator]
    <3>1. Remove(m) \in ops => Remove(m) \in auth[Creator]
      BY <2>2 DEF RemovalInv, FromCreator
    <3>2. auth' = [auth EXCEPT ![p] = auth[p] \cup ops] /\ auth \in [Peers -> SUBSET Op]
      BY <2>2 DEF ApplyAuthOps, KeyInv, TypeOK
    <3>3. auth'[Creator] = IF p = Creator THEN auth[Creator] \cup ops ELSE auth[Creator]
      BY <3>2, RotationAssumption
    <3> QED BY <3>1, <3>3
  <2>3. CASE Join(p)
    <3>1. PICK log : auth' = [auth EXCEPT ![p] = log]
      BY <2>3 DEF Join
    <3>2. DOMAIN auth = Peers /\ p # Creator
      BY <1>2, <2>3 DEF KeyInv, TypeOK
    <3> QED BY <3>1, <3>2, RotationAssumption
  <2>4. CASE RevokeQueueFails(p) \/ Tick(p) \/ \E r \in sent : ApplyKeyRotation(p, r)
    BY <2>4 DEF RevokeQueueFails, Tick, ApplyKeyRotation
  <2> QED BY <2>1, <2>2, <2>3, <2>4
<1> QED BY <1>1, <1>4, <1>5, <1>6 DEF ShutInv, Newer

(* A stop empties the ring, a start reads the newest key from keys.bin.    *)
LEMMA ShutInvRestart ==
  ASSUME KeyInv, ShutInv, NEW p \in Peers, Crash(p) \/ Start(p)
  PROVE  ShutInv'
<1>1. UNCHANGED <<shut, lockout, minted, auth>>
  BY DEF Crash, Start
<1>2. pc'[Creator] = "rotated" => pc[Creator] = "rotated"
  BY RotationAssumption DEF Crash, Start, KeyInv, TypeOK
<1>3. \/ ring'[Creator] = ring[Creator]
      \/ ring'[Creator] = <<>>
      \/ Len(ring'[Creator]) = minted
  BY RotationAssumption DEF Crash, Start, KeyInv, TypeOK, OneSource
<1>4. \A m \in Peers : Newer(m) => Newer(m)'
  BY <1>1, <1>3 DEF Newer
<1> QED BY <1>1, <1>2, <1>4 DEF ShutInv

(* Whom the creator removes was not shut out before.                       *)
LEMMA ShutInvRemove ==
  ASSUME OneOwner, KeyInv, ShutInv, NEW p \in Peers, NEW m \in Peers, RevokeRemove(p, m)
  PROVE  ShutInv'
<1>1. p = Creator /\ Remove(m) \notin auth[Creator]
  BY OwnerIsCreator DEF RevokeRemove, Members, Removed
<1>2. UNCHANGED <<shut, ring, minted>> /\ pc'[Creator] = "removed"
  BY <1>1 DEF RevokeRemove, KeyInv, TypeOK
<1>3. \A q \in Peers : q # m => lockout'[q] = lockout[q]
  BY DEF RevokeRemove, KeyInv, TypeOK
<1>4. auth[Creator] \subseteq auth'[Creator]
  BY <1>1 DEF RevokeRemove, KeyInv, TypeOK
<1>5. \A q \in Peers : q \in shut[Creator] => Remove(q) \in auth[Creator] /\ Newer(q)
  BY DEF ShutInv
<1>6. \A q \in Peers : q \in shut[Creator] => lockout'[q] = lockout[q]
  BY <1>1, <1>3, <1>5
<1> QED BY <1>2, <1>4, <1>5, <1>6 DEF ShutInv, Newer

(* A fresh key is newer than all that any removed peer may know.           *)
LEMMA ShutInvRotate ==
  ASSUME OneOwner, KeyInv, RemovalInv, ShutInv, NEW p \in Peers,
         RotateKey(p) \/ RotateKeyFails(p) \/ RevokeRotate(p) \/ RevokeRotateFails(p)
  PROVE  ShutInv'
<1>1. p = Creator
  BY DEF OneOwner, RotateKey, RotateKeyFails, RevokeRotate, RevokeRotateFails, KeyInv, OneSource
<1>2. UNCHANGED <<auth, lockout>>
  BY RotateSteps DEF KeyInv
<1>3. /\ minted \in Nat /\ (minted' = minted + 1 \/ minted' = minted)
      /\ \A m \in Peers : lockout[m] \in Nat
  <2>1. minted' = minted + 1 \/ minted' = minted
    BY RotateSteps DEF KeyInv, rotate_keyring
  <2>2. minted \in Nat /\ \A m \in Peers : lockout[m] \in Nat
    BY RotationAssumption DEF KeyInv, TypeOK, Keys
  <2> QED BY <2>1, <2>2
<1>4. CASE RotateKey(p) \/ RevokeRotate(p)
  <2>1. rotate_keyring(p) /\ reload_keyring(p)
    BY <1>4 DEF RotateKey, RevokeRotate
  <2>2. minted' = minted + 1 /\ ring'[Creator] = Append(keys[Creator], minted + 1)
    BY <1>1, <2>1 DEF rotate_keyring, reload_keyring, KeyInv, TypeOK
  <2>3. keys[Creator] \in Seq(Keys) /\ Len(keys[Creator]) = minted
    BY RotationAssumption DEF KeyInv, TypeOK, OneSource
  <2>4. Len(ring'[Creator]) = minted + 1
    BY <2>2, <2>3
  <2>5. \A m \in Peers : Remove(m) \in auth[Creator] => Newer(m)'
    BY <1>2, <1>3, <2>2, <2>4 DEF Newer, RemovalInv
  <2>6. \A q \in Peers : shut'[q] \subseteq (IF q = Creator THEN shut[q] \cup Removed(auth[q]) ELSE shut[q])
    BY <1>1, <1>4 DEF RotateKey, RevokeRotate, ShutOut, KeyInv, TypeOK
  <2>7. \A m \in Peers : m \in shut'[Creator] => Remove(m) \in auth[Creator]
    BY <2>6, RotationAssumption DEF ShutInv, Removed
  <2>8. \A q \in Peers : q # Creator => shut'[q] = {}
    BY <2>6 DEF ShutInv
  <2> QED BY <1>2, <2>5, <2>7, <2>8 DEF ShutInv
<1>5. CASE RotateKeyFails(p) \/ RevokeRotateFails(p)
  <2>1. UNCHANGED <<ring, shut>> /\ pc'[Creator] = "idle"
    BY <1>1, <1>5 DEF RotateKeyFails, RevokeRotateFails, Error, KeyInv, TypeOK
  <2>2. \A m \in Peers : Newer(m) => Newer(m)'
    BY <1>2, <1>3, <2>1 DEF Newer
  <2> QED BY <1>2, <2>1, <2>2 DEF ShutInv
<1> QED BY <1>4, <1>5

(* Ok is returned only after the rotation.                                 *)
LEMMA ShutInvQueue ==
  ASSUME KeyInv, ShutInv, NEW p \in Peers, RevokeQueue(p)
  PROVE  ShutInv'
<1>1. p = Creator /\ pc[Creator] = "rotated"
  BY DEF RevokeQueue, KeyInv, OneSource
<1>2. UNCHANGED <<ring, auth, lockout, minted>> /\ pc'[Creator] = "idle"
  BY <1>1 DEF RevokeQueue, KeyInv, TypeOK
<1>3. shut' = [shut EXCEPT ![Creator] = shut[Creator] \cup Removed(auth[Creator])]
  BY <1>1 DEF RevokeQueue, ShutOut
<1>4. \A m \in Peers : Remove(m) \in auth[Creator] => Newer(m)
  BY <1>1 DEF ShutInv
<1>5. \A m \in Peers : m \in shut'[Creator] => Remove(m) \in auth[Creator]
  BY <1>3, RotationAssumption DEF KeyInv, TypeOK, ShutInv, Removed
<1>6. \A q \in Peers : q # Creator => shut'[q] = {}
  BY <1>3 DEF KeyInv, TypeOK, ShutInv
<1> QED BY <1>2, <1>4, <1>5, <1>6 DEF ShutInv, Newer

(* The creator's ring is ahead of everybody it has shut out.               *)
LEMMA ShutInvHolds == OneOwner /\ Spec => []ShutInv
<1>1. Init => ShutInv
  BY RotationAssumption DEF Init, ShutInv
<1> SUFFICES ASSUME OneOwner PROVE Spec => []ShutInv
  OBVIOUS
<1>2. KeyInv /\ RemovalInv /\ ShutInv /\ [Next]_vars => ShutInv'
  <2> SUFFICES ASSUME KeyInv, RemovalInv, ShutInv, [Next]_vars PROVE ShutInv'
    OBVIOUS
  <2>1. CASE UNCHANGED vars
    BY <2>1 DEF vars, ShutInv, Newer
  <2> QED BY <2>1, ShutInvQuiet, ShutInvRestart, ShutInvRemove, ShutInvRotate,
             ShutInvQueue DEF Next
<1>3. OneOwner /\ Spec => [](KeyInv /\ RemovalInv)
  BY KeyInvHolds, RemovalInvHolds, PTL
<1> QED BY <1>1, <1>2, <1>3, PTL DEF Spec

(* In a share with one owner, once handle_revoke (or handle_rotate_key)    *)
(* has returned Ok, no peer removed until then ever holds the key that the *)
(* owner encrypts with: whatever daemons stop, whatever later handlers     *)
(* fail halfway, and whichever earlier, buffered or unused message reaches *)
(* the removed peer.                                                       *)
THEOREM RevocationTakesEffect == OneOwner /\ Spec => []RevocationRotates
<1>1. KeyInv /\ ShutInv => RevocationRotates
  <2> SUFFICES ASSUME KeyInv, ShutInv, NEW p \in Peers, ring[p] # <<>>,
                      NEW m \in shut[p], NEW i \in 1..Len(keys[m])
               PROVE  keys[m][i] # ring[p][Len(ring[p])]
    BY DEF RevocationRotates
  <2>1. p = Creator /\ m \in Peers
    BY DEF ShutInv, KeyInv, TypeOK
  <2>2. lockout[m] < Len(ring[p]) /\ lockout[m] \in Nat
    BY <2>1, RotationAssumption DEF ShutInv, Newer, KeyInv, TypeOK
  <2>3. ring[p] \in Seq(Keys) /\ Numbered(ring[p])
    BY DEF KeyInv, TypeOK, OneSource
  <2>4. ring[p][Len(ring[p])] = Len(ring[p])
    BY <2>2, <2>3 DEF Numbered
  <2>5. keys[m] \in Seq(Keys) /\ keys[m][i] = i /\ Len(keys[m]) <= lockout[m]
    BY <2>1 DEF KeyInv, TypeOK, OneSource, Numbered, Lockouts
  <2> QED BY <2>2, <2>3, <2>4, <2>5
<1> QED BY <1>1, KeyInvHolds, ShutInvHolds, PTL
=============================================================================

-------------------------- MODULE FolderSyncProofs --------------------------
(***************************************************************************)
(* Proofs about FolderSync, for any number of peers, files, versions and   *)
(* stops of the daemon: it implements the version protocol of VersionSync, *)
(* step by step, and so inherits what is proved there; and the torrents it *)
(* announces hold the versions they are announced for, as long as users    *)
(* leave a folder alone between its hash and its ciphertext.               *)
(***************************************************************************)
EXTENDS FolderSync, ShareVersionProofs, FiniteSetTheorems

\* The stages of apply_remote_sync.
Applying == {"resolve", "fetch", "write"}

Ver == Version(VHashes, Nat)
Ciphertext == [Paths -> Blob]
Pcs == {"down", "start", "idle", "snap", "resolve", "fetch", "write"}
Events == {"none", "queued", "settling"}

\* Types of what TypeOK leaves open: every announce carries a version with a
\* clock that counts something, and the info-hash of a torrent that exists.
Typed ==
  /\ TypeOK
  /\ torrents \in Seq(Ciphertext)
  /\ \A m \in announced : m.ih \in 1..Len(torrents) /\ Abstract(m) \in Ver

LEMMA Constants ==
  /\ {NumPaths, NumContents, MaxEdits, MaxVersions, MaxTorrents, MaxEpoch, MaxCrashes} \subseteq Nat
  /\ MaxEpoch >= 1
  /\ NoState \notin Ver
  /\ VHashes \subseteq Nat
<1>1. VHashes \subseteq Nat
  BY FolderAssumption DEF VHashes, VHash
<1>2. Ver \subseteq Version(Nat, Nat)
  BY <1>1 DEF Ver, Version
<1> QED BY <1>1, <1>2, FolderAssumption

LEMMA HashType ==
  ASSUME NEW d \in Folder
  PROVE  VHash(d) \in VHashes
BY DEF VHashes

LEMMA EmptyFolders ==
  NoFiles \in Folder /\ NoBlob \in Blob /\ NoBlobs \in Ciphertext /\ Torn \in Blob
BY Constants DEF NoFiles, Folder, NoBlob, Blob, NoBlobs, Ciphertext, Torn

LEMMA VersionFields ==
  ASSUME NEW s \in Ver
  PROVE  s.vhash \in VHashes /\ s.clock \in Clocks /\ s.clock # ZeroClock /\ s.ts \in Nat
BY DEF Ver, Version

LEMMA ClockOfType ==
  ASSUME NEW s \in Ver \cup {NoState}
  PROVE  ClockOf(s) \in Clocks
BY ZeroIsClock, VersionFields DEF ClockOf

(* An announce of a version says of it what it is.                         *)
LEMMA AnnouncementOf ==
  ASSUME NEW p \in Peers, NEW s \in Ver, NEW ih \in Nat
  PROVE  /\ Announcement(p, s, ih) \in Announce
         /\ Announcement(p, s, ih).ih = ih
         /\ Announcement(p, s, ih).vhash = s.vhash
         /\ Announcement(p, s, ih).ts = s.ts
         /\ Abstract(Announcement(p, s, ih)) = s
<1>1. s = [vhash |-> s.vhash, clock |-> s.clock, ts |-> s.ts]
  BY DEF Ver, Version
<1> QED BY <1>1, VersionFields DEF Announcement, Abstract, Announce

LEMMA EditedType ==
  ASSUME NEW s \in Ver \cup {NoState}, NEW p \in Peers, NEW d \in Folder, NEW t \in Nat
  PROVE  Edited(s, p, VHash(d), t) \in Ver /\ Edited(s, p, VHash(d), t).ts = t
<1>1. ClockOf(s)[p] \in Nat
  BY ClockOfType DEF Clocks
<1>2. increment(ClockOf(s), p) \in Clocks /\ increment(ClockOf(s), p)[p] # 0
  BY <1>1, ClockOfType, IncrementClock
<1>3. increment(ClockOf(s), p) # ZeroClock
  BY <1>2, ZeroIsClock
<1> QED BY <1>2, <1>3, HashType DEF Edited, Ver, Version

LEMMA AdoptedType ==
  ASSUME NEW s \in Ver \cup {NoState}, NEW m, Abstract(m) \in Ver
  PROVE  /\ Adopted(s, m) \in Ver
         /\ Adopted(s, m).ts = m.ts /\ Adopted(s, m).vhash = m.vhash
<1>1. m.vhash \in VHashes /\ m.clock \in Clocks /\ m.clock # ZeroClock /\ m.ts \in Nat
  BY VersionFields DEF Abstract
<1>2. merge(ClockOf(s), m.clock) \in Clocks \ {ZeroClock}
  BY <1>1, ClockOfType, MergedNonZero
<1> QED BY <1>1, <1>2 DEF Adopted, Ver, Version

LEMMA LocalWinsType ==
  ASSUME NEW s \in Ver, NEW m, Abstract(m) \in Ver
  PROVE  /\ LocalWins(s, m) \in Ver
         /\ LocalWins(s, m).ts = s.ts /\ LocalWins(s, m).vhash = s.vhash
<1>1. m.clock \in Clocks /\ m.clock # ZeroClock
  BY VersionFields DEF Abstract
<1>2. merge(s.clock, m.clock) \in Clocks \ {ZeroClock}
  BY <1>1, VersionFields, MergedNonZero
<1>3. LocalWins(s, m) = [vhash |-> s.vhash, clock |-> merge(s.clock, m.clock), ts |-> s.ts]
  BY DEF LocalWins, Ver, Version
<1> QED BY <1>2, <1>3, VersionFields DEF Ver, Version

LEMMA EventsType ==
  ASSUME TypeOK, NEW p \in Peers
  PROVE  Notified(p) \in [Peers -> Events] /\ Cancelled(p) \in [Peers -> Events]
BY DEF TypeOK, Notified, Cancelled, Events

LEMMA EncryptedType ==
  ASSUME Typed, NEW p \in Peers
  PROVE  Encrypted(p) \in Ciphertext /\ EncryptedInPart(p) \in Ciphertext
<1>1. ASSUME NEW f \in Paths PROVE NewBlob(p, f) \in Blob /\ shadow[p][f] \in Blob
  <2>1. root[p][f] \in 0..NumContents /\ epoch[p] \in 0..MaxEpoch + 1 /\ Len(torrents) + 1 \in Nat
    BY Constants DEF Typed, TypeOK, Folder
  <2> QED BY <2>1 DEF NewBlob, Blob, Typed, TypeOK
<1> QED BY <1>1, EmptyFolders DEF Encrypted, EncryptedInPart, Ciphertext

LEMMA TypedInit ==
  ASSUME Init
  PROVE  Typed
<1>1. 1 \in 1..MaxEpoch /\ 0 \in 0..MaxVersions
  BY Constants
<1>2. torrents = <<>> /\ Len(torrents) = 0 /\ torrents \in Seq(Ciphertext)
  BY DEF Init
<1>3. TypeOK
  BY <1>1, <1>2, EmptyFolders DEF Init, TypeOK, Ciphertext
<1> QED BY <1>2, <1>3 DEF Init, Typed

-----------------------------------------------------------------------------
(***************************************************************************)
(* Types, action by action.                                                *)
(***************************************************************************)
LEMMA TypedUser ==
  ASSUME Typed, NEW p \in Peers, User(p)
  PROVE  Typed'
<1> USE DEF Typed
<1>1. ASSUME NEW f \in Paths, NEW c \in 0..NumContents, UserChange(p, f, c) PROVE Typed'
  <2>1. root' \in [Peers -> Folder]
    BY <1>1 DEF UserChange, TypeOK, Folder
  <2>2. events' \in [Peers -> Events]
    BY <1>1, EventsType DEF UserChange
  <2>3. meddled' \subseteq Peers
    BY <1>1 DEF UserChange, TypeOK
  <2> QED BY <1>1, <2>1, <2>2, <2>3 DEF UserChange, TypeOK, loop, job, Events
<1>2. CASE RootWiped(p)
  BY <1>2, EmptyFolders DEF RootWiped, TypeOK, loop, job, hist, Ciphertext
<1>3. Contents \subseteq 0..NumContents /\ 0 \in 0..NumContents
  BY Constants DEF Contents
<1> QED BY <1>1, <1>2, <1>3 DEF User, UserWrite, UserDelete

LEMMA TypedCrash ==
  ASSUME Typed, NEW p \in Peers, Crash(p)
  PROVE  Typed'
<1>1. 0 \in 0..Len(torrents)
  BY DEF Typed
<1>2. UNCHANGED <<root, dotdir, shadow, persisted, epoch, torrents, announced, now, meddled>>
  BY DEF Crash, disk
<1>3. state' \in [Peers -> Ver \cup {NoState}]
  BY DEF Crash, Typed, TypeOK, Ver
<1>4. tor' \in [Peers -> 0..Len(torrents)] /\ session' \in [Peers -> SUBSET (1..Len(torrents))]
  BY <1>1 DEF Crash, Typed, TypeOK
<1>5. snap' \in [Peers -> Folder] /\ msg' \in [Peers -> Announce \cup {NoState}]
  BY EmptyFolders DEF Crash, Typed, TypeOK
<1>6. manifest' \in [Peers -> SUBSET Paths] /\ todo' \in [Peers -> SUBSET Paths]
  BY DEF Crash, Typed, TypeOK
<1>7. pc' \in [Peers -> Pcs] /\ events' \in [Peers -> Events] /\ broken' \in [Peers -> SUBSET Nat]
  BY DEF Crash, Typed, TypeOK, Pcs, Events
<1> QED BY <1>2, <1>3, <1>4, <1>5, <1>6, <1>7 DEF Typed, TypeOK, Ver, Pcs, Events

(* Steps of the loop that install no version and create no torrent.        *)
LEMMA TypedLoop ==
  ASSUME Typed, NEW p \in Peers,
         NextEpoch(p) \/ StartEmpty(p) \/ StartSnapshot(p) \/ Settle(p) \/ LocalSnapshot(p)
  PROVE  Typed'
<1>1. UNCHANGED <<root, dotdir, shadow, persisted, state, manifest, tor, msg, todo, torrents,
                  announced, now, broken, meddled>>
  BY DEF NextEpoch, StartEmpty, StartSnapshot, Settle, LocalSnapshot, disk, loop, job, hist
<1>2. pc' \in [Peers -> Pcs]
  BY ZenonT(40) DEF Typed, TypeOK, Pcs, NextEpoch, StartEmpty, StartSnapshot, Settle, LocalSnapshot
<1>3. session' \in [Peers -> SUBSET (1..Len(torrents))]
  <2>1. session' \in {session, [session EXCEPT ![p] = {}], [session EXCEPT ![p] = session[p] \ {tor[p]}]}
    BY DEF NextEpoch, StartEmpty, StartSnapshot, Settle, LocalSnapshot
  <2> DEFINE Ids == 1..Len(torrents)
  <2>2. session \in [Peers -> SUBSET Ids]
    BY DEF Typed, TypeOK
  <2> HIDE DEF Ids
  <2>3. session' \in [Peers -> SUBSET Ids]
    BY <2>1, <2>2
  <2> QED BY <2>3 DEF Ids
<1>4. epoch' \in [Peers -> 1..MaxEpoch]
  <2>1. CASE NextEpoch(p)
    BY <2>1, Constants DEF Typed, TypeOK, NextEpoch
  <2> QED BY <2>1 DEF Typed, TypeOK, StartEmpty, StartSnapshot, Settle, LocalSnapshot
<1>5. events' \in [Peers -> Events]
  <2>1. CASE NextEpoch(p)
    BY <2>1, EventsType DEF Typed, NextEpoch
  <2> QED BY <2>1 DEF Typed, TypeOK, Events, StartEmpty, StartSnapshot, Settle, LocalSnapshot
<1>6. snap' \in [Peers -> Folder]
  <2>1. snap' = snap \/ snap' = [snap EXCEPT ![p] = root[p]]
    BY DEF NextEpoch, StartEmpty, StartSnapshot, Settle, LocalSnapshot, job
  <2> QED BY <2>1 DEF Typed, TypeOK
<1> QED BY <1>1, <1>2, <1>3, <1>4, <1>5, <1>6 DEF Typed, TypeOK, Pcs, Events

(* A snapshot that fails, at the start or in the loop.                     *)
LEMMA TypedFails ==
  ASSUME Typed, NEW p \in Peers, StartFails(p) \/ LocalChangeFails(p)
  PROVE  Typed'
<1>1. PICK persists : SnapshotFails(p, persists)
  BY DEF StartFails, LocalChangeFails
<1>2. UNCHANGED <<root, persisted, state, manifest, tor, epoch, events, msg, todo, announced, now,
                  broken, meddled>>
  BY <1>1 DEF SnapshotFails, loop, hist
<1>3. pc' \in [Peers -> Pcs]
  BY ZenonT(40) DEF Typed, TypeOK, Pcs, StartFails, LocalChangeFails
<1>4. dotdir' \in [Peers -> BOOLEAN] /\ snap' \in [Peers -> Folder]
  BY <1>1, EmptyFolders DEF SnapshotFails, Typed, TypeOK
<1>5. shadow' \in [Peers -> Ciphertext]
  <2>1. PICK new \in Ciphertext : shadow' = [shadow EXCEPT ![p] = new]
    BY <1>1, EncryptedType DEF SnapshotFails
  <2> QED BY <2>1 DEF Typed, TypeOK, Ciphertext
<1>6. /\ torrents' \in Seq(Ciphertext) /\ Len(torrents') \in Nat /\ Len(torrents) \in Nat
      /\ Len(torrents') >= Len(torrents)
      /\ session' \in [Peers -> SUBSET (1..Len(torrents'))]
  <2>1. CASE UNCHANGED <<torrents, session>>
    BY <2>1 DEF Typed, TypeOK
  <2>2. CASE AddShadowTorrent(p)
    <3>1. /\ torrents' \in Seq(Ciphertext) /\ Len(torrents') = Len(torrents) + 1
          /\ Len(torrents) \in Nat
      BY <2>2, EncryptedType DEF AddShadowTorrent, Typed
    <3>2. session' = [session EXCEPT ![p] = session[p] \cup {Len(torrents) + 1}]
      BY <2>2 DEF AddShadowTorrent
    <3>3. 1..Len(torrents) \subseteq 1..Len(torrents') /\ Len(torrents) + 1 \in 1..Len(torrents')
      BY <3>1
    <3> QED BY <3>1, <3>2, <3>3 DEF Typed, TypeOK
  <2> QED BY <1>1, <2>1, <2>2 DEF SnapshotFails
<1>7. tor' \in [Peers -> 0..Len(torrents')] /\ \A m \in announced : m.ih \in 1..Len(torrents')
  BY <1>2, <1>6 DEF Typed, TypeOK
<1> QED BY <1>2, <1>3, <1>4, <1>5, <1>6, <1>7 DEF Typed, TypeOK, Pcs, Ciphertext

(* Hearing an announce without applying it, and the steps of a fetch.      *)
LEMMA TypedReceive ==
  ASSUME Typed, NEW p \in Peers, NEW m \in announced, Ignore(p, m) \/ BeginFetch(p, m)
  PROVE  Typed'
<1> DEFINE Ids == 1..Len(torrents)
<1>1. UNCHANGED <<root, shadow, persisted, state, manifest, tor, epoch, snap, todo, torrents,
                  announced, now, broken, meddled>>
  BY DEF Ignore, BeginFetch, disk, loop, job, hist
<1>2. pc' \in [Peers -> Pcs] /\ dotdir' \in [Peers -> BOOLEAN]
  BY DEF Ignore, BeginFetch, Typed, TypeOK, Pcs, disk
<1>3. events' \in [Peers -> Events]
  BY EventsType DEF Ignore, BeginFetch, Typed
<1>4. msg' \in [Peers -> Announce \cup {NoState}]
  <2>1. msg' = msg \/ msg' = [msg EXCEPT ![p] = m]
    BY DEF Ignore, BeginFetch, job
  <2> QED BY <2>1 DEF Typed, TypeOK
<1>5. session' \in [Peers -> SUBSET Ids]
  <2>1. session' = session \/ session' = [session EXCEPT ![p] = session[p] \ {tor[p]}]
    BY DEF Ignore, BeginFetch
  <2>2. session \in [Peers -> SUBSET Ids]
    BY DEF Typed, TypeOK
  <2> HIDE DEF Ids
  <2> QED BY <2>1, <2>2
<1> QED BY <1>1, <1>2, <1>3, <1>4, <1>5 DEF Typed, TypeOK, Pcs, Events

LEMMA TypedAbandon ==
  ASSUME Typed, NEW p \in Peers,
         \/ Resolve(p) \/ ResolveFails(p) \/ FetchFailsAgain(p) \/ DecryptFails(p) \/ VerifyFails(p)
  PROVE  Typed'
<1>1. UNCHANGED <<root, dotdir, shadow, persisted, state, manifest, tor, session, epoch, events,
                  snap, torrents, announced, now, broken, meddled>>
  BY DEF Resolve, ResolveFails, FetchFailsAgain, DecryptFails, VerifyFails, Abandon, disk, loop,
         job, hist
<1>2. pc' \in [Peers -> Pcs]
  BY DEF Resolve, ResolveFails, FetchFailsAgain, DecryptFails, VerifyFails, Abandon, Typed, TypeOK,
         Pcs
<1>3. msg' = msg \/ msg' = [msg EXCEPT ![p] = NoState]
  BY DEF Resolve, ResolveFails, FetchFailsAgain, DecryptFails, VerifyFails, Abandon, job
<1>4. todo' = todo \/ todo' = [todo EXCEPT ![p] = {}]
  BY DEF Resolve, ResolveFails, FetchFailsAgain, DecryptFails, VerifyFails, Abandon, job
<1>5. msg' \in [Peers -> Announce \cup {NoState}] /\ todo' \in [Peers -> SUBSET Paths]
  BY <1>3, <1>4 DEF Typed, TypeOK
<1> QED BY <1>1, <1>2, <1>5 DEF Typed, TypeOK, Pcs

LEMMA TypedFetchFails ==
  ASSUME Typed, NEW p \in Peers, FetchFails(p), msg[p] \in announced
  PROVE  Typed'
<1> DEFINE t == torrents[msg[p].ih]
<1>1. msg[p].ih \in 1..Len(torrents) /\ t \in Ciphertext /\ shadow[p] \in Ciphertext
  BY DEF Typed, TypeOK, Ciphertext
<1>2. PICK got, torn \in SUBSET Blobs(t) :
        shadow' = [shadow EXCEPT ![p] =
          [f \in Paths |-> IF f \in torn THEN Torn ELSE IF f \in got THEN t[f] ELSE shadow[p][f]]]
  BY DEF FetchFails
<1>3. [f \in Paths |-> IF f \in torn THEN Torn ELSE IF f \in got THEN t[f] ELSE shadow[p][f]]
        \in Ciphertext
  BY <1>1, EmptyFolders DEF Ciphertext
<1>4. shadow' \in [Peers -> Ciphertext]
  BY <1>2, <1>3 DEF Typed, TypeOK, Ciphertext
<1>5. /\ broken' = [broken EXCEPT ![p] = broken[p] \cup {msg[p].ih}]
      /\ pc' = [pc EXCEPT ![p] = "idle"] /\ msg' = [msg EXCEPT ![p] = NoState]
      /\ todo' = [todo EXCEPT ![p] = {}]
      /\ UNCHANGED <<root, dotdir, persisted, state, manifest, tor, session, epoch, events, snap,
                     torrents, announced, now, meddled>>
  BY DEF FetchFails, Abandon, loop, hist
<1>6. msg[p].ih \in Nat
  BY <1>1 DEF Typed
<1>7. broken' \in [Peers -> SUBSET Nat]
  BY <1>5, <1>6 DEF Typed, TypeOK
<1>8. /\ pc' \in [Peers -> Pcs] /\ msg' \in [Peers -> Announce \cup {NoState}]
      /\ todo' \in [Peers -> SUBSET Paths]
  BY <1>5 DEF Typed, TypeOK, Pcs
<1> QED BY <1>4, <1>5, <1>7, <1>8 DEF Typed, TypeOK, Pcs, Ciphertext

LEMMA TypedFetchDone ==
  ASSUME Typed, NEW p \in Peers, FetchDone(p), msg[p] \in announced
  PROVE  Typed'
<1> DEFINE t == torrents[msg[p].ih]
           fetched == IF Held(p) THEN shadow[p]
                      ELSE [f \in Paths |-> IF f \in Blobs(t) THEN t[f] ELSE shadow[p][f]]
<1>1. msg[p].ih \in 1..Len(torrents) /\ t \in Ciphertext /\ shadow[p] \in Ciphertext
  BY DEF Typed, TypeOK, Ciphertext
<1>2. fetched \in Ciphertext
  BY <1>1 DEF Ciphertext
<1>3. Blobs(fetched) \in SUBSET Paths
  BY DEF Blobs
<1>4. /\ shadow' = [shadow EXCEPT ![p] = fetched]
      /\ todo' = [todo EXCEPT ![p] = Blobs(fetched)]
      /\ session' = [session EXCEPT ![p] = session[p] \cup {msg[p].ih}]
      /\ pc' = [pc EXCEPT ![p] = "write"]
      /\ UNCHANGED <<root, dotdir, persisted, state, manifest, tor, epoch, events, snap, msg,
                     torrents, announced, now, broken, meddled>>
  BY DEF FetchDone, loop, hist
<1> HIDE DEF fetched
<1>5. shadow' \in [Peers -> Ciphertext] /\ todo' \in [Peers -> SUBSET Paths]
  BY <1>2, <1>3, <1>4 DEF Typed, TypeOK, Ciphertext
<1>6. session' \in [Peers -> SUBSET (1..Len(torrents))] /\ pc' \in [Peers -> Pcs]
  BY <1>1, <1>4 DEF Typed, TypeOK, Pcs
<1> QED BY <1>4, <1>5, <1>6 DEF Typed, TypeOK, Pcs, Ciphertext

LEMMA TypedDecrypt ==
  ASSUME Typed, NEW p \in Peers, Decrypt(p)
  PROVE  Typed'
<1>1. PICK f \in todo[p] : /\ root' = [root EXCEPT ![p][f] = shadow[p][f].c]
                           /\ todo' = [todo EXCEPT ![p] = todo[p] \ {f}]
  BY DEF Decrypt
<1>2. f \in Paths /\ shadow[p][f].c \in 0..NumContents
  BY DEF Typed, TypeOK, Blob
<1>3. root' \in [Peers -> Folder]
  BY <1>1, <1>2 DEF Typed, TypeOK, Folder
<1>4. todo' \in [Peers -> SUBSET Paths]
  BY <1>1 DEF Typed, TypeOK
<1>5. events' \in [Peers -> Events]
  BY EventsType DEF Decrypt, Typed
<1>6. UNCHANGED <<dotdir, shadow, persisted, pc, state, manifest, tor, session, epoch, snap, msg,
                  torrents, announced, now, broken, meddled>>
  BY DEF Decrypt, loop, hist
<1> QED BY <1>3, <1>4, <1>5, <1>6 DEF Typed, TypeOK, Events

(* Announcing and installing a version whose torrent exists.               *)
LEMMA TypedInstall ==
  ASSUME Typed, NEW p \in Peers, NEW new \in Ver, NEW files \in SUBSET Paths,
         torrents' \in Seq(Ciphertext), Len(torrents) <= Len(torrents'),
         NEW ih \in 1..Len(torrents'), Install(p, new, files, ih)
  PROVE  /\ state' \in [Peers -> Ver \cup {NoState}]
         /\ manifest' \in [Peers -> SUBSET Paths]
         /\ tor' \in [Peers -> 0..Len(torrents')]
         /\ announced' \subseteq Announce
         /\ \A m \in announced' : m.ih \in 1..Len(torrents') /\ Abstract(m) \in Ver
<1>1. Len(torrents) \in Nat /\ Len(torrents') \in Nat /\ ih \in Nat /\ ih \in 0..Len(torrents')
  BY DEF Typed
<1>2. state' \in [Peers -> Ver \cup {NoState}] /\ manifest' \in [Peers -> SUBSET Paths]
  BY DEF Install, Typed, TypeOK, Ver
<1>3. tor' \in [Peers -> 0..Len(torrents')]
  <2>1. tor \in [Peers -> 0..Len(torrents')]
    BY <1>1 DEF Typed, TypeOK
  <2> QED BY <1>1, <2>1 DEF Install
<1>4. announced' = announced \cup {Announcement(p, new, ih)}
  BY DEF Install
<1>5. announced' \subseteq Announce
  BY <1>1, <1>4, AnnouncementOf DEF Typed, TypeOK
<1>6. ASSUME NEW m \in announced' PROVE m.ih \in 1..Len(torrents') /\ Abstract(m) \in Ver
  <2>1. CASE m \in announced
    BY <1>1, <2>1 DEF Typed
  <2>2. CASE m = Announcement(p, new, ih)
    BY <1>1, <2>2, AnnouncementOf
  <2> QED BY <1>4, <2>1, <2>2
<1> QED BY <1>2, <1>3, <1>5, <1>6

LEMMA PersistType ==
  ASSUME Typed, NEW p \in Peers, NEW new \in Ver, PersistOrWarn(p, new)
  PROVE  persisted' \in [Peers -> Ver \cup {NoState}]
BY DEF PersistOrWarn, Typed, TypeOK, Ver

LEMMA RepublishType ==
  ASSUME Typed, NEW p \in Peers, Republish(p)
  PROVE  /\ dotdir' \in [Peers -> BOOLEAN] /\ shadow' \in [Peers -> Ciphertext]
         /\ torrents' \in Seq(Ciphertext) /\ Len(torrents') = Len(torrents) + 1
         /\ Len(torrents) \in Nat
         /\ torrents'[Len(torrents) + 1] = Encrypted(p)
         /\ \A i \in 1..Len(torrents) : torrents'[i] = torrents[i]
         /\ session' \in [Peers -> SUBSET (1..Len(torrents'))]
         /\ pc' \in [Peers -> Pcs] /\ snap' \in [Peers -> Folder]
         /\ UNCHANGED <<root, epoch, events, msg, todo, edits, crashes, broken, meddled>>
<1>1. /\ torrents' = Append(torrents, Encrypted(p))
      /\ session' = [session EXCEPT ![p] = session[p] \cup {Len(torrents) + 1}]
  BY DEF Republish, AddShadowTorrent
<1>2. /\ torrents' \in Seq(Ciphertext) /\ Len(torrents') = Len(torrents) + 1
      /\ Len(torrents) \in Nat /\ torrents'[Len(torrents) + 1] = Encrypted(p)
      /\ \A i \in 1..Len(torrents) : torrents'[i] = torrents[i]
  BY <1>1, EncryptedType DEF Typed
<1>3. session' \in [Peers -> SUBSET (1..Len(torrents'))]
  <2>1. 1..Len(torrents) \subseteq 1..Len(torrents') /\ Len(torrents) + 1 \in 1..Len(torrents')
    BY <1>2
  <2> QED BY <1>1, <2>1 DEF Typed, TypeOK
<1>4. dotdir' \in [Peers -> BOOLEAN] /\ shadow' \in [Peers -> Ciphertext]
  BY EncryptedType DEF Republish, Typed, TypeOK, Ciphertext
<1>5. pc' \in [Peers -> Pcs] /\ snap' \in [Peers -> Folder]
  BY EmptyFolders DEF Republish, Typed, TypeOK, Pcs
<1> QED BY <1>2, <1>3, <1>4, <1>5 DEF Republish

\* What StartEdited and LocalChange have in common.
Publishes(p, base) == Republish(p) /\ NewVersion(p, base)

LEMMA TypedPublish ==
  ASSUME Typed, NEW p \in Peers, NEW base \in Ver \cup {NoState}, Publishes(p, base)
  PROVE  Typed'
<1> DEFINE new == Edited(base, p, VHash(snap[p]), now + 1)
<1>1. now \in Nat /\ now < MaxVersions /\ now' = now + 1 /\ snap[p] \in Folder
  BY Constants DEF Publishes, NewVersion, Typed, TypeOK
<1>2. new \in Ver
  BY <1>1, EditedType
<1>3. /\ persisted' = [persisted EXCEPT ![p] = new]
      /\ Install(p, new, Files(snap[p]), Len(torrents) + 1)
  BY DEF Publishes, NewVersion
<1> HIDE DEF new
<1>4. Files(snap[p]) \in SUBSET Paths
  BY DEF Files
<1>5. Republish(p)
  BY DEF Publishes
<1>6. Len(torrents) + 1 \in 1..Len(torrents') /\ Len(torrents) <= Len(torrents')
  BY <1>5, RepublishType
<1>7. persisted' \in [Peers -> Ver \cup {NoState}]
  BY <1>2, <1>3 DEF Typed, TypeOK, Ver
<1>8. now' \in 0..MaxVersions
  BY <1>1, Constants
<1> QED BY <1>2, <1>3, <1>4, <1>5, <1>6, <1>7, <1>8, RepublishType, TypedInstall
        DEF Typed, TypeOK, Pcs, Ver, Ciphertext

LEMMA TypedResumed ==
  ASSUME Typed, NEW p \in Peers, StartResumed(p)
  PROVE  Typed'
<1>1. /\ Republish(p) /\ Install(p, persisted[p], Files(snap[p]), Len(torrents) + 1)
      /\ UNCHANGED <<persisted, now>>
  BY DEF StartResumed
<1>2. persisted[p] \in Ver
  BY DEF StartResumed, Resumes, Typed, TypeOK, Ver
<1>3. Files(snap[p]) \in SUBSET Paths
  BY DEF Files
<1>4. Len(torrents) + 1 \in 1..Len(torrents') /\ Len(torrents) <= Len(torrents')
  BY <1>1, RepublishType
<1> QED BY <1>1, <1>2, <1>3, <1>4, RepublishType, TypedInstall DEF Typed, TypeOK, Pcs, Ver, Ciphertext

LEMMA TypedKeepLocal ==
  ASSUME Typed, NEW p \in Peers, NEW m \in announced, KeepLocal(p, m), tor[p] # 0
  PROVE  Typed'
<1> DEFINE new == LocalWins(state[p], m)
<1>1. state[p] \in Ver /\ Abstract(m) \in Ver
  BY DEF KeepLocal, KeepsLocal, Typed, TypeOK, Ver
<1>2. new \in Ver
  BY <1>1, LocalWinsType
<1>3. /\ Install(p, new, manifest[p], tor[p]) /\ PersistOrWarn(p, new)
      /\ events' = Cancelled(p)
      /\ UNCHANGED <<root, dotdir, shadow, pc, session, epoch, snap, msg, todo, torrents, now,
                     broken, meddled>>
  BY DEF KeepLocal, job, hist
<1> HIDE DEF new
<1>4. manifest[p] \in SUBSET Paths /\ tor[p] \in 1..Len(torrents) /\ Len(torrents) <= Len(torrents)
  BY DEF Typed, TypeOK
<1>5. events' \in [Peers -> Events] /\ persisted' \in [Peers -> Ver \cup {NoState}]
  BY <1>2, <1>3, EventsType, PersistType DEF Typed
<1>6. torrents' \in Seq(Ciphertext) /\ Len(torrents) <= Len(torrents') /\ tor[p] \in 1..Len(torrents')
  BY <1>3, <1>4 DEF Typed
<1> QED BY <1>2, <1>3, <1>4, <1>5, <1>6, TypedInstall DEF Typed, TypeOK, Events, Ver

LEMMA TypedCommit ==
  ASSUME Typed, NEW p \in Peers, Commit(p), msg[p] \in announced
  PROVE  Typed'
<1> DEFINE new == Adopted(state[p], msg[p])
           files == Blobs(shadow[p])
<1>1. /\ state[p] \in Ver \cup {NoState} /\ Abstract(msg[p]) \in Ver
      /\ msg[p].ih \in 1..Len(torrents)
  BY DEF Typed, TypeOK, Ver
<1>2. new \in Ver /\ files \in SUBSET Paths
  BY <1>1, AdoptedType DEF Blobs
<1>3. /\ Install(p, new, files, msg[p].ih) /\ PersistOrWarn(p, new)
      /\ root' = [root EXCEPT ![p] = [f \in Paths |-> IF f \in manifest[p] \ files THEN 0 ELSE root[p][f]]]
      /\ pc' = [pc EXCEPT ![p] = "idle"]
      /\ msg' = [msg EXCEPT ![p] = NoState]
      /\ UNCHANGED <<dotdir, shadow, session, epoch, events, snap, todo, torrents, now, broken,
                     meddled>>
  BY DEF Commit, hist
<1> HIDE DEF new, files
<1>4. root' \in [Peers -> Folder]
  <2>1. [f \in Paths |-> IF f \in manifest[p] \ files THEN 0 ELSE root[p][f]] \in Folder
    BY Constants DEF Typed, TypeOK, Folder
  <2> QED BY <1>3, <2>1 DEF Typed, TypeOK
<1>5. pc' \in [Peers -> Pcs] /\ msg' \in [Peers -> Announce \cup {NoState}]
  BY <1>3 DEF Typed, TypeOK, Pcs
<1>6. torrents' \in Seq(Ciphertext) /\ Len(torrents) <= Len(torrents') /\ msg[p].ih \in 1..Len(torrents')
  BY <1>1, <1>3 DEF Typed
<1>7. persisted' \in [Peers -> Ver \cup {NoState}]
  BY <1>2, <1>3, PersistType
<1> QED BY <1>2, <1>3, <1>4, <1>5, <1>6, <1>7, TypedInstall DEF Typed, TypeOK, Pcs, Ver

LEMMA TypedTick ==
  ASSUME Typed, NEW p \in Peers, Tick(p),
         state[p] # NoState => Announcement(p, state[p], tor[p]) \in announced
  PROVE  Typed'
<1>1. announced' = announced
  BY DEF Tick
<1>2. events' \in [Peers -> Events]
  BY EventsType DEF Tick, Typed
<1> QED BY <1>1, <1>2 DEF Tick, Typed, TypeOK, Events, disk, loop, job, hist

-----------------------------------------------------------------------------
(***************************************************************************)
(* The inductive invariant.  Types are not inductive by themselves: that a *)
(* fetched torrent exists follows from the announce being a real one.      *)
(***************************************************************************)
\* Nothing is stamped later than now, and now counts the versions.
StampInv ==
  /\ IsFiniteSet(born) /\ Cardinality(born) <= now
  /\ \A m \in announced : m.ts <= now
  /\ \A p \in Peers : persisted[p] # NoState => persisted[p].ts <= now

\* The version and the torrent that the loop holds have been announced.
Known(p) == state[p] # NoState => Announcement(p, state[p], tor[p]) \in announced

\* What sync_loop checked before an await still holds after it.
JobOK(p) ==
  /\ pc[p] \in Applying => msg[p] \in announced /\ Fetches(state[p], msg[p])
  /\ pc[p] = "snap" /\ state[p] # NoState => state[p].vhash # VHash(snap[p])

\* A peer with a version has a .peerdup, unless its root was wiped.
DotOK(p) ==
  persisted[p] # NoState \/ state[p] # NoState \/ pc[p] \in Applying => dotdir[p] \/ MayWipe

LoopInv ==
  /\ Typed
  /\ StampInv
  /\ \A p \in Peers : Known(p) /\ JobOK(p) /\ DotOK(p)

LEMMA KnownFacts ==
  ASSUME LoopInv, NEW p \in Peers, state[p] # NoState
  PROVE  /\ state[p] \in Ver /\ state[p].ts <= now
         /\ tor[p] \in 1..Len(torrents)
         /\ \E m \in announced : Abstract(m) = state[p]
<1>1. state[p] \in Ver /\ tor[p] \in Nat
  BY DEF LoopInv, Typed, TypeOK, Ver
<1>2. Announcement(p, state[p], tor[p]) \in announced
  BY DEF LoopInv, Known
<1> QED BY <1>1, <1>2, AnnouncementOf DEF LoopInv, StampInv, Typed

LEMMA LoopInvInit ==
  ASSUME Init
  PROVE  LoopInv
<1>1. Typed
  BY TypedInit
<1>2. IsFiniteSet({}) /\ Cardinality({}) = 0
  BY FS_EmptySet
<1>3. StampInv
  BY <1>2 DEF Init, StampInv
<1>4. \A p \in Peers : Known(p) /\ JobOK(p) /\ DotOK(p)
  BY DEF Init, Known, JobOK, DotOK, Applying
<1> QED BY <1>1, <1>3, <1>4 DEF LoopInv

(* A step of p that installs nothing.                                      *)
LEMMA CalmStep ==
  ASSUME LoopInv, Typed', NEW p \in Peers,
         UNCHANGED <<persisted, announced, now, born, state, tor>>,
         \A q \in Peers : q # p =>
           pc'[q] = pc[q] /\ msg'[q] = msg[q] /\ snap'[q] = snap[q] /\ dotdir'[q] = dotdir[q],
         JobOK(p)', DotOK(p)'
  PROVE  LoopInv'
<1>1. StampInv'
  BY DEF LoopInv, StampInv
<1>2. ASSUME NEW q \in Peers PROVE Known(q)'
  BY DEF LoopInv, Known, Announcement
<1>3. ASSUME NEW q \in Peers, q # p PROVE JobOK(q)' /\ DotOK(q)'
  <2>1. JobOK(q) /\ DotOK(q)
    BY DEF LoopInv
  <2> QED BY <1>3, <2>1 DEF JobOK, DotOK, Fetches, Ignores, KeepsLocal
<1> QED BY <1>1, <1>2, <1>3 DEF LoopInv

LEMMA LoopInvUser ==
  ASSUME LoopInv, NEW p \in Peers, User(p)
  PROVE  LoopInv'
<1>1. Typed'
  BY TypedUser DEF LoopInv
<1>2. UNCHANGED <<persisted, announced, now, born, state, tor, pc, msg, snap>>
  BY DEF User, UserWrite, UserDelete, UserChange, RootWiped, loop, job, hist
<1>3. dotdir' = dotdir \/ (MayWipe /\ dotdir' = [dotdir EXCEPT ![p] = FALSE])
  BY DEF User, UserWrite, UserDelete, UserChange, RootWiped
<1>4. \A q \in Peers : q # p => dotdir'[q] = dotdir[q]
  BY <1>3 DEF LoopInv, Typed, TypeOK
<1>5. JobOK(p)' /\ DotOK(p)'
  BY <1>2, <1>3 DEF LoopInv, JobOK, DotOK, Fetches, Ignores, KeepsLocal
<1> QED BY <1>1, <1>2, <1>4, <1>5, CalmStep

LEMMA LoopInvLoop ==
  ASSUME LoopInv, NEW p \in Peers,
         NextEpoch(p) \/ StartEmpty(p) \/ StartSnapshot(p) \/ Settle(p) \/ LocalSnapshot(p)
  PROVE  LoopInv'
<1>1. Typed'
  BY TypedLoop DEF LoopInv
<1>2. UNCHANGED <<persisted, announced, now, born, state, tor, msg, dotdir>>
  BY DEF NextEpoch, StartEmpty, StartSnapshot, Settle, LocalSnapshot, disk, loop, job, hist
<1>3. \A q \in Peers : q # p => pc'[q] = pc[q] /\ snap'[q] = snap[q]
  BY DEF LoopInv, Typed, TypeOK, NextEpoch, StartEmpty, StartSnapshot, Settle, LocalSnapshot, job
<1>4. pc'[p] \notin Applying /\ (pc'[p] = "snap" => ~Unchanged(p) /\ snap'[p] = root[p])
  BY DEF LoopInv, Typed, TypeOK, NextEpoch, StartEmpty, StartSnapshot, Settle, LocalSnapshot, Applying
<1>5. JobOK(p)' /\ DotOK(p)'
  BY <1>2, <1>4 DEF LoopInv, JobOK, DotOK, Unchanged, VHash
<1> QED BY <1>1, <1>2, <1>3, <1>5, CalmStep

LEMMA LoopInvFails ==
  ASSUME LoopInv, NEW p \in Peers, StartFails(p) \/ LocalChangeFails(p)
  PROVE  LoopInv'
<1>1. Typed'
  BY TypedFails DEF LoopInv
<1>2. UNCHANGED <<persisted, announced, now, born, state, tor, msg>>
  BY DEF StartFails, LocalChangeFails, SnapshotFails, loop, hist
<1>3. /\ pc' \in {[pc EXCEPT ![p] = "down"], [pc EXCEPT ![p] = "idle"]}
      /\ snap' = [snap EXCEPT ![p] = NoFiles] /\ dotdir' = [dotdir EXCEPT ![p] = TRUE]
  BY DEF StartFails, LocalChangeFails, SnapshotFails
<1>4. \A q \in Peers : q # p => pc'[q] = pc[q] /\ snap'[q] = snap[q] /\ dotdir'[q] = dotdir[q]
  BY <1>3 DEF LoopInv, Typed, TypeOK
<1>5. pc'[p] \in {"down", "idle"} /\ dotdir'[p]
  BY <1>3 DEF LoopInv, Typed, TypeOK
<1>6. JobOK(p)' /\ DotOK(p)'
  BY <1>5 DEF JobOK, DotOK, Applying
<1> QED BY <1>1, <1>2, <1>4, <1>6, CalmStep

LEMMA LoopInvReceive ==
  ASSUME LoopInv, NEW p \in Peers, NEW m \in announced, Ignore(p, m) \/ BeginFetch(p, m)
  PROVE  LoopInv'
<1>1. Typed'
  BY TypedReceive DEF LoopInv
<1>2. UNCHANGED <<persisted, announced, now, born, state, tor, snap>>
  BY DEF Ignore, BeginFetch, disk, loop, job, hist
<1>3. CASE Ignore(p, m)
  <2>1. UNCHANGED <<pc, msg, dotdir>>
    BY <1>3 DEF Ignore, disk, job
  <2>2. JobOK(p)' /\ DotOK(p)'
    BY <1>2, <2>1 DEF LoopInv, JobOK, DotOK, Fetches, Ignores, KeepsLocal
  <2> QED BY <1>1, <1>2, <2>1, <2>2, CalmStep
<1>4. CASE BeginFetch(p, m)
  <2>1. /\ pc' = [pc EXCEPT ![p] = "resolve"] /\ msg' = [msg EXCEPT ![p] = m]
        /\ dotdir' = [dotdir EXCEPT ![p] = TRUE] /\ Fetches(state[p], m)
    BY <1>4 DEF BeginFetch
  <2>2. \A q \in Peers : q # p => pc'[q] = pc[q] /\ msg'[q] = msg[q] /\ dotdir'[q] = dotdir[q]
    BY <2>1 DEF LoopInv, Typed, TypeOK
  <2>3. pc'[p] = "resolve" /\ msg'[p] = m /\ dotdir'[p]
    BY <2>1 DEF LoopInv, Typed, TypeOK
  <2>4. JobOK(p)' /\ DotOK(p)'
    BY <1>2, <2>1, <2>3 DEF JobOK, DotOK, Fetches, Ignores, KeepsLocal
  <2> QED BY <1>1, <1>2, <2>2, <2>4, CalmStep
<1> QED BY <1>3, <1>4

LEMMA LoopInvApply ==
  ASSUME LoopInv, NEW p \in Peers,
         \/ Resolve(p) \/ ResolveFails(p) \/ DecryptFails(p) \/ VerifyFails(p)
         \/ FetchDone(p) \/ FetchFails(p) \/ FetchFailsAgain(p) \/ Decrypt(p)
  PROVE  LoopInv'
<1>1. pc[p] \in Applying /\ msg[p] \in announced /\ Fetches(state[p], msg[p])
  <2>1. pc[p] \in Applying
    BY DEF Resolve, ResolveFails, DecryptFails, VerifyFails, FetchDone, FetchFails,
           FetchFailsAgain, Decrypt, Applying
  <2> QED BY <2>1 DEF LoopInv, JobOK
<1>2. Typed'
  BY <1>1, TypedAbandon, TypedFetchDone, TypedFetchFails, TypedDecrypt DEF LoopInv
<1>3. UNCHANGED <<persisted, announced, now, born, state, tor, snap, dotdir>>
  BY DEF Resolve, ResolveFails, DecryptFails, VerifyFails, FetchDone, FetchFails, FetchFailsAgain,
         Decrypt, Abandon, disk, loop, job, hist
<1>4. pc' = pc \/ \E x \in {"idle", "fetch", "write"} : pc' = [pc EXCEPT ![p] = x]
  BY DEF Resolve, ResolveFails, DecryptFails, VerifyFails, FetchDone, FetchFails, FetchFailsAgain,
         Decrypt, Abandon
<1>5. msg' = msg \/ (msg' = [msg EXCEPT ![p] = NoState] /\ pc' = [pc EXCEPT ![p] = "idle"])
  BY DEF Resolve, ResolveFails, DecryptFails, VerifyFails, FetchDone, FetchFails, FetchFailsAgain,
         Decrypt, Abandon, job
<1>6. \A q \in Peers : q # p => pc'[q] = pc[q] /\ msg'[q] = msg[q]
  BY <1>4, <1>5 DEF LoopInv, Typed, TypeOK
<1>7. pc'[p] \in Applying \cup {"idle"} /\ (pc'[p] \in Applying => msg'[p] = msg[p])
  BY <1>1, <1>4, <1>5 DEF LoopInv, Typed, TypeOK, Applying
<1>8. JobOK(p)' /\ DotOK(p)'
  BY <1>1, <1>3, <1>7 DEF LoopInv, JobOK, DotOK, Fetches, Ignores, KeepsLocal, Applying
<1> QED BY <1>2, <1>3, <1>6, <1>8, CalmStep

LEMMA LoopInvTick ==
  ASSUME LoopInv, NEW p \in Peers, Tick(p)
  PROVE  LoopInv' /\ announced' = announced
<1>1. announced' = announced
  BY DEF Tick, LoopInv, Known
<1>2. Typed'
  BY TypedTick DEF LoopInv, Known
<1>3. UNCHANGED <<persisted, now, born, state, tor, snap, dotdir, pc, msg>>
  BY DEF Tick, disk, loop, job, hist
<1>4. JobOK(p)' /\ DotOK(p)'
  BY <1>1, <1>3 DEF LoopInv, JobOK, DotOK, Fetches, Ignores, KeepsLocal
<1> QED BY <1>1, <1>2, <1>3, <1>4, CalmStep

(* A step of p that installs a version and ends up in the loop.            *)
LEMMA InstallStep ==
  ASSUME LoopInv, Typed', NEW p \in Peers, NEW new \in Ver, NEW files, NEW ih \in Nat,
         Install(p, new, files, ih),
         now' \in Nat, now <= now', new.ts <= now',
         IsFiniteSet(born'), Cardinality(born') <= now',
         \A q \in Peers : q # p =>
           /\ pc'[q] = pc[q] /\ msg'[q] = msg[q] /\ snap'[q] = snap[q] /\ dotdir'[q] = dotdir[q]
           /\ persisted'[q] = persisted[q],
         persisted'[p] \in {persisted[p], new}, pc'[p] = "idle", dotdir'[p] \/ MayWipe
  PROVE  LoopInv'
<1>1. /\ announced' = announced \cup {Announcement(p, new, ih)}
      /\ state'[p] = new /\ tor'[p] = ih
      /\ \A q \in Peers : q # p => state'[q] = state[q] /\ tor'[q] = tor[q]
  BY DEF Install, LoopInv, Typed, TypeOK
<1>2. now \in Nat
  BY Constants DEF LoopInv, Typed, TypeOK
<1>3. \A m \in announced' : m.ts <= now'
  <2>1. \A m \in announced : m.ts \in Nat /\ m.ts <= now
    BY DEF LoopInv, Typed, TypeOK, Announce, StampInv
  <2>2. Announcement(p, new, ih).ts = new.ts
    BY AnnouncementOf
  <2> QED BY <1>1, <1>2, <2>1, <2>2
<1>4. ASSUME NEW q \in Peers, persisted'[q] # NoState PROVE persisted'[q].ts <= now'
  <2>1. CASE persisted'[q] = persisted[q]
    <3>1. persisted[q] \in Ver /\ persisted[q].ts <= now
      BY <1>4, <2>1 DEF LoopInv, Typed, TypeOK, Ver, StampInv
    <3> QED BY <1>2, <2>1, <3>1, VersionFields
  <2>2. CASE q = p /\ persisted'[p] = new
    BY <2>2
  <2> QED BY <2>1, <2>2
<1>5. StampInv'
  BY <1>3, <1>4 DEF StampInv
<1>6. Known(p)' /\ JobOK(p)' /\ DotOK(p)'
  BY <1>1 DEF Known, JobOK, DotOK, Applying, Announcement
<1>7. ASSUME NEW q \in Peers, q # p PROVE Known(q)' /\ JobOK(q)' /\ DotOK(q)'
  <2>1. Known(q) /\ JobOK(q) /\ DotOK(q)
    BY DEF LoopInv
  <2>2. Known(q)'
    BY <1>1, <1>7, <2>1 DEF Known, Announcement
  <2> QED BY <1>1, <1>7, <2>1, <2>2 DEF JobOK, DotOK, Fetches, Ignores, KeepsLocal
<1> QED BY <1>5, <1>6, <1>7 DEF LoopInv

LEMMA LoopInvPublish ==
  ASSUME LoopInv, NEW p \in Peers, NEW base \in Ver \cup {NoState}, Publishes(p, base)
  PROVE  LoopInv'
<1> DEFINE new == Edited(base, p, VHash(snap[p]), now + 1)
           birth == [peer |-> p, n |-> new.clock[p], vhash |-> new.vhash, ts |-> new.ts]
<1>1. Typed'
  BY TypedPublish DEF LoopInv
<1>2. now \in Nat /\ now' = now + 1 /\ snap[p] \in Folder
  BY Constants DEF Publishes, NewVersion, LoopInv, Typed, TypeOK
<1>3. new \in Ver /\ new.ts = now + 1
  BY <1>2, EditedType
<1>4. /\ persisted' = [persisted EXCEPT ![p] = new] /\ born' = born \cup {birth}
      /\ Install(p, new, Files(snap[p]), Len(torrents) + 1)
  BY DEF Publishes, NewVersion
<1> HIDE DEF new, birth
<1>5. IsFiniteSet(born') /\ Cardinality(born') <= now'
  <2>1. IsFiniteSet(born) /\ Cardinality(born) <= now /\ Cardinality(born) \in Nat
    BY FS_CardinalityType DEF LoopInv, StampInv
  <2>2. /\ IsFiniteSet(born \cup {birth})
        /\ Cardinality(born \cup {birth}) \in {Cardinality(born), Cardinality(born) + 1}
    BY <2>1, FS_AddElement
  <2> QED BY <1>2, <1>4, <2>1, <2>2
<1>6. /\ pc' = [pc EXCEPT ![p] = "idle"] /\ snap' = [snap EXCEPT ![p] = NoFiles]
      /\ dotdir' = [dotdir EXCEPT ![p] = TRUE] /\ msg' = msg
  BY DEF Publishes, Republish
<1>7. \A q \in Peers : q # p =>
        /\ pc'[q] = pc[q] /\ msg'[q] = msg[q] /\ snap'[q] = snap[q] /\ dotdir'[q] = dotdir[q]
        /\ persisted'[q] = persisted[q]
  BY <1>4, <1>6 DEF LoopInv, Typed, TypeOK
<1>8. persisted'[p] \in {persisted[p], new} /\ pc'[p] = "idle" /\ dotdir'[p]
  BY <1>4, <1>6 DEF LoopInv, Typed, TypeOK
<1>9. Len(torrents) + 1 \in Nat /\ now' \in Nat /\ now <= now' /\ new.ts <= now'
  BY <1>2, <1>3 DEF LoopInv, Typed
<1> QED BY <1>1, <1>3, <1>4, <1>5, <1>7, <1>8, <1>9, InstallStep

LEMMA LoopInvResumed ==
  ASSUME LoopInv, NEW p \in Peers, StartResumed(p)
  PROVE  LoopInv'
<1>1. Typed'
  BY TypedResumed DEF LoopInv
<1>2. persisted[p] \in Ver /\ persisted[p].ts <= now /\ now \in Nat /\ Len(torrents) + 1 \in Nat
  BY Constants DEF StartResumed, Resumes, LoopInv, Typed, TypeOK, Ver, StampInv
<1>3. /\ Install(p, persisted[p], Files(snap[p]), Len(torrents) + 1)
      /\ UNCHANGED <<persisted, now, born>>
  BY DEF StartResumed
<1>4. /\ pc' = [pc EXCEPT ![p] = "idle"] /\ snap' = [snap EXCEPT ![p] = NoFiles]
      /\ dotdir' = [dotdir EXCEPT ![p] = TRUE] /\ msg' = msg
  BY DEF StartResumed, Republish
<1>5. \A q \in Peers : q # p =>
        /\ pc'[q] = pc[q] /\ msg'[q] = msg[q] /\ snap'[q] = snap[q] /\ dotdir'[q] = dotdir[q]
        /\ persisted'[q] = persisted[q]
  BY <1>3, <1>4 DEF LoopInv, Typed, TypeOK
<1>6. pc'[p] = "idle" /\ dotdir'[p]
  BY <1>4 DEF LoopInv, Typed, TypeOK
<1>7. IsFiniteSet(born') /\ Cardinality(born') <= now' /\ now' \in Nat /\ now <= now'
  BY <1>2, <1>3 DEF LoopInv, StampInv
<1> QED BY <1>1, <1>2, <1>3, <1>5, <1>6, <1>7, InstallStep

LEMMA LoopInvKeepLocal ==
  ASSUME LoopInv, NEW p \in Peers, NEW m \in announced, KeepLocal(p, m)
  PROVE  LoopInv'
<1> DEFINE new == LocalWins(state[p], m)
<1>1. state[p] # NoState
  BY DEF KeepLocal, KeepsLocal
<1>2. /\ state[p] \in Ver /\ state[p].ts <= now /\ tor[p] \in Nat /\ tor[p] # 0
      /\ Abstract(m) \in Ver /\ now \in Nat
  <2>1. state[p] \in Ver /\ state[p].ts <= now /\ tor[p] \in 1..Len(torrents)
    BY <1>1, KnownFacts
  <2>2. Abstract(m) \in Ver /\ now \in Nat /\ tor[p] \in Nat
    BY Constants DEF LoopInv, Typed, TypeOK
  <2> QED BY <2>1, <2>2
<1>3. Typed'
  BY <1>2, TypedKeepLocal DEF LoopInv
<1>4. new \in Ver /\ new.ts = state[p].ts
  BY <1>2, LocalWinsType
<1>5. /\ Install(p, new, manifest[p], tor[p]) /\ PersistOrWarn(p, new) /\ pc[p] = "idle"
      /\ UNCHANGED <<pc, msg, snap, dotdir, now, born>>
  BY DEF KeepLocal, job, hist
<1> HIDE DEF new
<1>6. /\ \A q \in Peers : q # p => persisted'[q] = persisted[q]
      /\ persisted'[p] \in {persisted[p], new}
  BY <1>5 DEF PersistOrWarn, LoopInv, Typed, TypeOK
<1>7. dotdir'[p] \/ MayWipe
  BY <1>1, <1>5 DEF LoopInv, DotOK
<1>8. IsFiniteSet(born') /\ Cardinality(born') <= now' /\ now' \in Nat /\ now <= now'
  BY <1>2, <1>5 DEF LoopInv, StampInv
<1> QED BY <1>2, <1>3, <1>4, <1>5, <1>6, <1>7, <1>8, InstallStep

LEMMA LoopInvCommit ==
  ASSUME LoopInv, NEW p \in Peers, Commit(p)
  PROVE  LoopInv'
<1> DEFINE new == Adopted(state[p], msg[p])
<1>1. pc[p] \in Applying /\ msg[p] \in announced
  BY DEF Commit, LoopInv, JobOK, Applying
<1>2. /\ state[p] \in Ver \cup {NoState} /\ Abstract(msg[p]) \in Ver /\ msg[p].ih \in Nat
      /\ msg[p].ts <= now /\ now \in Nat
  BY <1>1, Constants DEF LoopInv, Typed, TypeOK, Ver, StampInv
<1>3. Typed'
  BY <1>1, TypedCommit DEF LoopInv
<1>4. new \in Ver /\ new.ts = msg[p].ts
  BY <1>2, AdoptedType
<1>5. /\ Install(p, new, Blobs(shadow[p]), msg[p].ih) /\ PersistOrWarn(p, new)
      /\ pc' = [pc EXCEPT ![p] = "idle"] /\ msg' = [msg EXCEPT ![p] = NoState]
      /\ UNCHANGED <<snap, dotdir, now, born>>
  BY DEF Commit, hist
<1> HIDE DEF new
<1>6. /\ \A q \in Peers : q # p =>
           persisted'[q] = persisted[q] /\ pc'[q] = pc[q] /\ msg'[q] = msg[q]
      /\ persisted'[p] \in {persisted[p], new} /\ pc'[p] = "idle"
  BY <1>5 DEF PersistOrWarn, LoopInv, Typed, TypeOK
<1>7. dotdir'[p] \/ MayWipe
  BY <1>1, <1>5 DEF LoopInv, DotOK
<1>8. IsFiniteSet(born') /\ Cardinality(born') <= now' /\ now' \in Nat /\ now <= now'
  BY <1>2, <1>5 DEF LoopInv, StampInv
<1> QED BY <1>2, <1>3, <1>4, <1>5, <1>6, <1>7, <1>8, InstallStep

LEMMA LoopInvCrash ==
  ASSUME LoopInv, NEW p \in Peers, Crash(p)
  PROVE  LoopInv'
<1>1. Typed'
  BY TypedCrash DEF LoopInv
<1>2. UNCHANGED <<persisted, announced, now, born, dotdir>>
  BY DEF Crash, disk
<1>3. StampInv'
  BY <1>2 DEF LoopInv, StampInv
<1>4. state'[p] = NoState /\ pc'[p] = "down"
  BY DEF Crash, LoopInv, Typed, TypeOK
<1>5. \A q \in Peers : q # p => /\ state'[q] = state[q] /\ tor'[q] = tor[q] /\ pc'[q] = pc[q]
                                /\ msg'[q] = msg[q] /\ snap'[q] = snap[q]
  BY DEF Crash, LoopInv, Typed, TypeOK
<1>6. Known(p)' /\ JobOK(p)' /\ DotOK(p)'
  BY <1>2, <1>4 DEF LoopInv, Known, JobOK, DotOK, Applying
<1>7. ASSUME NEW q \in Peers, q # p PROVE Known(q)' /\ JobOK(q)' /\ DotOK(q)'
  <2>1. Known(q) /\ JobOK(q) /\ DotOK(q)
    BY DEF LoopInv
  <2>2. Known(q)'
    BY <1>2, <1>5, <1>7, <2>1 DEF Known, Announcement
  <2> QED BY <1>2, <1>5, <1>7, <2>1, <2>2 DEF JobOK, DotOK, Fetches, Ignores, KeepsLocal
<1> QED BY <1>1, <1>3, <1>6, <1>7 DEF LoopInv

LEMMA LoopInvNext ==
  ASSUME LoopInv, [Next]_vars
  PROVE  LoopInv'
<1>1. CASE UNCHANGED vars
  BY <1>1 DEF vars, disk, loop, job, hist, LoopInv, Typed, TypeOK, StampInv, Known, JobOK, DotOK,
              Announcement, Fetches, Ignores, KeepsLocal
<1>2. ASSUME NEW p \in Peers, StartEdited(p) \/ LocalChange(p) PROVE LoopInv'
  <2>1. PICK base \in Ver \cup {NoState} : Publishes(p, base)
    BY <1>2 DEF StartEdited, LocalChange, Publishes, LoopInv, Typed, TypeOK, Ver
  <2> QED BY <2>1, LoopInvPublish
<1> QED BY <1>1, <1>2, LoopInvUser, LoopInvLoop, LoopInvFails, LoopInvReceive, LoopInvApply,
           LoopInvTick, LoopInvResumed, LoopInvKeepLocal, LoopInvCommit, LoopInvCrash
        DEF Next, Start, Change, Receive, Apply, Progress

(* The inductive invariant holds in every reachable state.                 *)
LEMMA LoopInvHolds == Spec => []LoopInv
<1>1. Init => LoopInv
  BY LoopInvInit
<1>2. LoopInv /\ [Next]_vars => LoopInv'
  BY LoopInvNext
<1> QED BY <1>1, <1>2, PTL DEF Spec

(* Type correctness, whatever users, stops and failing writes do: every    *)
(* torrent that the loop holds, serves or announces exists, and every      *)
(* version it holds, stores or announces has a clock that counts it.       *)
THEOREM FoldersTypeOK == Spec => []TypeOK
<1>1. LoopInv => TypeOK
  BY DEF LoopInv, Typed
<1> QED BY <1>1, LoopInvHolds, PTL

-----------------------------------------------------------------------------
(***************************************************************************)
(* FolderSync implements VersionSync.                                      *)
(***************************************************************************)
Up == [p \in Peers |-> pc[p] \notin {"down", "start"}]
Said == {Abstract(m) : m \in announced}

(* The rules for judging an announce are those of the version protocol,    *)
(* and need no more of the announce than what it says of the version.      *)
LEMMA SameRules ==
  ASSUME NEW s, NEW m
  PROVE  /\ Versions!KeepsLocal(s, Abstract(m)) <=> KeepsLocal(s, m)
         /\ Versions!Fetches(s, Abstract(m)) <=> Fetches(s, m)
         /\ Versions!LocalWins(s, Abstract(m)) = LocalWins(s, m)
         /\ Versions!Adopted(s, Abstract(m)) = Adopted(s, m)
<1>1. Abstract(m).vhash = m.vhash /\ Abstract(m).clock = m.clock /\ Abstract(m).ts = m.ts
  BY DEF Abstract
<1>2. ASSUME NEW c, NEW d
      PROVE  Versions!merge(c, d) = merge(c, d) /\ Versions!compare(c, d) = compare(c, d)
  BY DEF Versions!merge, merge, Versions!compare, compare, Versions!Ahead, Ahead
<1>3. Versions!WeWin(s, Abstract(m)) <=> WeWin(s, m)
  BY <1>1 DEF Versions!WeWin, WeWin, Versions!lww_we_win, lww_we_win
<1>4. Versions!Ignores(s, Abstract(m)) <=> Ignores(s, m)
  BY <1>1, <1>2 DEF Versions!Ignores, Ignores
<1>5. Versions!KeepsLocal(s, Abstract(m)) <=> KeepsLocal(s, m)
  BY <1>1, <1>2, <1>3 DEF Versions!KeepsLocal, KeepsLocal
<1>6. Versions!Fetches(s, Abstract(m)) <=> Fetches(s, m)
  BY <1>4, <1>5 DEF Versions!Fetches, Fetches
<1>7. Versions!LocalWins(s, Abstract(m)) = LocalWins(s, m)
  BY <1>1, <1>2 DEF Versions!LocalWins, LocalWins
<1>8. Versions!ClockOf(s) = ClockOf(s)
  BY DEF Versions!ClockOf, ClockOf, Versions!ZeroClock, ZeroClock
<1>9. Versions!Adopted(s, Abstract(m)) = Adopted(s, m)
  BY <1>1, <1>2, <1>8 DEF Versions!Adopted, Adopted
<1> QED BY <1>5, <1>6, <1>7, <1>9

LEMMA SameEdit ==
  ASSUME NEW s, NEW p, NEW v, NEW t
  PROVE  Versions!Edited(s, p, v, t) = Edited(s, p, v, t)
<1>1. Versions!ClockOf(s) = ClockOf(s)
  BY DEF Versions!ClockOf, ClockOf, Versions!ZeroClock, ZeroClock
<1> QED BY <1>1 DEF Versions!Edited, Edited, Versions!increment, increment

(* Installing a version is, for the protocol, publishing it.               *)
LEMMA InstallRefines ==
  ASSUME Typed, NEW p \in Peers, NEW new \in Ver, NEW files, NEW ih \in Nat,
         Install(p, new, files, ih)
  PROVE  Versions!Install(p, new)
<1>1. Abstract(Announcement(p, new, ih)) = new
  BY AnnouncementOf
<1>2. announced' = announced \cup {Announcement(p, new, ih)} /\ state' = [state EXCEPT ![p] = new]
  BY DEF Install
<1>3. {Abstract(m) : m \in announced'} = {Abstract(m) : m \in announced} \cup {new}
  BY <1>1, <1>2
<1> QED BY <1>2, <1>3 DEF Versions!Install

(* A step that changes nothing the version protocol has.                   *)
LEMMA CalmRefines ==
  ASSUME UNCHANGED <<persisted, announced, born, state, crashes>>, Up' = Up
  PROVE  UNCHANGED Versions!vars
BY DEF Versions!vars, Up

LEMMA LoopRefines ==
  ASSUME LoopInv, NEW p \in Peers,
         NextEpoch(p) \/ StartSnapshot(p) \/ Settle(p) \/ LocalSnapshot(p) \/ User(p)
  PROVE  UNCHANGED Versions!vars
<1>1. UNCHANGED <<persisted, announced, born, state, crashes>>
  BY DEF NextEpoch, StartSnapshot, Settle, LocalSnapshot, User, UserWrite, UserDelete, UserChange,
         RootWiped, disk, loop, hist
<1>2. Up' = Up
  <2>1. \/ pc' = pc
        \/ pc[p] = "down" /\ pc' = [pc EXCEPT ![p] = "start"]
        \/ pc[p] = "idle" /\ pc' = [pc EXCEPT ![p] = "snap"]
    BY DEF NextEpoch, StartSnapshot, Settle, LocalSnapshot, User, UserWrite, UserDelete, UserChange,
           RootWiped
  <2> QED BY <2>1 DEF Up, LoopInv, Typed, TypeOK
<1> QED BY <1>1, <1>2, CalmRefines

LEMMA FailsRefines ==
  ASSUME LoopInv, NEW p \in Peers, StartFails(p) \/ LocalChangeFails(p)
  PROVE  UNCHANGED Versions!vars
<1>1. UNCHANGED <<persisted, announced, born, state, crashes>>
  BY DEF StartFails, LocalChangeFails, SnapshotFails, loop, hist
<1>2. \/ pc[p] = "start" /\ pc' = [pc EXCEPT ![p] = "down"]
      \/ pc[p] = "snap" /\ pc' = [pc EXCEPT ![p] = "idle"]
  BY DEF StartFails, LocalChangeFails
<1>3. Up' = Up
  BY <1>2 DEF Up, LoopInv, Typed, TypeOK
<1> QED BY <1>1, <1>3, CalmRefines

LEMMA ApplyRefines ==
  ASSUME LoopInv, NEW p \in Peers,
         \/ Resolve(p) \/ ResolveFails(p) \/ DecryptFails(p) \/ VerifyFails(p)
         \/ FetchDone(p) \/ FetchFails(p) \/ FetchFailsAgain(p) \/ Decrypt(p) \/ Tick(p)
         \/ \E m \in announced : Ignore(p, m) \/ BeginFetch(p, m)
  PROVE  UNCHANGED Versions!vars
<1>1. UNCHANGED <<persisted, born, state, crashes>>
  BY DEF Resolve, ResolveFails, DecryptFails, VerifyFails, FetchDone, FetchFails, FetchFailsAgain,
         Decrypt, Tick, Ignore, BeginFetch, Abandon, disk, loop, hist
<1>2. announced' = announced
  <2>1. CASE Tick(p)
    BY <2>1, LoopInvTick
  <2> QED BY <2>1 DEF Resolve, ResolveFails, DecryptFails, VerifyFails, FetchDone, FetchFails,
                      FetchFailsAgain, Decrypt, Ignore, BeginFetch, Abandon
<1>3. /\ pc[p] \in Applying \cup {"idle"}
      /\ pc' = pc \/ \E x \in Applying \cup {"idle"} : pc' = [pc EXCEPT ![p] = x]
  BY DEF Resolve, ResolveFails, DecryptFails, VerifyFails, FetchDone, FetchFails, FetchFailsAgain,
         Decrypt, Tick, Ignore, BeginFetch, Abandon, Applying
<1>4. Up' = Up
  BY <1>3 DEF Up, Applying, LoopInv, Typed, TypeOK
<1> QED BY <1>1, <1>2, <1>4, CalmRefines

(* Turning a snapshot into a version is an edit of the version protocol.   *)
LEMMA PublishRefines ==
  ASSUME LoopInv, NEW p \in Peers, NEW base \in Ver \cup {NoState}, Publishes(p, base),
         base # NoState => base.ts <= now /\ base.vhash # VHash(snap[p])
  PROVE  /\ VHash(snap[p]) \in VHashes /\ now + 1 \in 1..MaxVersions
         /\ Versions!NewVersion(p, base, VHash(snap[p]), now + 1)
<1> DEFINE v == VHash(snap[p])
           t == now + 1
           new == Edited(base, p, v, t)
<1>1. now \in Nat /\ now < MaxVersions /\ MaxVersions \in Nat /\ snap[p] \in Folder
  BY Constants DEF Publishes, NewVersion, LoopInv, Typed, TypeOK
<1>2. v \in VHashes /\ t \in 1..MaxVersions /\ t \in Nat
  BY <1>1, HashType
<1>3. new \in Ver /\ new = Versions!Edited(base, p, v, t)
  BY <1>1, <1>2, EditedType, SameEdit
<1>4. Cardinality(born) \in Nat /\ Cardinality(born) < MaxVersions
  BY <1>1, FS_CardinalityType DEF LoopInv, StampInv
<1>5. Versions!MayStamp(p, base, t)
  <2>1. base # NoState => base.ts \in Nat
    BY VersionFields
  <2> QED BY <1>1, <2>1 DEF Versions!MayStamp
<1>6. /\ persisted' = [persisted EXCEPT ![p] = new]
      /\ born' = born \cup {Versions!Birth(p, new)}
      /\ Install(p, new, Files(snap[p]), Len(torrents) + 1)
  BY DEF Publishes, NewVersion, Versions!Birth
<1>7. Len(torrents) + 1 \in Nat
  BY DEF LoopInv, Typed
<1> HIDE DEF new, v, t
<1>8. Versions!Install(p, new)
  BY <1>3, <1>6, <1>7, InstallRefines DEF LoopInv
<1>9. base # NoState => v # base.vhash
  BY DEF v
<1>10. Versions!NewVersion(p, base, v, t)
  <2>1. Versions!Cardinality(born) = Cardinality(born)
    BY DEF Versions!Cardinality, Cardinality
  <2> QED BY <1>3, <1>4, <1>5, <1>6, <1>8, <1>9, <2>1 DEF Versions!NewVersion
<1> QED BY <1>2, <1>10 DEF v, t

LEMMA LocalChangeRefines ==
  ASSUME LoopInv, NEW p \in Peers, LocalChange(p)
  PROVE  \E v \in VHashes, t \in 1..MaxVersions : Versions!LocalChange(p, v, t)
<1>1. pc[p] = "snap" /\ Publishes(p, state[p])
  BY DEF LocalChange, Publishes
<1>2. state[p] \in Ver \cup {NoState}
  BY DEF LoopInv, Typed, TypeOK, Ver
<1>3. state[p] # NoState => state[p].ts <= now /\ state[p].vhash # VHash(snap[p])
  BY <1>1, KnownFacts DEF LoopInv, JobOK
<1>4. /\ VHash(snap[p]) \in VHashes /\ now + 1 \in 1..MaxVersions
      /\ Versions!NewVersion(p, state[p], VHash(snap[p]), now + 1)
  BY <1>1, <1>2, <1>3, PublishRefines
<1>5. Up[p] /\ Up' = Up /\ crashes' = crashes
  <2>1. pc' = [pc EXCEPT ![p] = "idle"] /\ crashes' = crashes
    BY DEF LocalChange, Republish
  <2> QED BY <1>1, <2>1 DEF Up, LoopInv, Typed, TypeOK
<1>6. Versions!LocalChange(p, VHash(snap[p]), now + 1)
  BY <1>4, <1>5 DEF Versions!LocalChange, Up
<1> QED BY <1>4, <1>6

LEMMA StartEditedRefines ==
  ASSUME LoopInv, NEW p \in Peers, StartEdited(p)
  PROVE  \E v \in VHashes, t \in 1..MaxVersions : Versions!StartEdited(p, v, t)
<1>1. pc[p] = "start" /\ Publishes(p, persisted[p]) /\ ~Resumes(p)
  BY DEF StartEdited, Publishes
<1>2. persisted[p] \in Ver \cup {NoState}
  BY DEF LoopInv, Typed, TypeOK, Ver
<1>3. persisted[p] # NoState => persisted[p].ts <= now /\ persisted[p].vhash # VHash(snap[p])
  BY <1>1 DEF LoopInv, StampInv, Resumes
<1>4. /\ VHash(snap[p]) \in VHashes /\ now + 1 \in 1..MaxVersions
      /\ Versions!NewVersion(p, persisted[p], VHash(snap[p]), now + 1)
  BY <1>1, <1>2, <1>3, PublishRefines
<1>5. ~Up[p] /\ Up' = [Up EXCEPT ![p] = TRUE] /\ crashes' = crashes
  <2>1. pc' = [pc EXCEPT ![p] = "idle"] /\ crashes' = crashes
    BY DEF StartEdited, Republish
  <2> QED BY <1>1, <2>1 DEF Up, LoopInv, Typed, TypeOK
<1>6. Versions!StartEdited(p, VHash(snap[p]), now + 1)
  BY <1>4, <1>5 DEF Versions!StartEdited, Up
<1> QED BY <1>4, <1>6

LEMMA StartRefines ==
  ASSUME LoopInv, NEW p \in Peers, StartEmpty(p) \/ StartResumed(p)
  PROVE  Versions!StartEmpty(p) \/ Versions!StartResumed(p)
<1>1. pc[p] \in {"down", "start"} /\ pc' = [pc EXCEPT ![p] = "idle"]
  BY DEF StartEmpty, StartResumed, Republish
<1>2. ~Up[p] /\ Up' = [Up EXCEPT ![p] = TRUE]
  BY <1>1 DEF Up, LoopInv, Typed, TypeOK
<1>3. CASE StartEmpty(p)
  <2>1. UNCHANGED <<state, persisted, announced, born, crashes>>
    BY <1>3 DEF StartEmpty, disk, loop, hist
  <2>2. persisted[p] # NoState => MayWipe
    BY <1>3 DEF StartEmpty, has_content, LoopInv, DotOK
  <2> QED BY <1>2, <2>1, <2>2 DEF Versions!StartEmpty, Up
<1>4. CASE StartResumed(p)
  <2>1. /\ Install(p, persisted[p], Files(snap[p]), Len(torrents) + 1)
        /\ persisted[p] # NoState /\ UNCHANGED <<persisted, born, crashes>>
    BY <1>4 DEF StartResumed, Resumes, Republish
  <2>2. persisted[p] \in Ver /\ Len(torrents) + 1 \in Nat
    BY <2>1 DEF LoopInv, Typed, TypeOK, Ver
  <2>3. Versions!Install(p, persisted[p])
    BY <2>1, <2>2, InstallRefines DEF LoopInv
  <2> QED BY <1>2, <2>1, <2>3 DEF Versions!StartResumed, Up
<1> QED BY <1>3, <1>4

LEMMA KeepLocalRefines ==
  ASSUME LoopInv, NEW p \in Peers, NEW m \in announced, KeepLocal(p, m)
  PROVE  Versions!KeepLocal(p, Abstract(m))
<1> DEFINE new == LocalWins(state[p], m)
<1>1. KeepsLocal(state[p], m) /\ state[p] # NoState /\ pc[p] = "idle"
  BY DEF KeepLocal, KeepsLocal
<1>2. state[p] \in Ver /\ tor[p] \in Nat /\ Abstract(m) \in Ver
  BY <1>1 DEF LoopInv, Typed, TypeOK, Ver
<1>3. new \in Ver /\ new = Versions!LocalWins(state[p], Abstract(m))
  BY <1>2, LocalWinsType, SameRules
<1>4. /\ Install(p, new, manifest[p], tor[p]) /\ PersistOrWarn(p, new)
      /\ UNCHANGED <<pc, born, crashes>>
  BY DEF KeepLocal, hist
<1> HIDE DEF new
<1>5. Versions!Install(p, new) /\ Versions!PersistOrWarn(p, new)
  BY <1>2, <1>3, <1>4, InstallRefines DEF LoopInv, PersistOrWarn, Versions!PersistOrWarn
<1>6. Versions!KeepsLocal(state[p], Abstract(m))
  BY <1>1, SameRules
<1>7. Up[p] /\ Up' = Up
  BY <1>1, <1>4 DEF Up
<1> QED BY <1>3, <1>4, <1>5, <1>6, <1>7 DEF Versions!KeepLocal, Up

(* The end of a fetch applies the announce it began with, by the rules     *)
(* that were checked then.                                                 *)
LEMMA CommitRefines ==
  ASSUME LoopInv, NEW p \in Peers, Commit(p)
  PROVE  msg[p] \in announced /\ Versions!ApplyRemote(p, Abstract(msg[p]))
<1> DEFINE new == Adopted(state[p], msg[p])
<1>1. pc[p] = "write" /\ msg[p] \in announced /\ Fetches(state[p], msg[p])
  BY DEF Commit, LoopInv, JobOK, Applying
<1>2. state[p] \in Ver \cup {NoState} /\ msg[p].ih \in Nat /\ Abstract(msg[p]) \in Ver
  BY <1>1 DEF LoopInv, Typed, TypeOK, Ver
<1>3. new \in Ver /\ new = Versions!Adopted(state[p], Abstract(msg[p]))
  BY <1>2, AdoptedType, SameRules
<1>4. /\ Install(p, new, Blobs(shadow[p]), msg[p].ih) /\ PersistOrWarn(p, new)
      /\ pc' = [pc EXCEPT ![p] = "idle"] /\ UNCHANGED <<born, crashes>>
  BY DEF Commit, hist
<1> HIDE DEF new
<1>5. Versions!Install(p, new) /\ Versions!PersistOrWarn(p, new)
  BY <1>2, <1>3, <1>4, InstallRefines DEF LoopInv, PersistOrWarn, Versions!PersistOrWarn
<1>6. Versions!Fetches(state[p], Abstract(msg[p]))
  BY <1>1, SameRules
<1>7. Up[p] /\ Up' = Up
  BY <1>1, <1>4 DEF Up, LoopInv, Typed, TypeOK
<1> QED BY <1>1, <1>3, <1>4, <1>5, <1>6, <1>7 DEF Versions!ApplyRemote, Up

LEMMA CrashRefines ==
  ASSUME LoopInv, NEW p \in Peers, Crash(p)
  PROVE  Versions!Crash(p)
<1>1. Up' = [Up EXCEPT ![p] = FALSE]
  BY DEF Crash, Up, LoopInv, Typed, TypeOK
<1> QED BY <1>1 DEF Crash, Versions!Crash, Up, disk

LEMMA NextRefines ==
  ASSUME LoopInv, [Next]_vars
  PROVE  [Versions!Next]_(Versions!vars)
<1>1. CASE UNCHANGED vars
  BY <1>1 DEF vars, disk, loop, hist, Versions!vars
<1>2. ASSUME NEW p \in Peers, LocalChange(p) PROVE Versions!Next
  BY <1>2, LocalChangeRefines DEF Versions!Next
<1>3. ASSUME NEW p \in Peers, StartEdited(p) PROVE Versions!Next
  BY <1>3, StartEditedRefines DEF Versions!Next
<1>4. ASSUME NEW p \in Peers, StartEmpty(p) \/ StartResumed(p) PROVE Versions!Next
  BY <1>4, StartRefines DEF Versions!Next
<1>5. ASSUME NEW p \in Peers, NEW m \in announced, KeepLocal(p, m) PROVE Versions!Next
  <2>1. Abstract(m) \in {Abstract(a) : a \in announced}
    OBVIOUS
  <2> QED BY <1>5, <2>1, KeepLocalRefines DEF Versions!Next
<1>6. ASSUME NEW p \in Peers, Commit(p) PROVE Versions!Next
  <2>1. msg[p] \in announced /\ Versions!ApplyRemote(p, Abstract(msg[p]))
    BY <1>6, CommitRefines
  <2>2. Abstract(msg[p]) \in {Abstract(a) : a \in announced}
    BY <2>1
  <2> QED BY <2>1, <2>2 DEF Versions!Next
<1>7. ASSUME NEW p \in Peers, Crash(p) PROVE Versions!Next
  BY <1>7, CrashRefines DEF Versions!Next
<1> QED BY <1>1, <1>2, <1>3, <1>4, <1>5, <1>6, <1>7, LoopRefines, FailsRefines, ApplyRefines
        DEF Next, Start, Change, Receive, Apply, Progress

(* FolderSync implements VersionSync: whatever users do to the files, and  *)
(* wherever a snapshot, a fetch or the daemon stops, the clocks, state.json*)
(* and announces of the share follow the version protocol.                 *)
THEOREM FoldersImplementVersions == Spec => ImplementsVersionSync
<1>1. Init => Versions!Init
  <2> SUFFICES ASSUME Init PROVE Versions!Init
    OBVIOUS
  <2>1. \A p \in Peers : pc[p] = "down"
    BY DEF Init
  <2>2. Up = [p \in Peers |-> FALSE]
    BY <2>1 DEF Up
  <2>3. Said = {}
    BY DEF Init, Said
  <2> QED BY <2>2, <2>3 DEF Init, Versions!Init, Up, Said
<1>2. LoopInv /\ [Next]_vars => [Versions!Next]_(Versions!vars)
  BY NextRefines
<1> QED BY <1>1, <1>2, LoopInvHolds, PTL DEF Spec, ImplementsVersionSync, Versions!Spec

-----------------------------------------------------------------------------
(***************************************************************************)
(* What follows from the theorems about VersionSync.                       *)
(***************************************************************************)
VersionsProofs == INSTANCE VersionSyncProofs WITH
  Stamps <- 1..MaxVersions,
  Synced <- TRUE,
  up <- [p \in Peers |-> pc[p] \notin {"down", "start"}],
  announced <- {Abstract(m) : m \in announced}

LEMMA VersionAssumptionHolds == VersionsProofs!VersionAssumption
<1>1. VersionsProofs!Version(Nat, Nat) = Version(Nat, Nat)
  BY DEF VersionsProofs!Version, Version, VersionsProofs!Clocks, Clocks,
         VersionsProofs!ZeroClock, ZeroClock
<1>2. 1..MaxVersions \subseteq Nat
  OBVIOUS
<1> QED BY <1>1, <1>2, Constants, FolderAssumption DEF VersionsProofs!VersionAssumption

LEMMA SameVersions == ImplementsVersionSync => VersionsProofs!Spec
<1> USE DEF VersionsProofs!Install, Versions!Install, VersionsProofs!PersistOrWarn,
            Versions!PersistOrWarn
<1>1. Versions!Init <=> VersionsProofs!Init
  BY DEF Versions!Init, VersionsProofs!Init
<1>2. Versions!vars = VersionsProofs!vars
  BY DEF Versions!vars, VersionsProofs!vars
<1>3. ASSUME NEW c, NEW d
      PROVE  Versions!merge(c, d) = VersionsProofs!merge(c, d) /\ Versions!compare(c, d) = VersionsProofs!compare(c, d)
  BY DEF Versions!merge, VersionsProofs!merge, Versions!compare, VersionsProofs!compare,
         Versions!Ahead, VersionsProofs!Ahead
<1>4. ASSUME NEW s PROVE Versions!ClockOf(s) = VersionsProofs!ClockOf(s)
  BY DEF Versions!ClockOf, VersionsProofs!ClockOf, Versions!ZeroClock, VersionsProofs!ZeroClock
<1>5. ASSUME NEW p, NEW base, NEW v, NEW t, Versions!NewVersion(p, base, v, t)
      PROVE  VersionsProofs!NewVersion(p, base, v, t)
  <2>1. Versions!Edited(base, p, v, t) = VersionsProofs!Edited(base, p, v, t)
    BY <1>4 DEF Versions!Edited, VersionsProofs!Edited, Versions!increment, VersionsProofs!increment
  <2>2. Versions!Cardinality(born) = VersionsProofs!Cardinality(born)
    BY DEF Versions!Cardinality, VersionsProofs!Cardinality
  <2> QED BY <1>5, <2>1, <2>2 DEF Versions!NewVersion, VersionsProofs!NewVersion, Versions!MayStamp,
             VersionsProofs!MayStamp, Versions!Birth, VersionsProofs!Birth
<1>6. ASSUME NEW s, NEW m
      PROVE  /\ Versions!KeepsLocal(s, m) <=> VersionsProofs!KeepsLocal(s, m)
             /\ Versions!Fetches(s, m) <=> VersionsProofs!Fetches(s, m)
             /\ Versions!LocalWins(s, m) = VersionsProofs!LocalWins(s, m)
             /\ Versions!Adopted(s, m) = VersionsProofs!Adopted(s, m)
  <2>1. Versions!WeWin(s, m) <=> VersionsProofs!WeWin(s, m)
    BY DEF Versions!WeWin, VersionsProofs!WeWin, Versions!lww_we_win, VersionsProofs!lww_we_win
  <2>2. Versions!Ignores(s, m) <=> VersionsProofs!Ignores(s, m)
    BY <1>3 DEF Versions!Ignores, VersionsProofs!Ignores
  <2>3. Versions!KeepsLocal(s, m) <=> VersionsProofs!KeepsLocal(s, m)
    BY <1>3, <2>1 DEF Versions!KeepsLocal, VersionsProofs!KeepsLocal
  <2>4. Versions!Fetches(s, m) <=> VersionsProofs!Fetches(s, m)
    BY <2>2, <2>3 DEF Versions!Fetches, VersionsProofs!Fetches
  <2>5. Versions!LocalWins(s, m) = VersionsProofs!LocalWins(s, m)
    BY <1>3 DEF Versions!LocalWins, VersionsProofs!LocalWins
  <2>6. Versions!Adopted(s, m) = VersionsProofs!Adopted(s, m)
    BY <1>3, <1>4 DEF Versions!Adopted, VersionsProofs!Adopted
  <2> QED BY <2>3, <2>4, <2>5, <2>6
<1>7. ASSUME NEW p, NEW m
      PROVE  /\ Versions!KeepLocal(p, m) => VersionsProofs!KeepLocal(p, m)
             /\ Versions!ApplyRemote(p, m) => VersionsProofs!ApplyRemote(p, m)
  BY <1>6 DEF Versions!KeepLocal, VersionsProofs!KeepLocal, Versions!ApplyRemote,
              VersionsProofs!ApplyRemote
<1>8. ASSUME NEW p, NEW v, NEW t
      PROVE  /\ Versions!LocalChange(p, v, t) => VersionsProofs!LocalChange(p, v, t)
             /\ Versions!StartEdited(p, v, t) => VersionsProofs!StartEdited(p, v, t)
  BY <1>5 DEF Versions!LocalChange, VersionsProofs!LocalChange, Versions!StartEdited,
              VersionsProofs!StartEdited
<1>9. ASSUME NEW p
      PROVE  /\ Versions!Crash(p) => VersionsProofs!Crash(p)
             /\ Versions!StartEmpty(p) => VersionsProofs!StartEmpty(p)
             /\ Versions!StartResumed(p) => VersionsProofs!StartResumed(p)
  BY DEF Versions!Crash, VersionsProofs!Crash, Versions!StartEmpty, VersionsProofs!StartEmpty,
         Versions!StartResumed, VersionsProofs!StartResumed
<1>10. Versions!Next => VersionsProofs!Next
  BY <1>7, <1>8, <1>9 DEF Versions!Next, VersionsProofs!Next
<1>11. [Versions!Next]_(Versions!vars) => [VersionsProofs!Next]_(VersionsProofs!vars)
  BY <1>2, <1>10 DEF Versions!vars, VersionsProofs!vars
<1> QED BY <1>1, <1>11, PTL DEF ImplementsVersionSync, Versions!Spec, VersionsProofs!Spec

(* In a share whose roots are not wiped, two announces with equal clocks   *)
(* stand for the same content, also between restarts, failed writes of     *)
(* state.json and fetches cut short: sync_loop may skip an Equal clock.    *)
THEOREM FolderClocksIdentifyVersions ==
  ~MayWipe => (Spec => []Versions!EqualClocksSameVersion)
<1> SUFFICES ASSUME ~MayWipe PROVE Spec => []Versions!EqualClocksSameVersion
  OBVIOUS
<1>1. VersionsProofs!Spec => []VersionsProofs!EqualClocksSameVersion
  BY VersionsProofs!ClockIdentifiesVersion, VersionAssumptionHolds, PTL
<1>2. VersionsProofs!EqualClocksSameVersion => Versions!EqualClocksSameVersion
  BY DEF VersionsProofs!EqualClocksSameVersion, Versions!EqualClocksSameVersion
<1> QED BY <1>1, <1>2, FoldersImplementVersions, SameVersions, PTL

(* ... and a peer's folder is, of all the versions its clock accounts for, *)
(* the last one written.                                                   *)
THEOREM FoldersHoldLastWrite ==
  ~MayWipe => (Spec => []Versions!HeldVersionIsLatestKnown)
<1> SUFFICES ASSUME ~MayWipe PROVE Spec => []Versions!HeldVersionIsLatestKnown
  OBVIOUS
<1>1. VersionsProofs!Spec => []VersionsProofs!HeldVersionIsLatestKnown
  BY VersionsProofs!LastWriteWins, VersionAssumptionHolds, PTL
<1>2. VersionsProofs!HeldVersionIsLatestKnown => Versions!HeldVersionIsLatestKnown
  BY DEF VersionsProofs!HeldVersionIsLatestKnown, Versions!HeldVersionIsLatestKnown,
         VersionsProofs!LE, Versions!LE
<1> QED BY <1>1, <1>2, FoldersImplementVersions, SameVersions, PTL

-----------------------------------------------------------------------------
(***************************************************************************)
(* Announces are honest when users let a snapshot finish.                  *)
(***************************************************************************)
\* No user changes a folder between its hash and its ciphertext.
LetsFinish == \A p \in Peers : pc[p] \in {"start", "snap"} => root'[p] = root[p]
Untouched == [][LetsFinish]_vars

Hashed(p) == pc[p] \in {"start", "snap"} => snap[p] = root[p]

Plain(i) == [f \in Paths |-> torrents[i][f].c]

HonestInv ==
  /\ \A p \in Peers : Hashed(p)
  /\ TorrentHoldsVersion

(* Every step touches the root and the snapshot of one peer at most, and a *)
(* snapshot is the root as it is.                                          *)
LEMMA HashedStep ==
  ASSUME LoopInv, HonestInv, LetsFinish, [Next]_vars, NEW q \in Peers
  PROVE  Hashed(q)'
<1>1. CASE UNCHANGED vars
  BY <1>1 DEF vars, disk, job, HonestInv, Hashed
<1>2. CASE UNCHANGED <<pc, snap>>
  BY <1>2 DEF LetsFinish, HonestInv, Hashed
<1> SUFFICES ASSUME NEW p \in Peers,
                    \/ Crash(p) \/ Start(p) \/ Change(p) \/ Apply(p)
                    \/ \E m \in announced : BeginFetch(p, m)
             PROVE  Hashed(q)'
  <2>1. ASSUME NEW p \in Peers, NEW m \in announced, Ignore(p, m) \/ KeepLocal(p, m)
        PROVE  UNCHANGED <<pc, snap>>
    BY <2>1 DEF Ignore, KeepLocal, job
  <2>2. ASSUME NEW p \in Peers, User(p) \/ NextEpoch(p) \/ Tick(p) PROVE UNCHANGED <<pc, snap>>
    BY <2>2 DEF User, UserWrite, UserDelete, UserChange, RootWiped, NextEpoch, Tick, job
  <2> QED BY <1>1, <1>2, <2>1, <2>2 DEF Next, Receive
<1>3. CASE Crash(p)
  BY <1>3 DEF Crash, disk, HonestInv, Hashed, LoopInv, Typed, TypeOK
<1>4. CASE Start(p) \/ Change(p)
  <2>1. root' = root
    BY <1>4 DEF Start, Change, StartEmpty, StartSnapshot, StartResumed, StartEdited, StartFails,
           Settle, LocalSnapshot, LocalChange, LocalChangeFails, Republish, SnapshotFails, disk
  <2>2. \/ UNCHANGED <<pc, snap>>
        \/ /\ \E x \in {"idle", "down"} : pc' = [pc EXCEPT ![p] = x]
           /\ snap' = snap \/ snap' = [snap EXCEPT ![p] = NoFiles]
        \/ /\ \E x \in {"start", "snap"} : pc' = [pc EXCEPT ![p] = x]
           /\ snap' = [snap EXCEPT ![p] = root[p]]
    BY <1>4 DEF Start, Change, StartEmpty, StartSnapshot, StartResumed, StartEdited, StartFails,
           Settle, LocalSnapshot, LocalChange, LocalChangeFails, Republish, SnapshotFails, job
  <2> QED BY <2>1, <2>2 DEF HonestInv, Hashed, LoopInv, Typed, TypeOK
<1>5. CASE Apply(p) \/ \E m \in announced : BeginFetch(p, m)
  <2>1. snap' = snap
    BY <1>5 DEF Apply, Progress, BeginFetch, Resolve, ResolveFails, FetchDone, FetchFails, FetchFailsAgain,
                Decrypt, DecryptFails, VerifyFails, Commit, Abandon, job
  <2>2. pc' = pc \/ \E x \in Applying \cup {"idle"} : pc' = [pc EXCEPT ![p] = x]
    BY <1>5 DEF Apply, Progress, BeginFetch, Resolve, ResolveFails, FetchDone, FetchFails, FetchFailsAgain,
                Decrypt, DecryptFails, VerifyFails, Commit, Abandon, Applying
  <2>3. pc'[q] \in {"start", "snap"} => pc[q] = pc'[q]
    BY <2>2 DEF Applying, LoopInv, Typed, TypeOK
  <2> QED BY <2>1, <2>3 DEF HonestInv, Hashed, LetsFinish
<1> QED BY <1>3, <1>4, <1>5

(* The ciphertext of an untouched snapshot decrypts to the snapshot.       *)
LEMMA EncryptedHolds ==
  ASSUME Typed, NEW p \in Peers, snap[p] = root[p]
  PROVE  [f \in Paths |-> Encrypted(p)[f].c] = snap[p]
<1>1. snap[p] \in [Paths -> 0..NumContents]
  BY DEF Typed, TypeOK, Folder
<1>2. ASSUME NEW f \in Paths PROVE Encrypted(p)[f].c = snap[p][f]
  BY DEF Encrypted, NewBlob, NoBlob, Files
<1> QED BY <1>1, <1>2

(* Torrents are never changed once they exist.                             *)
LEMMA PlainKept ==
  ASSUME Typed, torrents' = torrents \/ \E p \in Peers : AddShadowTorrent(p)
  PROVE  \A i \in 1..Len(torrents) : Plain(i)' = Plain(i)
<1>1. \A i \in 1..Len(torrents) : torrents'[i] = torrents[i]
  BY EncryptedType DEF AddShadowTorrent, Typed
<1> QED BY <1>1 DEF Plain

LEMMA HonestCalm ==
  ASSUME Typed, TorrentHoldsVersion, announced' = announced,
         torrents' = torrents \/ \E p \in Peers : AddShadowTorrent(p)
  PROVE  TorrentHoldsVersion'
<1>1. ASSUME NEW m \in announced PROVE VHash(Plain(m.ih)') = m.vhash
  <2>1. m.ih \in 1..Len(torrents) /\ VHash(Plain(m.ih)) = m.vhash
    BY DEF Typed, TorrentHoldsVersion, Honest, Plain
  <2> QED BY <2>1, PlainKept
<1> QED BY <1>1 DEF TorrentHoldsVersion, Honest, Plain, VHash

LEMMA HonestInstall ==
  ASSUME Typed, TorrentHoldsVersion, NEW p \in Peers, NEW new \in Ver, NEW files, NEW ih \in Nat,
         Install(p, new, files, ih),
         torrents' = torrents \/ \E q \in Peers : AddShadowTorrent(q),
         VHash(Plain(ih)') = new.vhash
  PROVE  TorrentHoldsVersion'
<1>1. announced' = announced \cup {Announcement(p, new, ih)}
  BY DEF Install
<1>2. ASSUME NEW m \in announced' PROVE VHash(Plain(m.ih)') = m.vhash
  <2>1. CASE m \in announced
    <3>1. m.ih \in 1..Len(torrents) /\ VHash(Plain(m.ih)) = m.vhash
      BY <2>1 DEF Typed, TorrentHoldsVersion, Honest, Plain
    <3> QED BY <3>1, PlainKept
  <2>2. CASE m = Announcement(p, new, ih)
    BY <2>2, AnnouncementOf
  <2> QED BY <1>1, <2>1, <2>2
<1> QED BY <1>2 DEF TorrentHoldsVersion, Honest, Plain, VHash

(* A snapshot that became a torrent, with a new version or the persisted   *)
(* one: the torrent holds what was hashed.                                 *)
LEMMA HonestRepublish ==
  ASSUME LoopInv, HonestInv, NEW p \in Peers, StartResumed(p) \/ StartEdited(p) \/ LocalChange(p)
  PROVE  TorrentHoldsVersion'
<1>0. PICK n \in Nat : n = Len(torrents) + 1
  BY DEF LoopInv, Typed
<1>1. Republish(p) /\ AddShadowTorrent(p) /\ pc[p] \in {"start", "snap"}
  BY DEF StartResumed, StartEdited, LocalChange, Republish
<1>2. snap[p] = root[p]
  BY <1>1 DEF HonestInv, Hashed
<1>3. torrents'[n] = Encrypted(p)
  BY <1>0, <1>1, RepublishType DEF LoopInv
<1>4. Plain(n)' = snap[p]
  <2>1. Plain(n)' = [f \in Paths |-> Encrypted(p)[f].c]
    BY <1>3 DEF Plain
  <2> QED BY <1>2, <2>1, EncryptedHolds DEF LoopInv
<1>5. PICK new \in Ver : new.vhash = VHash(snap[p]) /\ Install(p, new, Files(snap[p]), n)
  <2>1. CASE StartResumed(p)
    <3>1. persisted[p] \in Ver /\ persisted[p].vhash = VHash(snap[p])
      BY <2>1 DEF StartResumed, Resumes, LoopInv, Typed, TypeOK, Ver
    <3> QED BY <1>0, <2>1, <3>1 DEF StartResumed
  <2>2. ASSUME NEW base \in Ver \cup {NoState}, NewVersion(p, base)
        PROVE  \E new \in Ver : new.vhash = VHash(snap[p]) /\ Install(p, new, Files(snap[p]), n)
    <3> DEFINE new == Edited(base, p, VHash(snap[p]), now + 1)
    <3>1. snap[p] \in Folder /\ now + 1 \in Nat
      BY Constants DEF LoopInv, Typed, TypeOK
    <3>2. new \in Ver /\ new.vhash = VHash(snap[p])
      BY <3>1, EditedType DEF Edited
    <3>3. Install(p, new, Files(snap[p]), n)
      BY <1>0, <2>2 DEF NewVersion
    <3> QED BY <3>2, <3>3
  <2>3. state[p] \in Ver \cup {NoState} /\ persisted[p] \in Ver \cup {NoState}
    BY DEF LoopInv, Typed, TypeOK, Ver
  <2> QED BY <2>1, <2>2, <2>3 DEF StartEdited, LocalChange
<1>6. VHash(Plain(n)') = new.vhash
  BY <1>4, <1>5
<1> QED BY <1>1, <1>5, <1>6, HonestInstall DEF LoopInv, HonestInv

(* A version that is announced again, by the winner of a conflict or by    *)
(* the peer that has fetched it, keeps its torrent.                        *)
LEMMA HonestAgain ==
  ASSUME LoopInv, HonestInv, NEW p \in Peers, Commit(p) \/ \E m \in announced : KeepLocal(p, m)
  PROVE  TorrentHoldsVersion'
<1>1. PICK a \in announced, new \in Ver, files \in SUBSET Paths :
        new.vhash = a.vhash /\ Install(p, new, files, a.ih)
  <2>1. CASE Commit(p)
    <3>1. msg[p] \in announced
      BY <2>1 DEF Commit, LoopInv, JobOK, Applying
    <3>2. state[p] \in Ver \cup {NoState} /\ Abstract(msg[p]) \in Ver
      BY <3>1 DEF LoopInv, Typed, TypeOK, Ver
    <3>3. Adopted(state[p], msg[p]) \in Ver /\ Adopted(state[p], msg[p]).vhash = msg[p].vhash
      BY <3>2, AdoptedType
    <3>4. Blobs(shadow[p]) \in SUBSET Paths
      BY DEF Blobs
    <3> QED BY <2>1, <3>1, <3>3, <3>4 DEF Commit
  <2>2. ASSUME NEW m \in announced, KeepLocal(p, m)
        PROVE  \E a \in announced, new \in Ver, files \in SUBSET Paths :
                 new.vhash = a.vhash /\ Install(p, new, files, a.ih)
    <3> DEFINE a == Announcement(p, state[p], tor[p])
               new == LocalWins(state[p], m)
    <3>1. state[p] # NoState
      BY <2>2 DEF KeepLocal, KeepsLocal
    <3>2. a \in announced /\ state[p] \in Ver /\ tor[p] \in Nat /\ Abstract(m) \in Ver
      BY <3>1 DEF LoopInv, Known, Typed, TypeOK, Ver
    <3>3. a.vhash = state[p].vhash /\ a.ih = tor[p]
      BY <3>2, AnnouncementOf
    <3>4. new \in Ver /\ new.vhash = state[p].vhash
      BY <3>2, LocalWinsType
    <3>5. Install(p, new, manifest[p], tor[p]) /\ manifest[p] \in SUBSET Paths
      BY <2>2 DEF KeepLocal, LoopInv, Typed, TypeOK
    <3> HIDE DEF a, new
    <3> QED BY <3>2, <3>3, <3>4, <3>5
  <2> QED BY <2>1, <2>2
<1>2. torrents' = torrents
  BY DEF Commit, KeepLocal
<1>3. a.ih \in Nat /\ VHash(Plain(a.ih)) = a.vhash
  BY DEF LoopInv, Typed, HonestInv, TorrentHoldsVersion, Honest, Plain
<1>4. VHash(Plain(a.ih)') = new.vhash
  BY <1>1, <1>2, <1>3 DEF Plain
<1> QED BY <1>1, <1>2, <1>3, <1>4, HonestInstall DEF LoopInv, HonestInv

LEMMA HonestNext ==
  ASSUME LoopInv, HonestInv, [Next]_vars, [LetsFinish]_vars
  PROVE  HonestInv'
<1>1. CASE UNCHANGED vars
  BY <1>1 DEF vars, disk, job, HonestInv, Hashed, TorrentHoldsVersion, Honest
<1>2. CASE LetsFinish /\ Next
  <2>1. \A q \in Peers : Hashed(q)'
    BY <1>2, HashedStep
  <2>2. PICK p \in Peers :
          \/ User(p) \/ Crash(p) \/ NextEpoch(p) \/ Start(p) \/ Change(p) \/ Tick(p)
          \/ \E m \in announced : Receive(p, m)
          \/ Apply(p)
    BY <1>2 DEF Next
  <2>3. CASE \/ StartResumed(p) \/ StartEdited(p) \/ LocalChange(p)
             \/ Commit(p) \/ \E m \in announced : KeepLocal(p, m)
    <3>1. TorrentHoldsVersion'
      BY <2>3, HonestRepublish, HonestAgain
    <3> QED BY <2>1, <3>1 DEF HonestInv
  <2>4. CASE announced' = announced /\ (torrents' = torrents \/ AddShadowTorrent(p))
    <3>1. TorrentHoldsVersion'
      BY <2>4, HonestCalm DEF LoopInv, HonestInv
    <3> QED BY <2>1, <3>1 DEF HonestInv
  <2>5. CASE Tick(p)
    BY <2>4, <2>5, LoopInvTick DEF Tick
  <2>6. CASE User(p) \/ Crash(p) \/ NextEpoch(p)
    BY <2>4, <2>6 DEF User, UserWrite, UserDelete, UserChange, RootWiped, Crash, NextEpoch
  <2>7. CASE \/ StartEmpty(p) \/ StartSnapshot(p) \/ StartFails(p)
             \/ Settle(p) \/ LocalSnapshot(p) \/ LocalChangeFails(p)
    BY <2>4, <2>7 DEF StartEmpty, StartSnapshot, StartFails, Settle, LocalSnapshot,
       LocalChangeFails, SnapshotFails
  <2>8. CASE \/ Resolve(p) \/ ResolveFails(p) \/ DecryptFails(p) \/ VerifyFails(p)
             \/ FetchDone(p) \/ FetchFails(p) \/ FetchFailsAgain(p) \/ Decrypt(p)
             \/ \E m \in announced : Ignore(p, m) \/ BeginFetch(p, m)
    BY <2>4, <2>8 DEF Resolve, ResolveFails, DecryptFails, VerifyFails, FetchDone, FetchFails,
                      FetchFailsAgain, Decrypt, Abandon, Ignore, BeginFetch
  <2> QED BY <2>2, <2>3, <2>5, <2>6, <2>7, <2>8 DEF Start, Change, Receive, Apply, Progress
<1> QED BY <1>1, <1>2

(* As long as no folder is changed between the two times it is read, once  *)
(* for the hash and once for the ciphertext, every torrent a peer          *)
(* announces, its own or one that it passes on, decrypts to exactly the    *)
(* folder that the announced version hash was computed from.               *)
THEOREM UntouchedTorrentsHoldVersions == Spec /\ Untouched => []TorrentHoldsVersion
<1>1. Init => HonestInv
  BY DEF Init, HonestInv, Hashed, TorrentHoldsVersion, Honest
<1>2. LoopInv /\ HonestInv /\ [Next]_vars /\ [LetsFinish]_vars => HonestInv'
  BY HonestNext
<1>3. HonestInv => TorrentHoldsVersion
  BY DEF HonestInv
<1> QED BY <1>1, <1>2, <1>3, LoopInvHolds, PTL DEF Spec, Untouched

(* Users that wait until the peers are in sync let every snapshot finish:  *)
(* no stop, wiped root or fetch can get between hash and ciphertext.       *)
THEOREM QuietTorrentsHoldVersions == QuietEdits => (Spec => []TorrentHoldsVersion)
<1> SUFFICES ASSUME QuietEdits PROVE Spec => []TorrentHoldsVersion
  OBVIOUS
<1>1. LoopInv /\ [Next]_vars => [LetsFinish]_vars
  <2> SUFFICES ASSUME LoopInv, Next, NEW q \in Peers, pc[q] \in {"start", "snap"}
               PROVE  root'[q] = root[q]
    BY DEF LetsFinish
  <2>1. ASSUME NEW p \in Peers, UserWrite(p) \/ UserDelete(p) PROVE FALSE
    BY <2>1 DEF UserWrite, UserDelete, UserChange, MayEdit, Quiescent
  <2>2. ASSUME NEW p \in Peers, RootWiped(p) \/ Decrypt(p) \/ Commit(p) PROVE root'[q] = root[q]
    <3>1. p # q
      BY <2>2 DEF RootWiped, Decrypt, Commit
    <3> QED BY <2>2, <3>1 DEF RootWiped, Decrypt, Commit, LoopInv, Typed, TypeOK
  <2>3. ASSUME NEW p \in Peers,
               \/ Crash(p) \/ NextEpoch(p) \/ Start(p) \/ Change(p) \/ Tick(p)
               \/ \E m \in announced : Receive(p, m)
        PROVE  root' = root
    BY <2>3 DEF Crash, NextEpoch, Start, Change, Tick, Receive, Ignore, KeepLocal, BeginFetch,
           StartEmpty, StartSnapshot, StartResumed, StartEdited, StartFails, Settle, LocalSnapshot,
           LocalChange, LocalChangeFails, Republish, SnapshotFails, disk
  <2>4. ASSUME NEW p \in Peers,
               \/ Resolve(p) \/ ResolveFails(p) \/ DecryptFails(p) \/ VerifyFails(p)
               \/ FetchDone(p) \/ FetchFails(p) \/ FetchFailsAgain(p)
        PROVE  root' = root
    BY <2>4 DEF Resolve, ResolveFails, DecryptFails, VerifyFails, FetchDone, FetchFails,
                FetchFailsAgain, Abandon, disk
  <2> QED BY <2>1, <2>2, <2>3, <2>4 DEF Next, User, Apply, Progress
<1>2. Spec => Untouched
  BY <1>1, LoopInvHolds, PTL DEF Spec, Untouched
<1> QED BY <1>2, UntouchedTorrentsHoldVersions, PTL
=============================================================================

---------------------------- MODULE FolderSync ----------------------------
(***************************************************************************)
(* A Sync share down to its files: sync_loop of src/daemon.rs with the     *)
(* plaintext root, the ciphertext shadow in .peerdup/encrypted, the        *)
(* librqbit session, the file watcher with its debounce, and state.json.   *)
(* Every await at which another peer, the user or a stop of the daemon can *)
(* come in between is a step boundary.                                     *)
(*                                                                         *)
(* A file name is a number and its content a positive one; 0 is no file.   *)
(* The version hash is any function of the folder: what the protocol does  *)
(* to clocks and torrents does not rest on blake3 having no collisions.    *)
(* A torrent is the ciphertext it was made of; its info-hash is its index  *)
(* in the order of creation, for no two encryptions share their nonces.    *)
(***************************************************************************)
EXTENDS ShareVersion, FiniteSets, Sequences

CONSTANTS
  NumPaths, NumContents,
  Digest,           \* blake3 of a folder, read as a number
  Editors,          \* peers whose users change files
  UserMayDelete,    \* users also delete files
  QuietEdits,       \* users wait until the peers are in sync
  MayWipe,          \* a share root may be emptied while its daemon is down
  PersistMayFail,   \* writing state.json may fail
  FetchMayFail,     \* librqbit may give up a download
  MaxEdits,         \* bound on user changes
  MaxVersions,      \* bound on versions created
  MaxTorrents,      \* bound on torrents left by failed writes of state.json
  MaxEpoch,         \* bound on key epochs
  MaxCrashes        \* bound on daemon stops

Paths == 1..NumPaths
Contents == 1..NumContents
Folder == [Paths -> 0..NumContents]

ASSUME FolderAssumption ==
  /\ {NumPaths, NumContents, MaxEdits, MaxVersions, MaxTorrents, MaxEpoch, MaxCrashes}
       \subseteq Nat
  /\ {UserMayDelete, QuietEdits, MayWipe, PersistMayFail, FetchMayFail} \subseteq BOOLEAN
  /\ Editors \subseteq Peers
  /\ NoState \notin Version(Nat, Nat)
  /\ MaxEpoch > 0
  /\ Digest \in [Folder -> Nat]

VARIABLES
  root,         \* plaintext folder of a peer
  dotdir,       \* .peerdup exists in the root
  shadow,       \* ciphertext folder of a peer
  persisted,    \* state.json
  pc,           \* where the share task is
  state,        \* the loop's `state`: version hash, clock and timestamp
  manifest,     \* its manifest field
  tor,          \* its torrent (info_hash, torrent_id), 0 when there is none
  session,      \* torrents a peer's librqbit session holds completely
  broken,       \* torrents in that session whose download failed
  epoch,        \* newest key epoch in the peer's keyring
  events,       \* watcher channel and debounce: none, queued or settling
  snap,         \* content that the current local change has hashed
  msg,          \* announce being applied
  todo,         \* shadow files still to be decrypted
  torrents,     \* every torrent created: its ciphertext files
  announced,    \* every announce published
  now,          \* wall clock: the number of versions created
  edits, crashes,
  born,         \* history: versions created (as in VersionSync)
  meddled       \* history: peers whose user changed files during an apply

disk == <<root, dotdir, shadow, persisted>>
loop == <<state, manifest, tor>>
job  == <<snap, msg, todo>>
hist == <<edits, crashes, born, meddled>>
vars == <<disk, pc, loop, session, broken, epoch, events, job, torrents, announced, now, hist>>

NoFiles == [f \in Paths |-> 0]

\* A ciphertext file: the content, the key epoch and the nonce, all 0 for none.
\* One that was left half written is sealed with a key that nobody has.
Blob == [c : 0..NumContents, e : 0..MaxEpoch + 1, n : Nat]
Torn == [c |-> 0, e |-> MaxEpoch + 1, n |-> 0]
NoBlob == [c |-> 0, e |-> 0, n |-> 0]
NoBlobs == [f \in Paths |-> NoBlob]

\* collect_files of a plaintext and of a ciphertext folder.
Files(d) == {f \in Paths : d[f] # 0}
Blobs(d) == {f \in Paths : d[f] # NoBlob}

\* snapshot_content: the hash covers the sorted paths and their contents.
VHash(d) == Digest[d]
VHashes == {VHash(d) : d \in Folder}

Announce == [from : Peers, ih : Nat, vhash : VHashes, clock : Clocks, ts : Nat]

TypeOK ==
  /\ root \in [Peers -> Folder]
  /\ dotdir \in [Peers -> BOOLEAN]
  /\ shadow \in [Peers -> [Paths -> Blob]]
  /\ persisted \in [Peers -> Version(VHashes, Nat) \cup {NoState}]
  /\ pc \in [Peers -> {"down", "start", "idle", "snap", "resolve", "fetch", "write"}]
  /\ state \in [Peers -> Version(VHashes, Nat) \cup {NoState}]
  /\ manifest \in [Peers -> SUBSET Paths]
  /\ tor \in [Peers -> 0..Len(torrents)]
  /\ session \in [Peers -> SUBSET (1..Len(torrents))]
  /\ broken \in [Peers -> SUBSET Nat]
  /\ epoch \in [Peers -> 1..MaxEpoch]
  /\ events \in [Peers -> {"none", "queued", "settling"}]
  /\ snap \in [Peers -> Folder]
  /\ msg \in [Peers -> Announce \cup {NoState}]
  /\ todo \in [Peers -> SUBSET Paths]
  /\ announced \subseteq Announce
  /\ now \in 0..MaxVersions
  /\ meddled \subseteq Peers

Init ==
  /\ root = [p \in Peers |-> NoFiles]
  /\ dotdir = [p \in Peers |-> FALSE]
  /\ shadow = [p \in Peers |-> NoBlobs]
  /\ persisted = [p \in Peers |-> NoState]
  /\ pc = [p \in Peers |-> "down"]
  /\ state = [p \in Peers |-> NoState]
  /\ manifest = [p \in Peers |-> {}]
  /\ tor = [p \in Peers |-> 0]
  /\ session = [p \in Peers |-> {}]
  /\ broken = [p \in Peers |-> {}]
  /\ epoch = [p \in Peers |-> 1]
  /\ events = [p \in Peers |-> "none"]
  /\ snap = [p \in Peers |-> NoFiles]
  /\ msg = [p \in Peers |-> NoState]
  /\ todo = [p \in Peers |-> {}]
  /\ torrents = <<>>
  /\ announced = {}
  /\ now = 0
  /\ edits = 0
  /\ crashes = 0
  /\ born = {}
  /\ meddled = {}
-----------------------------------------------------------------------------
\* has_content: any directory entry counts, .peerdup included.
has_content(p) == dotdir[p] \/ Files(root[p]) # {}

\* spawn_fs_watcher runs after reconcile_on_start, and its channel outlives
\* whatever the loop is busy with.  Events inside .peerdup are filtered out.
Notified(p) ==
  IF pc[p] \in {"down", "start"} \/ events[p] # "none" THEN events
  ELSE [events EXCEPT ![p] = "queued"]

\* select! drops the debounce future when another branch completes, together
\* with the event that debounce has already taken off the channel.
Cancelled(p) ==
  IF events[p] = "settling" THEN [events EXCEPT ![p] = "none"] ELSE events

Announcement(p, s, ih) ==
  [from |-> p, ih |-> ih, vhash |-> s.vhash, clock |-> s.clock, ts |-> s.ts]

\* What an announce says of the version.
Abstract(m) == [vhash |-> m.vhash, clock |-> m.clock, ts |-> m.ts]

\* `state = Some(new_state)` with publish_sync_announce before it.
Install(p, new, files, ih) ==
  /\ state' = [state EXCEPT ![p] = new]
  /\ manifest' = [manifest EXCEPT ![p] = files]
  /\ tor' = [tor EXCEPT ![p] = ih]
  /\ announced' = announced \cup {Announcement(p, new, ih)}

\* A failed persist is only logged after an announce.
PersistOrWarn(p, new) ==
  \/ persisted' = [persisted EXCEPT ![p] = new]
  \/ PersistMayFail /\ UNCHANGED persisted
-----------------------------------------------------------------------------
\* Files in snap that sync_plaintext_to_shadow can no longer read.
Vanished(p) == Files(snap[p]) \ Files(root[p])

NewBlob(p, f) == [c |-> root[p][f], e |-> epoch[p], n |-> Len(torrents) + 1]

\* sync_plaintext_to_shadow: every file of the manifest encrypted as it is
\* now, every other ciphertext file removed.
Encrypted(p) ==
  [f \in Paths |-> IF f \in Files(snap[p]) THEN NewBlob(p, f) ELSE NoBlob]

\* The same, stopped at the first file (in manifest order) that has vanished.
EncryptedInPart(p) ==
  [f \in Paths |->
     IF f \in Files(snap[p]) /\ \A g \in Vanished(p) : f < g
     THEN NewBlob(p, f) ELSE shadow[p][f]]

\* create_and_add_shadow_torrent over the shadow just written.
AddShadowTorrent(p) ==
  /\ torrents' = Append(torrents, Encrypted(p))
  /\ session' = [session EXCEPT ![p] = @ \cup {Len(torrents) + 1}]

\* A new version of the hashed content, after `base`.
NewVersion(p, base) ==
  LET new == Edited(base, p, VHash(snap[p]), now + 1) IN
  /\ now < MaxVersions
  /\ now' = now + 1
  /\ born' = born \cup {[peer |-> p, n |-> new.clock[p], vhash |-> new.vhash, ts |-> new.ts]}
  /\ persisted' = [persisted EXCEPT ![p] = new]
  /\ Install(p, new, Files(snap[p]), Len(torrents) + 1)
-----------------------------------------------------------------------------
(* The user and the environment.                                           *)

Quiescent ==
  /\ \A p \in Peers : pc[p] = "idle" /\ events[p] = "none"
  /\ \A p, q \in Peers : state[p] = state[q]

MayEdit(p) == p \in Editors /\ edits < MaxEdits /\ (QuietEdits => Quiescent)

UserChange(p, f, c) ==
  /\ MayEdit(p)
  /\ root[p][f] # c
  /\ edits' = edits + 1
  /\ root' = [root EXCEPT ![p][f] = c]
  /\ events' = Notified(p)
  /\ meddled' = IF pc[p] = "write" THEN meddled \cup {p} ELSE meddled
  /\ UNCHANGED <<dotdir, shadow, persisted, pc, loop, session, broken, epoch, job, torrents,
                 announced, now, crashes, born>>

UserWrite(p) == \E f \in Paths, c \in Contents : UserChange(p, f, c)

UserDelete(p) == UserMayDelete /\ \E f \in Paths : UserChange(p, f, 0)

\* The whole root goes, .peerdup included (a lost mount, a cleaned folder).
RootWiped(p) ==
  /\ MayWipe
  /\ pc[p] = "down"
  /\ has_content(p)
  /\ root' = [root EXCEPT ![p] = NoFiles]
  /\ dotdir' = [dotdir EXCEPT ![p] = FALSE]
  /\ shadow' = [shadow EXCEPT ![p] = NoBlobs]
  /\ UNCHANGED <<persisted, pc, loop, session, broken, epoch, events, job, torrents,
                 announced, now, hist>>

\* A key rotation reaches the keyring between two events of the loop.
NextEpoch(p) ==
  /\ pc[p] = "idle"
  /\ epoch[p] < MaxEpoch
  /\ epoch' = [epoch EXCEPT ![p] = @ + 1]
  /\ events' = Cancelled(p)
  /\ UNCHANGED <<disk, pc, loop, session, broken, job, torrents, announced, now, hist>>

\* The daemon stops, by a crash or by finish_shutdown aborting the task.
Crash(p) ==
  /\ pc[p] # "down"
  /\ crashes < MaxCrashes
  /\ crashes' = crashes + 1
  /\ pc' = [pc EXCEPT ![p] = "down"]
  /\ state' = [state EXCEPT ![p] = NoState]
  /\ manifest' = [manifest EXCEPT ![p] = {}]
  /\ tor' = [tor EXCEPT ![p] = 0]
  /\ session' = [session EXCEPT ![p] = {}]
  /\ broken' = [broken EXCEPT ![p] = {}]
  /\ events' = [events EXCEPT ![p] = "none"]
  /\ snap' = [snap EXCEPT ![p] = NoFiles]
  /\ msg' = [msg EXCEPT ![p] = NoState]
  /\ todo' = [todo EXCEPT ![p] = {}]
  /\ UNCHANGED <<disk, epoch, torrents, announced, now, edits, born, meddled>>
-----------------------------------------------------------------------------
(* reconcile_on_start.                                                     *)

StartEmpty(p) ==
  /\ pc[p] = "down"
  /\ ~has_content(p)
  /\ pc' = [pc EXCEPT ![p] = "idle"]
  /\ session' = [session EXCEPT ![p] = {}]
  /\ UNCHANGED <<disk, loop, broken, epoch, events, job, torrents, announced, now, hist>>

StartSnapshot(p) ==
  /\ pc[p] = "down"
  /\ has_content(p)
  /\ pc' = [pc EXCEPT ![p] = "start"]
  /\ session' = [session EXCEPT ![p] = {}]
  /\ snap' = [snap EXCEPT ![p] = root[p]]
  /\ UNCHANGED <<disk, loop, broken, epoch, events, msg, todo, torrents, announced, now, hist>>

\* The part common to the two ways a snapshot becomes a torrent.
Republish(p) ==
  /\ Vanished(p) = {}
  /\ dotdir' = [dotdir EXCEPT ![p] = TRUE]
  /\ shadow' = [shadow EXCEPT ![p] = Encrypted(p)]
  /\ AddShadowTorrent(p)
  /\ pc' = [pc EXCEPT ![p] = "idle"]
  /\ snap' = [snap EXCEPT ![p] = NoFiles]
  /\ UNCHANGED <<root, broken, epoch, events, msg, todo, edits, crashes, meddled>>

Resumes(p) == persisted[p] # NoState /\ persisted[p].vhash = VHash(snap[p])

StartResumed(p) ==
  /\ pc[p] = "start"
  /\ Resumes(p)
  /\ Republish(p)
  /\ Install(p, persisted[p], Files(snap[p]), Len(torrents) + 1)
  /\ UNCHANGED <<persisted, now, born>>

StartEdited(p) ==
  /\ pc[p] = "start"
  /\ ~Resumes(p)
  /\ Republish(p)
  /\ NewVersion(p, persisted[p])

\* A snapshot that does not become a version: a file has gone since, the
\* torrent could not be added (librqbit may refuse one without files), or
\* state.json could not be written.
SnapshotFails(p, persists) ==
  /\ \/ /\ Vanished(p) # {}
        /\ shadow' = [shadow EXCEPT ![p] = EncryptedInPart(p)]
        /\ UNCHANGED <<torrents, session>>
     \/ /\ Vanished(p) = {} /\ Files(snap[p]) = {}
        /\ shadow' = [shadow EXCEPT ![p] = Encrypted(p)]
        /\ UNCHANGED <<torrents, session>>
     \/ /\ Vanished(p) = {} /\ persists
        /\ PersistMayFail /\ Len(torrents) < MaxTorrents
        /\ shadow' = [shadow EXCEPT ![p] = Encrypted(p)]
        /\ AddShadowTorrent(p)
  /\ dotdir' = [dotdir EXCEPT ![p] = TRUE]
  /\ snap' = [snap EXCEPT ![p] = NoFiles]
  /\ UNCHANGED <<root, persisted, loop, broken, epoch, events, msg, todo, announced, now, hist>>

\* reconcile_on_start returned an error: the share task is over.
StartFails(p) ==
  /\ pc[p] = "start"
  /\ SnapshotFails(p, ~Resumes(p))
  /\ pc' = [pc EXCEPT ![p] = "down"]
-----------------------------------------------------------------------------
(* Debounced local changes.                                                *)

\* debounce takes the first event and waits for the burst to end.
Settle(p) ==
  /\ pc[p] = "idle"
  /\ events[p] = "queued"
  /\ events' = [events EXCEPT ![p] = "settling"]
  /\ UNCHANGED <<disk, pc, loop, session, broken, epoch, job, torrents, announced, now, hist>>

Unchanged(p) ==
  \/ ~has_content(p)
  \/ state[p] # NoState /\ state[p].vhash = VHash(root[p])

\* handle_local_change up to the removal of the current torrent.  An error of
\* snapshot_content (a file has gone between the walk and the read) leaves
\* nothing behind but the event of the deletion, and is this step one later.
LocalSnapshot(p) ==
  /\ pc[p] = "idle"
  /\ events[p] = "settling"
  /\ events' = [events EXCEPT ![p] = "none"]
  /\ IF Unchanged(p)
     THEN UNCHANGED <<pc, snap, session>>
     ELSE /\ pc' = [pc EXCEPT ![p] = "snap"]
          /\ snap' = [snap EXCEPT ![p] = root[p]]
          /\ session' = [session EXCEPT ![p] = @ \ {tor[p]}]
  /\ UNCHANGED <<disk, loop, broken, epoch, msg, todo, torrents, announced, now, hist>>

LocalChange(p) ==
  /\ pc[p] = "snap"
  /\ Republish(p)
  /\ NewVersion(p, state[p])

LocalChangeFails(p) ==
  /\ pc[p] = "snap"
  /\ SnapshotFails(p, TRUE)
  /\ pc' = [pc EXCEPT ![p] = "idle"]
-----------------------------------------------------------------------------
(* Gossip.                                                                 *)

\* The ten-second tick republishes the state and ends the select! round.
Tick(p) ==
  /\ pc[p] = "idle"
  /\ announced' = IF state[p] = NoState THEN announced
                  ELSE announced \cup {Announcement(p, state[p], tor[p])}
  /\ events' = Cancelled(p)
  /\ UNCHANGED <<disk, pc, loop, session, broken, epoch, job, torrents, now, hist>>

Ignore(p, m) ==
  /\ pc[p] = "idle" /\ m.from # p
  /\ Ignores(state[p], m)
  /\ events' = Cancelled(p)
  /\ UNCHANGED <<disk, pc, loop, session, broken, epoch, job, torrents, announced, now, hist>>

KeepLocal(p, m) ==
  /\ pc[p] = "idle" /\ m.from # p
  /\ KeepsLocal(state[p], m)
  /\ Install(p, LocalWins(state[p], m), manifest[p], tor[p])
  /\ PersistOrWarn(p, LocalWins(state[p], m))
  /\ events' = Cancelled(p)
  /\ UNCHANGED <<root, dotdir, shadow, pc, session, broken, epoch, job, torrents, now, hist>>

\* apply_remote_sync: drop our torrent, make the shadow, add the magnet.
BeginFetch(p, m) ==
  /\ pc[p] = "idle" /\ m.from # p
  /\ Fetches(state[p], m)
  /\ pc' = [pc EXCEPT ![p] = "resolve"]
  /\ msg' = [msg EXCEPT ![p] = m]
  /\ session' = [session EXCEPT ![p] = @ \ {tor[p]}]
  /\ dotdir' = [dotdir EXCEPT ![p] = TRUE]
  /\ events' = Cancelled(p)
  /\ UNCHANGED <<root, shadow, persisted, loop, broken, epoch, snap, todo, torrents,
                 announced, now, hist>>

\* The only source is the endpoint in the announce; a torrent the session
\* still holds, complete or failed, is AlreadyManaged.
Held(p) == msg[p].ih \in session[p]
Failed(p) == msg[p].ih \in broken[p]
SourceHas(p) == msg[p].ih \in session[msg[p].from]

\* The source's files on disk are still those the torrent was made of.
SourceIntact(p) ==
  LET t == torrents[msg[p].ih] IN
  \A f \in Blobs(t) : shadow[msg[p].from][f] = t[f]

\* The error returns of apply_remote_sync: `state` stays as it was.
Abandon(p) ==
  /\ pc' = [pc EXCEPT ![p] = "idle"]
  /\ msg' = [msg EXCEPT ![p] = NoState]
  /\ todo' = [todo EXCEPT ![p] = {}]
  /\ UNCHANGED <<root, dotdir, persisted, loop, session, epoch, events, snap, torrents,
                 announced, now, hist>>

ResolveFails(p) ==
  /\ pc[p] = "resolve"
  /\ ~Held(p) /\ ~Failed(p) /\ ~SourceHas(p)
  /\ Abandon(p)
  /\ UNCHANGED <<shadow, broken>>

Resolve(p) ==
  /\ pc[p] = "resolve"
  /\ Held(p) \/ Failed(p) \/ SourceHas(p)
  /\ pc' = [pc EXCEPT ![p] = "fetch"]
  /\ UNCHANGED <<disk, loop, session, broken, epoch, events, job, torrents, announced, now, hist>>

\* wait_until_completed, which has no timeout.
FetchDone(p) ==
  LET t == torrents[msg[p].ih]
      fetched == IF Held(p) THEN shadow[p]
                 ELSE [f \in Paths |-> IF f \in Blobs(t) THEN t[f] ELSE shadow[p][f]]
  IN
  /\ pc[p] = "fetch" /\ ~Failed(p)
  /\ Held(p) \/ (SourceHas(p) /\ SourceIntact(p))
  /\ shadow' = [shadow EXCEPT ![p] = fetched]
  /\ session' = [session EXCEPT ![p] = @ \cup {msg[p].ih}]
  /\ pc' = [pc EXCEPT ![p] = "write"]
  /\ todo' = [todo EXCEPT ![p] = Blobs(fetched)]
  /\ UNCHANGED <<root, dotdir, persisted, loop, broken, epoch, events, snap, msg, torrents,
                 announced, now, hist>>

\* wait_until_completed returns an error, with some of the files written and
\* some half written.  Nobody calls session.delete for the torrent.
FetchFails(p) ==
  LET t == torrents[msg[p].ih] IN
  /\ pc[p] = "fetch" /\ FetchMayFail
  /\ ~Held(p) /\ ~Failed(p)
  /\ \E got, torn \in SUBSET Blobs(t) :
       shadow' = [shadow EXCEPT ![p] =
                    [f \in Paths |-> IF f \in torn THEN Torn ELSE IF f \in got THEN t[f] ELSE @[f]]]
  /\ broken' = [broken EXCEPT ![p] = @ \cup {msg[p].ih}]
  /\ Abandon(p)

\* ... and when the torrent is announced again, it returns that error at once.
FetchFailsAgain(p) ==
  /\ pc[p] = "fetch" /\ Failed(p)
  /\ Abandon(p)
  /\ UNCHANGED <<shadow, broken>>

\* One turn of sync_shadow_to_plaintext, in directory order, that is any.
Decrypt(p) ==
  /\ pc[p] = "write"
  /\ \E f \in todo[p] :
       /\ shadow[p][f].e <= epoch[p]
       /\ root' = [root EXCEPT ![p][f] = shadow[p][f].c]
       /\ todo' = [todo EXCEPT ![p] = @ \ {f}]
  /\ events' = Notified(p)
  /\ UNCHANGED <<dotdir, shadow, persisted, pc, loop, session, broken, epoch, snap, msg, torrents,
                 announced, now, hist>>

DecryptFails(p) ==
  /\ pc[p] = "write"
  /\ \E f \in todo[p] : shadow[p][f].e > epoch[p]
  /\ Abandon(p)
  /\ UNCHANGED <<shadow, broken>>

VerifyFails(p) ==
  /\ pc[p] = "write" /\ todo[p] = {}
  /\ VHash(root[p]) # msg[p].vhash
  /\ Abandon(p)
  /\ UNCHANGED <<shadow, broken>>

Commit_unmerged(p) ==
  LET new == Abstract(msg[p])
      files == Blobs(shadow[p]) IN
  /\ pc[p] = "write" /\ todo[p] = {}
  /\ VHash(root[p]) = msg[p].vhash
  /\ Install(p, new, files, msg[p].ih)
  /\ PersistOrWarn(p, new)
  /\ pc' = [pc EXCEPT ![p] = "idle"]
  /\ msg' = [msg EXCEPT ![p] = NoState]
  /\ UNCHANGED <<root, dotdir, shadow, session, broken, epoch, events, snap, todo, torrents,
                 now, hist>>


\* delete_orphans, persist, publish and the assignment of `state`.
Commit(p) ==
  LET new == Adopted(state[p], msg[p])
      files == Blobs(shadow[p]) IN
  /\ pc[p] = "write" /\ todo[p] = {}
  /\ VHash(root[p]) = msg[p].vhash
  /\ root' = [root EXCEPT ![p] = [f \in Paths |-> IF f \in manifest[p] \ files THEN 0 ELSE @[f]]]
  /\ Install(p, new, files, msg[p].ih)
  /\ PersistOrWarn(p, new)
  /\ pc' = [pc EXCEPT ![p] = "idle"]
  /\ msg' = [msg EXCEPT ![p] = NoState]
  /\ UNCHANGED <<dotdir, shadow, session, broken, epoch, events, snap, todo, torrents, now, hist>>
-----------------------------------------------------------------------------
User(p) == UserWrite(p) \/ UserDelete(p) \/ RootWiped(p)

Start(p) ==
  StartEmpty(p) \/ StartSnapshot(p) \/ StartResumed(p) \/ StartEdited(p) \/ StartFails(p)

Change(p) == Settle(p) \/ LocalSnapshot(p) \/ LocalChange(p) \/ LocalChangeFails(p)

Receive(p, m) == Ignore(p, m) \/ KeepLocal(p, m) \/ BeginFetch(p, m)

Progress(p) ==
  \/ ResolveFails(p) \/ Resolve(p) \/ FetchDone(p) \/ FetchFailsAgain(p)
  \/ Decrypt(p) \/ DecryptFails(p) \/ VerifyFails(p) \/ Commit(p)

Apply(p) == Progress(p) \/ FetchFails(p)

Next ==
  \E p \in Peers :
    \/ User(p)
    \/ Crash(p)
    \/ NextEpoch(p)
    \/ Start(p)
    \/ Change(p)
    \/ Tick(p)
    \/ \E m \in announced : Receive(p, m)
    \/ Apply(p)

Spec == Init /\ [][Next]_vars
-----------------------------------------------------------------------------
(***************************************************************************)
(* Fairness: a stopped daemon is started again, the loop and librqbit make *)
(* progress, and because an idle peer repeats its announce every ten       *)
(* seconds, a peer that is ready for it again and again hears it.  A burst *)
(* settles in half a second, so not every one of them is cut short by the  *)
(* rounds of announces: debounce is strongly fair.  Nothing makes a        *)
(* download that does not end fail.                                        *)
(***************************************************************************)
Heed(p, q) ==
  /\ pc[q] = "idle" /\ state[q] # NoState
  /\ LET m == Announcement(q, state[q], tor[q]) IN
       m \in announced /\ (KeepLocal(p, m) \/ BeginFetch(p, m))

Fairness ==
  /\ \A p \in Peers : WF_vars(Start(p)) /\ WF_vars(Change(p)) /\ WF_vars(Progress(p))
  /\ \A p \in Peers : SF_vars(Settle(p)) /\ SF_vars(LocalSnapshot(p))
  /\ \A p, q \in Peers : SF_vars(Heed(p, q))

FairSpec == Spec /\ Fairness
-----------------------------------------------------------------------------
(* The version protocol this implements.  A share task counts as up when   *)
(* reconcile_on_start has returned.                                        *)
Versions == INSTANCE VersionSync WITH
  Stamps <- 1..MaxVersions,
  Synced <- TRUE,
  up <- [p \in Peers |-> pc[p] \notin {"down", "start"}],
  announced <- {Abstract(m) : m \in announced}

(* Whatever happens to files, fetches and restarts, clocks, persisted      *)
(* state and announces evolve as VersionSync allows.                       *)
ImplementsVersionSync == Versions!Spec

\* The torrent an announce names decrypts to the folder it names.
Honest(m) == VHash([f \in Paths |-> torrents[m.ih][f].c]) = m.vhash

(* Every announce is honest about its content.  A folder is read once for  *)
(* the hash and again for the ciphertext, so this holds only as long as    *)
(* users leave it alone in between.                                        *)
TorrentHoldsVersion == \A m \in announced : Honest(m)


(* A listening peer with nothing queued has accounted for its folder: the  *)
(* watcher means that any change leads to "recompute the version hash".    *)
ChangesAreNoticed ==
  \A p \in Peers :
    pc[p] = "idle" /\ events[p] = "none" /\ state[p] # NoState =>
      state[p].vhash = VHash(root[p])

(* Sequential edits converge: once the users stop, the peers hold the same *)
(* version for good, whichever of the repeated announces each of them      *)
(* heard and however far a fetch had come when the next one began; unless  *)
(* the download of a peer's torrent has failed in the session of another.  *)
VersionsConverge ==
  <>[](\A p, q \in Peers :
         state[p] = state[q] \/ tor[q] \in broken[p] \/ tor[p] \in broken[q])
=============================================================================

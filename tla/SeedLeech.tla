----------------------------- MODULE SeedLeech -----------------------------
(***************************************************************************)
(* Shares with the roles Seed and Leech: seed_loop, leech_loop and         *)
(* leech_apply_announce of src/daemon.rs.                                  *)
(*                                                                         *)
(* A seed makes a torrent of its folder when it starts and announces its   *)
(* info hash on every tick.  A leech waits for an announce, adds the       *)
(* torrent, waits inside the loop until it is complete, and ignores all    *)
(* later announces.  BitTorrent is external: a piece is served by the      *)
(* announcing seed, and is accepted only if it is the one of the torrent;  *)
(* a torrent that went into an error stays in the session as it is, and    *)
(* adding it again hands out the same one.                                 *)
(***************************************************************************)
EXTENDS Naturals, FiniteSets

CONSTANTS
  Seeds, Leeches,   \* peers of one share
  NumPaths, NumContents,
  Versions,         \* the folders that the users of the seeds put together
  MaxEdits,         \* bound on edits of the seeds' folders
  MaxFaults         \* bound on daemon stops and errors of a download

ASSUME SeedLeechAssumption ==
  /\ Seeds \cap Leeches = {}
  /\ NumPaths \in Nat \ {0} /\ NumContents \in Nat \ {0}
  /\ Versions \subseteq {f \in [1..NumPaths -> 0..NumContents] : \E i \in 1..NumPaths : f[i] # 0}
  /\ MaxEdits \in Nat /\ MaxFaults \in Nat

VARIABLES
  up,           \* is the share task of a peer running?
  root,         \* files of each peer's folder; 0 where there is none
  torrent,      \* what each seed has in its session
  inbox,        \* announces that wait in a leech's subscription
  phase,        \* of a leech: where it is in its loop
  fetch,        \* of a leech: the torrent it has added, or is adding
  broken,       \* of a leech: torrents in its session whose download failed
  asked,        \* of a leech: does a command wait for its answer?
  edits, faults

vars == <<up, root, torrent, inbox, phase, fetch, broken, asked, edits, faults>>

Peers == Seeds \cup Leeches
Paths == 1..NumPaths
Files == [Paths -> 0..NumContents]
\* The order in which the seed lists its files is part of the info hash.
Torrents == [by : Seeds, files : Versions]
NoTorrent == [files |-> <<>>]

TypeOK ==
  /\ up \in [Peers -> BOOLEAN]
  /\ root \in [Peers -> Files]
  /\ torrent \in [Seeds -> Torrents \cup {NoTorrent}]
  /\ inbox \in [Leeches -> SUBSET Torrents]
  /\ phase \in [Leeches -> {"select", "adding", "downloading", "completed"}]
  /\ fetch \in [Leeches -> Torrents \cup {NoTorrent}]
  /\ broken \in [Leeches -> SUBSET Torrents]
  /\ asked \in [Leeches -> BOOLEAN]
  /\ edits \in 0..MaxEdits /\ faults \in 0..MaxFaults

Init ==
  /\ up = [p \in Peers |-> FALSE]
  /\ root \in {r \in [Peers -> Files] :
                 /\ \A s \in Seeds : r[s] \in Versions
                 /\ \A l \in Leeches, i \in Paths : r[l][i] = 0}
  /\ torrent = [s \in Seeds |-> NoTorrent]
  /\ inbox = [l \in Leeches |-> {}]
  /\ phase = [l \in Leeches |-> "select"]
  /\ fetch = [l \in Leeches |-> NoTorrent]
  /\ broken = [l \in Leeches |-> {}]
  /\ asked = [l \in Leeches |-> FALSE]
  /\ edits = 0 /\ faults = 0
-----------------------------------------------------------------------------
(***************************************************************************)
(* The seed.                                                               *)
(***************************************************************************)
\* create_torrent and add_torrent, before the loop.  An error in either ends
\* the share task: it is not up until the next start of the daemon.
StartSeed(s) ==
  /\ ~up[s]
  /\ up' = [up EXCEPT ![s] = TRUE]
  /\ torrent' = [torrent EXCEPT ![s] = [by |-> s, files |-> root[s]]]
  /\ UNCHANGED <<root, inbox, phase, fetch, broken, asked, edits, faults>>

Announce_early(s) ==
  /\ \E R \in SUBSET {l \in Leeches : up[l]} :
       inbox' = [l \in Leeches |-> IF l \in R THEN inbox[l] \cup {torrent[s]} ELSE inbox[l]]
  /\ UNCHANGED <<up, root, torrent, phase, fetch, broken, asked, edits, faults>>

\* A tick; gossip reaches some of the leeches that are subscribed.
Announce(s) ==
  /\ up[s]
  /\ \E R \in SUBSET {l \in Leeches : up[l]} :
       inbox' = [l \in Leeches |-> IF l \in R THEN inbox[l] \cup {torrent[s]} ELSE inbox[l]]
  /\ UNCHANGED <<up, root, torrent, phase, fetch, broken, asked, edits, faults>>

\* The user works in the folder; the loop does not watch it.
Edit(s, f) ==
  /\ edits < MaxEdits
  /\ f # root[s]
  /\ root' = [root EXCEPT ![s] = f]
  /\ edits' = edits + 1
  /\ UNCHANGED <<up, torrent, inbox, phase, fetch, broken, asked, faults>>

Serves_paused(t, i) == FALSE

\* A seed sends the piece of file i of torrent t, and the hash is right.
Serves(t, i) ==
  /\ up[t.by] /\ torrent[t.by] = t
  /\ root[t.by][i] = t.files[i]
-----------------------------------------------------------------------------
(***************************************************************************)
(* The leech.                                                              *)
(***************************************************************************)
StartLeech(l) ==
  /\ ~up[l]
  /\ up' = [up EXCEPT ![l] = TRUE]
  /\ UNCHANGED <<root, torrent, inbox, phase, fetch, broken, asked, edits, faults>>

\* An announce, if !completed; otherwise it is dropped.
Hear(l, t) ==
  /\ up[l] /\ phase[l] \in {"select", "completed"} /\ t \in inbox[l]
  /\ inbox' = [inbox EXCEPT ![l] = @ \ {t}]
  /\ IF phase[l] = "select"
     THEN phase' = [phase EXCEPT ![l] = "adding"] /\ fetch' = [fetch EXCEPT ![l] = t]
     ELSE UNCHANGED <<phase, fetch>>
  /\ UNCHANGED <<up, root, torrent, broken, asked, edits, faults>>

\* add_torrent with a magnet returns when a peer has sent the torrent's info.
Added(l) ==
  /\ phase[l] = "adding"
  /\ up[fetch[l].by] /\ torrent[fetch[l].by] = fetch[l]
  /\ phase' = [phase EXCEPT ![l] = "downloading"]
  /\ UNCHANGED <<up, root, torrent, inbox, fetch, broken, asked, edits, faults>>

Fail_completed(l) ==
  /\ phase' = [phase EXCEPT ![l] = "completed"]
  /\ UNCHANGED fetch

\* leech_apply_announce returns an error: the next announce is tried.
Fail(l) ==
  /\ phase' = [phase EXCEPT ![l] = "select"]
  /\ fetch' = [fetch EXCEPT ![l] = NoTorrent]

AddFails(l) ==
  /\ phase[l] = "adding"
  /\ Fail(l)
  /\ UNCHANGED <<up, root, torrent, inbox, broken, asked, edits, faults>>

\* wait_until_completed returns an error; nobody calls session.delete.
WaitFails(l) ==
  /\ phase[l] = "downloading" /\ faults < MaxFaults
  /\ faults' = faults + 1
  /\ broken' = [broken EXCEPT ![l] = @ \cup {fetch[l]}]
  /\ Fail(l)
  /\ UNCHANGED <<up, root, torrent, inbox, asked, edits>>

\* add_torrent found the torrent of an earlier error (AlreadyManaged), and
\* wait_until_completed returns that error at once.
WaitFailsAgain(l) ==
  /\ phase[l] = "downloading" /\ fetch[l] \in broken[l]
  /\ Fail(l)
  /\ UNCHANGED <<up, root, torrent, inbox, broken, asked, edits, faults>>

Missing(l) == {i \in Paths : fetch[l].files[i] \notin {0, root[l][i]}}

\* What is on disk already and matches is not downloaded again.
Download(l, i) ==
  /\ phase[l] = "downloading" /\ fetch[l] \notin broken[l]
  /\ i \in Missing(l)
  /\ Serves(fetch[l], i)
  /\ root' = [root EXCEPT ![l][i] = fetch[l].files[i]]
  /\ UNCHANGED <<up, torrent, inbox, phase, fetch, broken, asked, edits, faults>>

\* wait_until_completed has returned.
Complete(l) ==
  /\ phase[l] = "downloading" /\ fetch[l] \notin broken[l]
  /\ Missing(l) = {}
  /\ phase' = [phase EXCEPT ![l] = "completed"]
  /\ UNCHANGED <<up, root, torrent, inbox, fetch, broken, asked, edits, faults>>

Ask(l) ==
  /\ up[l] /\ ~asked[l]
  /\ asked' = [asked EXCEPT ![l] = TRUE]
  /\ UNCHANGED <<up, root, torrent, inbox, phase, fetch, broken, edits, faults>>

Answer_select(l) ==
  /\ up[l] /\ asked[l] /\ phase[l] = "select"
  /\ asked' = [asked EXCEPT ![l] = FALSE]
  /\ UNCHANGED <<up, root, torrent, inbox, phase, fetch, broken, edits, faults>>

\* handle_share_command, in the loop's select! only.
Answer(l) ==
  /\ up[l] /\ asked[l] /\ phase[l] \in {"select", "completed"}
  /\ asked' = [asked EXCEPT ![l] = FALSE]
  /\ UNCHANGED <<up, root, torrent, inbox, phase, fetch, broken, edits, faults>>

\* The daemon ends: `completed`, the session and the channel go with it.
Crash(p) ==
  /\ up[p] /\ faults < MaxFaults
  /\ faults' = faults + 1
  /\ up' = [up EXCEPT ![p] = FALSE]
  /\ IF p \in Seeds
     THEN torrent' = [torrent EXCEPT ![p] = NoTorrent] /\ UNCHANGED <<inbox, phase, fetch, broken, asked>>
     ELSE /\ inbox' = [inbox EXCEPT ![p] = {}]
          /\ phase' = [phase EXCEPT ![p] = "select"]
          /\ fetch' = [fetch EXCEPT ![p] = NoTorrent]
          /\ broken' = [broken EXCEPT ![p] = {}]
          /\ asked' = [asked EXCEPT ![p] = FALSE]
          /\ UNCHANGED torrent
  /\ UNCHANGED <<root, edits>>

Next ==
  \/ \E s \in Seeds :
       \/ StartSeed(s)
       \/ Announce(s)
       \/ \E f \in Versions : Edit(s, f)
  \/ \E l \in Leeches :
       \/ StartLeech(l)
       \/ \E t \in inbox[l] : Hear(l, t)
       \/ Added(l)
       \/ AddFails(l)
       \/ WaitFails(l)
       \/ WaitFailsAgain(l)
       \/ \E i \in Paths : Download(l, i)
       \/ Complete(l)
       \/ Ask(l)
       \/ Answer(l)
  \/ \E p \in Peers : Crash(p)

Spec == Init /\ [][Next]_vars
-----------------------------------------------------------------------------
(***************************************************************************)
(* Fairness: daemons are started; a leech that listens hears a tick of     *)
(* each seed, as its subscription is a queue; add_torrent returns, and one *)
(* day succeeds with a seed that can be reached again and again; a         *)
(* download goes on while it is served; select! is fair to commands.       *)
(***************************************************************************)
Reach(s, l) == Announce(s) /\ torrent[s] \in inbox'[l]

HearSeed(s, l) == \E t \in inbox[l] : t.by = s /\ Hear(l, t)

AddedFrom(s, l) == fetch[l] # NoTorrent /\ fetch[l].by = s /\ Added(l)

Fairness ==
  /\ \A s \in Seeds :
       /\ WF_vars(StartSeed(s))
       /\ \A l \in Leeches :
            WF_vars(Reach(s, l)) /\ SF_vars(HearSeed(s, l)) /\ SF_vars(AddedFrom(s, l))
  /\ \A l \in Leeches :
       /\ WF_vars(StartLeech(l)) /\ SF_vars(Answer(l)) /\ WF_vars(Complete(l))
       /\ WF_vars(AddFails(l)) /\ WF_vars(WaitFailsAgain(l))
       /\ WF_vars(\E i \in Paths : Download(l, i))

FairSpec == Spec /\ Fairness
-----------------------------------------------------------------------------
(* A leech that reports its download as completed has every file of the    *)
(* torrent it took, each with the content that seed listed: not some files *)
(* of another seed, of a later edit, or of the torrent that failed before. *)
(* (Files that its torrent does not have may be left over beside them.)    *)
CompletedIsWhole ==
  \A l \in Leeches : phase[l] = "completed" =>
    \A i \in Paths : fetch[l].files[i] # 0 => root[l][i] = fetch[l].files[i]

\* The leech waits for a torrent of files that its seed has no longer.
Stranded(l) ==
  phase[l] = "downloading" /\ root[fetch[l].by] # fetch[l].files

\* All that the seeds have to offer has failed in the session of the leech.
Exhausted(l) == \A s \in Seeds : torrent[s] \in broken[l]

(* Every leech ends up completed, through stops on both sides, lost        *)
(* announces, failed adds and a download that failed for good, as long as  *)
(* one seed is left whose torrent has not failed; unless it is stranded.   *)
LeechCompletes ==
  \A l \in Leeches : <>[](phase[l] = "completed") \/ <>[]Stranded(l) \/ <>[]Exhausted(l)

(* A command to a leech is answered, although the loop does nothing else   *)
(* while it downloads, unless the leech is stranded.                       *)
CommandsAnswered ==
  \A l \in Leeches : asked[l] ~> (~asked[l] \/ Stranded(l))
=============================================================================

-------------------------- MODULE SeedLeechProofs --------------------------
(***************************************************************************)
(* What a leech calls completed is whole, for any number of seeds, leeches *)
(* and files, through any edits and stops.                                 *)
(***************************************************************************)
EXTENDS SeedLeech, TLAPS

\* The strengthening: torrents are there when they are announced or fetched.
SeedInv ==
  /\ TypeOK
  /\ \A s \in Seeds : root[s] \in Versions /\ (up[s] => torrent[s] \in Torrents)
  /\ \A l \in Leeches : phase[l] # "select" => fetch[l] \in Torrents
  /\ CompletedIsWhole

(* The daemons start with nothing fetched.                                 *)
LEMMA InitSeedInv == Init => SeedInv
BY SeedLeechAssumption
   DEF Init, SeedInv, TypeOK, CompletedIsWhole, Peers, Files, Paths, NoTorrent

(* The actions that leave phase, fetch and the leeches' folders alone.     *)
LEMMA OthersKeepSeedInv ==
  ASSUME SeedInv,
         \/ \E s \in Seeds : StartSeed(s) \/ Announce(s) \/ \E f \in Versions : Edit(s, f)
         \/ \E l \in Leeches : StartLeech(l) \/ Ask(l) \/ Answer(l)
         \/ UNCHANGED vars
  PROVE  SeedInv'
<1>1. ASSUME NEW s \in Seeds, StartSeed(s) PROVE SeedInv'
  BY <1>1, SeedLeechAssumption
     DEF StartSeed, SeedInv, TypeOK, CompletedIsWhole, Peers, Torrents
<1>2. ASSUME NEW s \in Seeds, Announce(s) PROVE SeedInv'
  <2>1. inbox' \in [Leeches -> SUBSET Torrents]
    BY <1>2 DEF Announce, SeedInv, TypeOK
  <2> QED
    BY <1>2, <2>1 DEF Announce, SeedInv, TypeOK, CompletedIsWhole
<1>3. ASSUME NEW s \in Seeds, NEW f \in Versions, Edit(s, f) PROVE SeedInv'
  <2>1. /\ root' \in [Peers -> Files]
        /\ \A t \in Seeds : root'[t] \in Versions
        /\ \A l \in Leeches : root'[l] = root[l]
    BY <1>3, SeedLeechAssumption DEF Edit, SeedInv, TypeOK, Peers, Files, Paths
  <2>2. edits' \in 0..MaxEdits
    BY <1>3, SeedLeechAssumption DEF Edit, SeedInv, TypeOK
  <2> QED
    BY <1>3, <2>1, <2>2 DEF Edit, SeedInv, TypeOK, CompletedIsWhole
<1>4. ASSUME NEW l \in Leeches, StartLeech(l) PROVE SeedInv'
  BY <1>4, SeedLeechAssumption
     DEF StartLeech, SeedInv, TypeOK, CompletedIsWhole, Peers
<1>5. ASSUME NEW l \in Leeches, Ask(l) \/ Answer(l) PROVE SeedInv'
  <2>1. asked' \in [Leeches -> BOOLEAN]
    BY <1>5 DEF Ask, Answer, SeedInv, TypeOK
  <2>2. UNCHANGED <<up, root, torrent, inbox, phase, fetch, broken, edits, faults>>
    BY <1>5 DEF Ask, Answer
  <2> QED
    BY <2>1, <2>2 DEF SeedInv, TypeOK, CompletedIsWhole
<1>6. ASSUME UNCHANGED vars PROVE SeedInv'
  BY <1>6 DEF vars, SeedInv, TypeOK, CompletedIsWhole
<1> QED
  BY <1>1, <1>2, <1>3, <1>4, <1>5, <1>6

(* A leech takes up a torrent, gives it up, or finds it complete.          *)
LEMMA LeechKeepsSeedInv ==
  ASSUME SeedInv, NEW l \in Leeches,
         \/ \E t \in inbox[l] : Hear(l, t)
         \/ Added(l) \/ AddFails(l) \/ WaitFails(l) \/ WaitFailsAgain(l) \/ Complete(l)
  PROVE  SeedInv'
<1>1. ASSUME NEW t \in inbox[l], Hear(l, t) PROVE SeedInv'
  <2>1. t \in Torrents /\ inbox' \in [Leeches -> SUBSET Torrents]
    BY <1>1 DEF Hear, SeedInv, TypeOK
  <2>2. CASE phase[l] = "select"
    BY <1>1, <2>1, <2>2 DEF Hear, SeedInv, TypeOK, CompletedIsWhole
  <2>3. CASE phase[l] # "select"
    BY <1>1, <2>1, <2>3 DEF Hear, SeedInv, TypeOK, CompletedIsWhole
  <2> QED
    BY <2>2, <2>3
<1>2. CASE Added(l)
  BY <1>2 DEF Added, SeedInv, TypeOK, CompletedIsWhole
<1>3. CASE AddFails(l)
  BY <1>3 DEF AddFails, Fail, SeedInv, TypeOK, CompletedIsWhole
<1>4. CASE WaitFails(l)
  <2>1. /\ faults' \in 0..MaxFaults
        /\ broken' \in [Leeches -> SUBSET Torrents]
    BY <1>4, SeedLeechAssumption DEF WaitFails, SeedInv, TypeOK
  <2> QED BY <1>4, <2>1 DEF WaitFails, Fail, SeedInv, TypeOK, CompletedIsWhole
<1>6. CASE WaitFailsAgain(l)
  BY <1>6 DEF WaitFailsAgain, Fail, SeedInv, TypeOK, CompletedIsWhole
<1>5. CASE Complete(l)
  <2>1. \A i \in Paths : fetch[l].files[i] # 0 => root[l][i] = fetch[l].files[i]
    BY <1>5 DEF Complete, Missing
  <2> QED BY <1>5, <2>1 DEF Complete, SeedInv, TypeOK, CompletedIsWhole
<1> QED
  BY <1>1, <1>2, <1>3, <1>4, <1>5, <1>6

(* A piece goes into the folder of a leech that has not completed.         *)
LEMMA DownloadKeepsSeedInv ==
  ASSUME SeedInv, NEW l \in Leeches, NEW i \in Paths, Download(l, i)
  PROVE  SeedInv'
<1>1. fetch[l] \in Torrents /\ root[l] \in Files
  BY DEF Download, SeedInv, TypeOK, Peers
<1>2. fetch[l].files[i] \in 0..NumContents
  BY <1>1, SeedLeechAssumption DEF Torrents, Files, Paths
<1>3. [root[l] EXCEPT ![i] = fetch[l].files[i]] \in Files
  BY <1>1, <1>2 DEF Files
<1>4. /\ root' \in [Peers -> Files]
      /\ \A p \in Peers : p # l => root'[p] = root[p]
  BY <1>3 DEF Download, SeedInv, TypeOK, Peers
<1>5. \A s \in Seeds : root'[s] = root[s]
  BY <1>4, SeedLeechAssumption DEF Peers
<1>6. \A k \in Leeches : phase'[k] = "completed" => k # l /\ root'[k] = root[k]
  BY <1>4 DEF Download, Peers
<1>7. UNCHANGED <<up, torrent, inbox, phase, fetch, broken, asked, edits, faults>>
  BY DEF Download
<1>8. TypeOK'
  BY <1>4, <1>7 DEF SeedInv, TypeOK
<1>9. CompletedIsWhole'
  BY <1>6, <1>7 DEF SeedInv, CompletedIsWhole
<1> QED
  BY <1>5, <1>7, <1>8, <1>9 DEF SeedInv

(* A stop of either kind of peer.                                          *)
LEMMA CrashKeepsSeedInv ==
  ASSUME SeedInv, NEW p \in Peers, Crash(p)
  PROVE  SeedInv'
<1>1. /\ faults' \in 0..MaxFaults /\ up' \in [Peers -> BOOLEAN]
      /\ \A q \in Peers : up'[q] => up[q] /\ q # p
  BY SeedLeechAssumption DEF Crash, SeedInv, TypeOK
<1>2. CASE p \in Seeds
  BY <1>1, <1>2 DEF Crash, SeedInv, TypeOK, CompletedIsWhole, Peers
<1>3. CASE p \notin Seeds
  <2>1. p \in Leeches
    BY <1>3 DEF Peers
  <2>2. /\ inbox' \in [Leeches -> SUBSET Torrents]
        /\ phase' \in [Leeches -> {"select", "adding", "downloading", "completed"}]
        /\ fetch' \in [Leeches -> Torrents \cup {NoTorrent}]
        /\ broken' \in [Leeches -> SUBSET Torrents]
        /\ asked' \in [Leeches -> BOOLEAN]
    BY <1>3, <2>1 DEF Crash, SeedInv, TypeOK
  <2>3. TypeOK'
    BY <1>1, <1>3, <2>2 DEF Crash, SeedInv, TypeOK
  <2>4. \A l \in Leeches : phase'[l] # "select" => phase'[l] = phase[l] /\ fetch'[l] = fetch[l]
    BY <1>3, <2>1 DEF Crash, SeedInv, TypeOK
  <2>5. root' = root /\ torrent' = torrent
    BY <1>3 DEF Crash
  <2>6. \A s \in Seeds : root'[s] \in Versions /\ (up'[s] => torrent'[s] \in Torrents)
    BY <1>1, <2>5 DEF SeedInv, Peers
  <2> QED
    BY <2>3, <2>4, <2>5, <2>6 DEF SeedInv, CompletedIsWhole
<1> QED
  BY <1>2, <1>3

(* SeedInv holds in every state: it is inductive.                          *)
THEOREM SeedInvHolds == Spec => []SeedInv
<1>1. SeedInv /\ [Next]_vars => SeedInv'
  BY OthersKeepSeedInv, LeechKeepsSeedInv, DownloadKeepsSeedInv, CrashKeepsSeedInv DEF Next
<1> QED
  BY <1>1, InitSeedInv, PTL DEF Spec

(* leech_loop sets `completed` only when every file of the torrent it      *)
(* fetched is in the folder with the content the seed listed, whatever     *)
(* failed before, and nothing it does later changes that.                  *)
THEOREM LeechesHoldWhatTheyFetched == Spec => []CompletedIsWhole
<1>1. SeedInv => CompletedIsWhole
  BY DEF SeedInv
<1> QED
  BY <1>1, SeedInvHolds, PTL

(* Every state of the module is well typed.                                *)
THEOREM SeedLeechTypes == Spec => []TypeOK
<1>1. SeedInv => TypeOK
  BY DEF SeedInv
<1> QED
  BY <1>1, SeedInvHolds, PTL
=============================================================================

------------------------- MODULE VersionSyncProofs -------------------------
(***************************************************************************)
(* Proofs about the version protocol, for any number of peers, versions    *)
(* and restarts: the clock of a version identifies it, provided that edits *)
(* are stamped later than what they edit (Synced) and that no share root   *)
(* is emptied behind the daemon's back (~MayWipe).                         *)
(***************************************************************************)
EXTENDS VersionSync, ShareVersionProofs

Ver == Version(VHashes, Stamps)

LEMMA NoStateIsNoVersion == NoState \notin Ver
BY VersionAssumption DEF Ver, Version

LEMMA VersionFields ==
  ASSUME NEW m \in Ver
  PROVE  /\ m.vhash \in VHashes /\ m.vhash \in Nat
         /\ m.ts \in Stamps /\ m.ts \in Nat
         /\ m.clock \in Clocks
         /\ m.clock # ZeroClock
         /\ \A q \in Peers : m.clock[q] \in Nat
BY VersionAssumption DEF Ver, Version, Clocks

LEMMA ClockOfType ==
  ASSUME NEW s \in Ver \cup {NoState}
  PROVE  /\ ClockOf(s) \in Clocks
         /\ \A q \in Peers : ClockOf(s)[q] \in Nat
         /\ s # NoState => ClockOf(s) = s.clock
         /\ s = NoState => \A q \in Peers : ClockOf(s)[q] = 0
BY ZeroIsClock, VersionFields DEF ClockOf, Clocks

LEMMA BirthFields ==
  ASSUME TypeOK, NEW e \in born
  PROVE  /\ e.peer \in Peers
         /\ e.n \in Nat
         /\ e.vhash \in VHashes /\ e.vhash \in Nat
         /\ e.ts \in Stamps /\ e.ts \in Nat
BY VersionAssumption DEF TypeOK, Births

LEMMA EditedType ==
  ASSUME NEW s \in Ver \cup {NoState}, NEW p \in Peers,
         NEW v \in VHashes, NEW t \in Stamps
  PROVE  Edited(s, p, v, t) \in Ver
<1>1. increment(ClockOf(s), p) \in Clocks /\ increment(ClockOf(s), p)[p] # 0
  BY ClockOfType, IncrementClock
<1> QED BY <1>1, ZeroIsClock DEF Edited, Ver, Version

LEMMA AdoptedType ==
  ASSUME NEW s \in Ver \cup {NoState}, NEW m \in Ver
  PROVE  Adopted(s, m) \in Ver
BY ClockOfType, VersionFields, MergedNonZero DEF Adopted, Ver, Version

LEMMA LocalWinsType ==
  ASSUME NEW s \in Ver, NEW m \in Ver
  PROVE  /\ LocalWins(s, m) = [vhash |-> s.vhash, clock |-> merge(s.clock, m.clock), ts |-> s.ts]
         /\ LocalWins(s, m) \in Ver
<1>1. LocalWins(s, m) = [vhash |-> s.vhash, clock |-> merge(s.clock, m.clock), ts |-> s.ts]
  BY DEF LocalWins, Ver, Version
<1> QED BY <1>1, VersionFields, MergedNonZero DEF Ver, Version

(* Type correctness, whatever the peers' wall clocks and roots do: every   *)
(* held, persisted or published version carries a non-empty clock.         *)
THEOREM TypeCorrect == Spec => []TypeOK
<1>1. Init => TypeOK
  BY VersionAssumption DEF Init, TypeOK
<1>2. TypeOK /\ [Next]_vars => TypeOK'
  <2> SUFFICES ASSUME TypeOK, [Next]_vars PROVE TypeOK'
    OBVIOUS
  <2>0. /\ \A q \in Peers : /\ state[q] \in Ver \cup {NoState}
                            /\ persisted[q] \in Ver \cup {NoState}
        /\ announced \subseteq Ver
        /\ MaxCrashes \in Nat
    BY VersionAssumption DEF TypeOK, Ver
  <2>1. ASSUME NEW p \in Peers, NEW base \in Ver \cup {NoState},
               NEW v \in VHashes, NEW t \in Stamps, NewVersion(p, base, v, t),
               up' \in [Peers -> BOOLEAN], crashes' = crashes
        PROVE  TypeOK'
    <3>1. Edited(base, p, v, t) \in Ver
      BY <2>1, EditedType
    <3>2. Birth(p, Edited(base, p, v, t)) \in Births
      BY <3>1, VersionFields DEF Birth, Births, Edited
    <3> QED BY <2>1, <3>1, <3>2 DEF NewVersion, Install, TypeOK, Ver
  <2>2. ASSUME NEW p \in Peers, NEW v \in VHashes, NEW t \in Stamps, LocalChange(p, v, t)
        PROVE  TypeOK'
    <3>1. up' \in [Peers -> BOOLEAN]
      BY <2>2 DEF LocalChange, TypeOK
    <3> QED BY <2>0, <2>1, <2>2, <3>1 DEF LocalChange
  <2>3. ASSUME NEW p \in Peers, NEW v \in VHashes, NEW t \in Stamps, StartEdited(p, v, t)
        PROVE  TypeOK'
    <3>1. up' \in [Peers -> BOOLEAN]
      BY <2>3 DEF StartEdited, TypeOK
    <3> QED BY <2>0, <2>1, <2>3, <3>1 DEF StartEdited
  <2>4. ASSUME NEW p \in Peers, NEW m \in announced, KeepLocal(p, m)
        PROVE  TypeOK'
    <3>1. LocalWins(state[p], m) \in Ver
      BY <2>0, <2>4, LocalWinsType DEF KeepLocal, KeepsLocal
    <3> QED BY <2>4, <3>1 DEF KeepLocal, Install, PersistOrWarn, TypeOK, Ver
  <2>5. ASSUME NEW p \in Peers, NEW m \in announced, ApplyRemote(p, m)
        PROVE  TypeOK'
    <3>1. Adopted(state[p], m) \in Ver
      BY <2>0, <2>5, AdoptedType
    <3> QED BY <2>5, <3>1 DEF ApplyRemote, Install, PersistOrWarn, TypeOK, Ver
  <2>6. ASSUME NEW p \in Peers, Crash(p)
        PROVE  TypeOK'
    BY <2>0, <2>6 DEF Crash, TypeOK
  <2>7. ASSUME NEW p \in Peers, StartEmpty(p) \/ StartResumed(p)
        PROVE  TypeOK'
    BY <2>7 DEF StartEmpty, StartResumed, Install, TypeOK
  <2>8. CASE UNCHANGED vars
    BY <2>8 DEF vars, TypeOK
  <2> QED
    BY <2>2, <2>3, <2>4, <2>5, <2>6, <2>7, <2>8 DEF Next
<1> QED BY <1>1, <1>2, PTL DEF Spec

(* A version every conflict of which was won: it is among the versions its *)
(* clock counts and precedes none of them.                                 *)
Good(m) == Covered(m) /\ Witnessed(m)

(* Two published versions with one clock are one version.                  *)
LEMMA GoodVersionsIdentified ==
  ASSUME TypeOK, CountersNameVersions,
         NEW m \in Ver, NEW n \in Ver, Good(m), Good(n), m.clock = n.clock,
         \A e \in born : e.n > 0
  PROVE  LE(m, n)
<1>1. PICK e \in born : m.clock[e.peer] = e.n /\ e.ts = m.ts /\ e.vhash = m.vhash
  BY DEF Good, Witnessed
<1>2. e.peer \in Peers /\ n.clock[e.peer] > 0
  BY <1>1, BirthFields
<1>3. PICK f \in born : f.peer = e.peer /\ f.n = n.clock[e.peer] /\ LE(f, n)
  BY <1>2 DEF Good, Covered
<1>4. e = f
  BY <1>1, <1>3 DEF CountersNameVersions
<1> QED
  BY <1>1, <1>3, <1>4 DEF LE

(* The version that survives a conflict is good under the merged clock.    *)
LEMMA MergedVersionGood ==
  ASSUME TypeOK, BirthsAdvance, \A e \in born : e.n > 0,
         NEW w \in Ver, NEW l \in Ver, Good(w), Good(l), LE(l, w),
         NEW new \in Ver, new.vhash = w.vhash, new.ts = w.ts,
         \/ new.clock = merge(w.clock, l.clock)
         \/ new.clock = merge(l.clock, w.clock)
  PROVE  Good(new)
<1>0. /\ w.clock \in Clocks /\ l.clock \in Clocks
      /\ w.ts \in Nat /\ l.ts \in Nat /\ w.vhash \in Nat /\ l.vhash \in Nat
      /\ \A q \in Peers : w.clock[q] \in Nat /\ l.clock[q] \in Nat
  BY VersionFields
<1>m. \A q \in Peers : /\ new.clock[q] \in {w.clock[q], l.clock[q]}
                       /\ new.clock[q] >= w.clock[q]
                       /\ new.clock[q] >= l.clock[q]
  <2> SUFFICES ASSUME NEW q \in Peers
               PROVE  /\ new.clock[q] \in {w.clock[q], l.clock[q]}
                      /\ new.clock[q] >= w.clock[q]
                      /\ new.clock[q] >= l.clock[q]
    OBVIOUS
  <2>1. CASE new.clock = merge(w.clock, l.clock)
    BY <1>0, <2>1, MergeClock
  <2>2. CASE new.clock = merge(l.clock, w.clock)
    BY <1>0, <2>2, MergeClock
  <2> QED BY <2>1, <2>2
<1>1. Covered(new)
  <2> SUFFICES ASSUME NEW r \in Peers, new.clock[r] > 0
               PROVE  \E e \in born : e.peer = r /\ e.n = new.clock[r] /\ LE(e, new)
    BY DEF Covered
  <2>1. CASE new.clock[r] = w.clock[r]
    <3>1. PICK e \in born : e.peer = r /\ e.n = w.clock[r] /\ LE(e, w)
      BY <2>1 DEF Good, Covered
    <3> QED BY <2>1, <3>1 DEF LE
  <2>2. CASE new.clock[r] = l.clock[r]
    <3>1. PICK e \in born : e.peer = r /\ e.n = l.clock[r] /\ LE(e, l)
      BY <2>2 DEF Good, Covered
    <3>2. LE(e, w)
      BY <3>1, <1>0, BirthFields DEF LE
    <3> QED BY <2>2, <3>1, <3>2 DEF LE
  <2> QED BY <1>m, <2>1, <2>2
<1>2. Witnessed(new)
  <2>1. PICK e \in born : w.clock[e.peer] = e.n /\ e.ts = w.ts /\ e.vhash = w.vhash
    BY DEF Good, Witnessed
  <2>2. e.peer \in Peers /\ e.n \in Nat /\ e.ts \in Nat
    BY BirthFields
  <2>3. l.clock[e.peer] <= w.clock[e.peer]
    <3> SUFFICES ASSUME l.clock[e.peer] > w.clock[e.peer] PROVE FALSE
      BY <1>0, <2>2
    <3>1. PICK f \in born : f.peer = e.peer /\ f.n = l.clock[e.peer] /\ LE(f, l)
      BY <1>0, <2>2 DEF Good, Covered
    <3>2. e.ts < f.ts
      BY <2>1, <3>1 DEF BirthsAdvance
    <3>3. f.ts <= l.ts /\ l.ts <= w.ts
      BY <3>1, <1>0, BirthFields DEF LE
    <3> QED BY <2>1, <2>2, <3>2, <3>3, <1>0, BirthFields
  <2>4. new.clock[e.peer] = e.n
    BY <1>0, <1>m, <2>1, <2>2, <2>3
  <2> QED BY <2>1, <2>4 DEF Witnessed
<1> QED BY <1>1, <1>2 DEF Good

LEMMA GoodIsStable ==
  ASSUME NEW m, Good(m), born \subseteq born'
  PROVE  Good(m)'
BY DEF Good, Covered, Witnessed, LE

(* Steps that install a good version and create none keep the invariant    *)
(* provided the peer keeps its own count.                                  *)
LEMMA InstallStep ==
  ASSUME IndInv, NEW p \in Peers, NEW new \in Ver, Good(new),
         Install(p, new), up[p], up' = up, born' = born, crashes' = crashes,
         PersistOrWarn(p, new),
         state[p] # NoState => \A q \in Peers : new.clock[q] >= state[p].clock[q]
  PROVE  IndInv'
<1> USE DEF Install, PersistOrWarn
<1>0. NoState \notin Ver /\ new # NoState
  BY NoStateIsNoVersion
<1>t. \A q \in Peers : /\ state[q] \in Ver \cup {NoState}
                       /\ persisted[q] \in Ver \cup {NoState}
  BY DEF IndInv, TypeOK, Ver
<1>1. TypeOK'
  BY DEF IndInv, TypeOK, Ver
<1>2. Published'
  BY <1>0 DEF IndInv, TypeOK, Published
<1>3. CountersNameVersions' /\ BirthsAdvance'
  BY DEF IndInv, CountersNameVersions, BirthsAdvance
<1>4. OwnCountKept'
  <2> SUFFICES ASSUME NEW e \in born
               PROVE  /\ e.n > 0
                      /\ persisted'[e.peer] # NoState
                      /\ e.n <= persisted'[e.peer].clock[e.peer]
                      /\ state'[e.peer] # NoState => e.n <= state'[e.peer].clock[e.peer]
    BY DEF OwnCountKept
  <2>1. e.peer \in Peers /\ e.n \in Nat
    BY BirthFields DEF IndInv
  <2>2. /\ e.n > 0 /\ persisted[e.peer] # NoState
        /\ e.n <= persisted[e.peer].clock[e.peer]
        /\ state[e.peer] # NoState => e.n <= state[e.peer].clock[e.peer]
    BY DEF IndInv, OwnCountKept
  <2>3. CASE e.peer # p
    BY <2>1, <2>2, <2>3 DEF IndInv, TypeOK
  <2>4. CASE e.peer = p
    <3>1. state[p] # NoState
      BY <2>2, <2>4 DEF IndInv, Published
    <3>2. e.n <= new.clock[p]
      BY <3>1, <2>1, <2>2, <2>4, <1>t, VersionFields
    <3> QED
      BY <1>0, <3>2, <2>1, <2>2, <2>4 DEF IndInv, TypeOK
  <2> QED BY <2>3, <2>4
<1>5. \A m \in announced' : (Covered(m) /\ Witnessed(m))'
  <2>1. \A m \in announced' : Good(m)
    BY DEF IndInv, Good
  <2> QED BY <2>1, GoodIsStable DEF Good
<1> QED BY <1>1, <1>2, <1>3, <1>4, <1>5 DEF IndInv

LEMMA KeepLocalStep ==
  ASSUME IndInv, NEW p \in Peers, NEW m \in announced, KeepLocal(p, m)
  PROVE  IndInv'
<1> DEFINE s == state[p]
           new == LocalWins(s, m)
<1>1. s \in Ver /\ m \in Ver /\ s \in announced
  BY DEF KeepLocal, KeepsLocal, IndInv, TypeOK, Ver, Published
<1>2. /\ s.clock \in Clocks /\ m.clock \in Clocks
      /\ s.ts \in Nat /\ m.ts \in Nat /\ s.vhash \in Nat /\ m.vhash \in Nat
      /\ s.vhash \in VHashes /\ s.ts \in Stamps /\ s.clock # ZeroClock
  BY <1>1, VersionFields
<1>3. LE(m, s)
  BY <1>2 DEF KeepLocal, KeepsLocal, WeWin, lww_we_win, LE
<1>4. /\ new = [vhash |-> s.vhash, clock |-> merge(s.clock, m.clock), ts |-> s.ts]
      /\ new \in Ver
  BY <1>1, LocalWinsType
<1>5. Good(new)
  <2>1. Good(s) /\ Good(m)
    BY <1>1 DEF IndInv, Good
  <2> QED BY <1>1, <1>3, <1>4, <2>1, MergedVersionGood DEF IndInv, OwnCountKept
<1>6. \A q \in Peers : new.clock[q] >= s.clock[q]
  BY <1>2, <1>4, MergeClock
<1> QED BY <1>4, <1>5, <1>6, InstallStep DEF KeepLocal

LEMMA ApplyRemoteStep ==
  ASSUME IndInv, NEW p \in Peers, NEW m \in announced, ApplyRemote(p, m)
  PROVE  IndInv'
<1> DEFINE s == state[p]
           new == Adopted(s, m)
<1>1. s \in Ver \cup {NoState} /\ m \in Ver
  BY DEF IndInv, TypeOK, Ver
<1>2. /\ ClockOf(s) \in Clocks /\ m.clock \in Clocks
      /\ m.ts \in Nat /\ m.vhash \in Nat
      /\ m.ts \in Stamps /\ m.vhash \in VHashes /\ m.clock # ZeroClock
  BY <1>1, VersionFields, ClockOfType
<1>3. new \in Ver /\ new.vhash = m.vhash /\ new.ts = m.ts
      /\ new.clock = merge(ClockOf(s), m.clock)
  BY <1>1, AdoptedType DEF Adopted
<1>4. Good(m)
  BY DEF IndInv, Good
<1>5. Good(new)
  <2>1. CASE ~Ahead(ClockOf(s), m.clock)
    <3>1. new.clock = m.clock
      BY <2>1, <1>2, <1>3, MergeDominated
    <3> QED BY <3>1, <1>3, <1>4 DEF Good, Covered, Witnessed, LE
  <2>2. CASE Ahead(ClockOf(s), m.clock)
    <3>1. s # NoState
      BY <2>2, <1>1, <1>2, ClockOfType DEF Ahead, Clocks
    <3>2. s \in Ver /\ ClockOf(s) = s.clock /\ s \in announced
      BY <3>1, <1>1 DEF ClockOf, IndInv, Published
    <3>3. compare(s.clock, m.clock) = "Concurrent"
      BY <2>2, <3>1, <3>2 DEF ApplyRemote, Fetches, Ignores, compare
    <3>4. ~WeWin(s, m)
      BY <3>1, <3>3 DEF ApplyRemote, Fetches, KeepsLocal
    <3>5. LE(s, m)
      BY <3>2, <3>4, <1>2, VersionFields DEF WeWin, lww_we_win, LE
    <3>6. Good(s)
      BY <3>2 DEF IndInv, Good
    <3> QED
      BY <3>2, <3>5, <3>6, <1>1, <1>3, <1>4, MergedVersionGood DEF IndInv, OwnCountKept
  <2> QED BY <2>1, <2>2
<1>6. s # NoState => \A q \in Peers : new.clock[q] >= s.clock[q]
  BY <1>1, <1>2, <1>3, MergeClock, ClockOfType
<1> QED BY <1>3, <1>5, <1>6, InstallStep DEF ApplyRemote

(* A version p creates after `base`, when base carries all of p's counts.  *)
LEMMA NewVersionStep ==
  ASSUME IndInv, Synced, NEW p \in Peers, NEW v \in VHashes, NEW t \in Stamps,
         NEW base, base \in announced \cup {NoState},
         NewVersion(p, base, v, t),
         \A e \in born : e.peer = p => e.n <= ClockOf(base)[p],
         up' = [up EXCEPT ![p] = TRUE], crashes' = crashes
  PROVE  IndInv'
<1> DEFINE c == ClockOf(base)
           new == Edited(base, p, v, t)
           b == Birth(p, new)
<1> USE DEF NewVersion, Install
<1>1. base \in Ver \cup {NoState}
  BY DEF IndInv, TypeOK, Ver
<1>2. /\ c \in Clocks
      /\ \A q \in Peers : c[q] \in Nat
      /\ base # NoState => c = base.clock
      /\ base = NoState => \A q \in Peers : c[q] = 0
  BY <1>1, ClockOfType
<1>3. /\ new.vhash = v /\ new.ts = t /\ new.clock = increment(c, p)
      /\ new.clock \in Clocks
      /\ new.clock[p] = c[p] + 1
      /\ \A q \in Peers \ {p} : new.clock[q] = c[q]
  BY <1>2, IncrementClock DEF Edited
<1>4. new \in Ver
  <2>1. new.clock # ZeroClock
    BY <1>2, <1>3, ZeroIsClock
  <2> QED BY <1>3, <2>1 DEF Ver, Version, Edited
<1>5. new # NoState /\ NoState \notin Ver
  BY <1>4, NoStateIsNoVersion
<1>6. /\ b = [peer |-> p, n |-> c[p] + 1, vhash |-> v, ts |-> t]
      /\ b \in Births
      /\ born' = born \cup {b}
  BY <1>2, <1>3 DEF Birth, Births
<1>7. t \in Nat /\ v \in Nat
  BY VersionAssumption
<1>8. base # NoState => base.ts < t /\ Good(base) /\ base.ts \in Nat
  BY <1>1, VersionFields, <1>7 DEF MayStamp, IndInv, Good
<1>9. \A e \in born : e.peer = p => e.n < b.n /\ e.ts < b.ts
  <2> SUFFICES ASSUME NEW e \in born, e.peer = p PROVE e.n < b.n /\ e.ts < b.ts
    OBVIOUS
  <2>1. e.n \in Nat /\ e.n > 0 /\ e.n <= c[p] /\ e.ts \in Nat
    BY BirthFields DEF IndInv, OwnCountKept
  <2>2. base # NoState /\ base.clock[p] = c[p]
    BY <2>1, <1>2
  <2>3. PICK f \in born : f.peer = p /\ f.n = c[p] /\ LE(f, base)
    BY <2>1, <2>2, <1>2, <1>8 DEF Good, Covered
  <2>4. f.ts \in Nat /\ f.ts < t
    BY <2>2, <2>3, <1>7, <1>8, BirthFields DEF LE, IndInv
  <2>5. e.ts <= f.ts
    <3>1. CASE e.n = f.n
      BY <3>1, <2>3, <2>4 DEF IndInv, CountersNameVersions
    <3>2. CASE e.n < f.n
      BY <3>2, <2>1, <2>3, <2>4 DEF IndInv, BirthsAdvance
    <3> QED BY <2>1, <2>3, <3>1, <3>2, <1>2
  <2> QED BY <2>1, <2>4, <2>5, <1>2, <1>6, <1>7
<1>a. TypeOK'
  BY <1>4, <1>6 DEF IndInv, TypeOK, Ver
<1>b. Published'
  BY <1>5 DEF IndInv, TypeOK, Published
<1>c. CountersNameVersions'
  BY <1>6, <1>9, BirthFields DEF IndInv, CountersNameVersions
<1>d. BirthsAdvance'
  <2> SUFFICES ASSUME NEW e \in born', NEW f \in born', e.peer = f.peer, e.n < f.n
               PROVE  e.ts < f.ts
    BY DEF BirthsAdvance
  <2>1. CASE e \in born /\ f \in born
    BY <2>1 DEF IndInv, BirthsAdvance
  <2>2. CASE e \in born /\ f = b
    BY <2>2, <1>6, <1>9
  <2>3. CASE e = b /\ f \in born
    <3>1. f.n < b.n /\ f.n \in Nat /\ b.n \in Nat
      BY <2>3, <1>2, <1>6, <1>9, BirthFields DEF IndInv
    <3> QED BY <2>3, <3>1
  <2>4. CASE e = b /\ f = b
    BY <2>4, <1>2, <1>6
  <2> QED BY <1>6, <2>1, <2>2, <2>3, <2>4
<1>e. OwnCountKept'
  <2> SUFFICES ASSUME NEW e \in born'
               PROVE  /\ e.n > 0
                      /\ persisted'[e.peer] # NoState
                      /\ e.n <= persisted'[e.peer].clock[e.peer]
                      /\ state'[e.peer] # NoState => e.n <= state'[e.peer].clock[e.peer]
    BY DEF OwnCountKept
  <2>1. persisted'[p] = new /\ state'[p] = new
    BY DEF IndInv, TypeOK
  <2>2. CASE e = b
    BY <2>1, <2>2, <1>2, <1>3, <1>5, <1>6
  <2>3. CASE e \in born /\ e.peer = p
    <3>1. e.n \in Nat /\ e.n > 0 /\ e.n <= c[p]
      BY <2>3, BirthFields DEF IndInv, OwnCountKept
    <3> QED BY <2>1, <2>3, <3>1, <1>2, <1>3, <1>5
  <2>4. CASE e \in born /\ e.peer # p
    <3>1. e.peer \in Peers
      BY <2>4, BirthFields DEF IndInv
    <3>2. persisted'[e.peer] = persisted[e.peer] /\ state'[e.peer] = state[e.peer]
      BY <2>4, <3>1 DEF IndInv, TypeOK
    <3> QED BY <2>4, <3>2 DEF IndInv, OwnCountKept
  <2> QED BY <1>6, <2>2, <2>3, <2>4
<1>f. Good(new)'
  <2>1. b \in born' /\ b.peer = p /\ b.n = new.clock[p] /\ b.ts = new.ts /\ b.vhash = new.vhash
    BY <1>3, <1>6
  <2>2. Witnessed(new)'
    BY <2>1 DEF Witnessed
  <2>3. Covered(new)'
    <3> SUFFICES ASSUME NEW r \in Peers, new.clock[r] > 0
                 PROVE  \E e \in born' : e.peer = r /\ e.n = new.clock[r] /\ LE(e, new)
      BY DEF Covered, LE
    <3>1. CASE r = p
      BY <2>1, <3>1, <1>3, <1>7 DEF LE
    <3>2. CASE r # p
      <4>1. c[r] > 0 /\ new.clock[r] = c[r]
        BY <3>2, <1>3
      <4>2. base # NoState /\ base.clock[r] = c[r]
        BY <4>1, <1>2
      <4>3. PICK e \in born : e.peer = r /\ e.n = c[r] /\ LE(e, base)
        BY <4>1, <4>2, <1>8 DEF Good, Covered
      <4>4. LE(e, new)
        BY <4>2, <4>3, <1>3, <1>7, <1>8, BirthFields DEF LE, IndInv
      <4> QED BY <4>1, <4>3, <4>4, <1>6
    <3> QED BY <3>1, <3>2
  <2> QED BY <2>2, <2>3 DEF Good
<1>g. \A m \in announced' : (Covered(m) /\ Witnessed(m))'
  <2>1. \A m \in announced : Good(m)'
    BY <1>6, GoodIsStable DEF IndInv, Good
  <2> QED BY <2>1, <1>f DEF Good
<1> QED BY <1>a, <1>b, <1>c, <1>d, <1>e, <1>g DEF IndInv

LEMMA CrashStep ==
  ASSUME IndInv, NEW p \in Peers, Crash(p)
  PROVE  IndInv'
<1> USE DEF Crash
<1>0. MaxCrashes \in Nat
  BY VersionAssumption
<1>1. TypeOK'
  BY <1>0 DEF IndInv, TypeOK
<1>2. Published'
  BY DEF IndInv, TypeOK, Published
<1>3. CountersNameVersions' /\ BirthsAdvance'
  BY DEF IndInv, CountersNameVersions, BirthsAdvance
<1>4. OwnCountKept'
  BY BirthFields DEF IndInv, TypeOK, OwnCountKept
<1>5. \A m \in announced' : (Covered(m) /\ Witnessed(m))'
  BY DEF IndInv, Covered, Witnessed, LE
<1> QED BY <1>1, <1>2, <1>3, <1>4, <1>5 DEF IndInv

LEMMA StartEmptyStep ==
  ASSUME IndInv, ~MayWipe, NEW p \in Peers, StartEmpty(p)
  PROVE  IndInv'
<1> USE DEF StartEmpty
<1>1. TypeOK'
  BY DEF IndInv, TypeOK
<1>2. Published'
  BY DEF IndInv, TypeOK, Published
<1>3. CountersNameVersions' /\ BirthsAdvance'
  BY DEF IndInv, CountersNameVersions, BirthsAdvance
<1>4. OwnCountKept'
  BY DEF IndInv, OwnCountKept
<1>5. \A m \in announced' : (Covered(m) /\ Witnessed(m))'
  BY DEF IndInv, Covered, Witnessed, LE
<1> QED BY <1>1, <1>2, <1>3, <1>4, <1>5 DEF IndInv

LEMMA StartResumedStep ==
  ASSUME IndInv, NEW p \in Peers, StartResumed(p)
  PROVE  IndInv'
<1> USE DEF StartResumed, Install
<1>1. persisted[p] \in announced /\ announced' = announced
  BY DEF IndInv, Published
<1>2. TypeOK'
  BY <1>1 DEF IndInv, TypeOK
<1>3. Published'
  BY <1>1 DEF IndInv, TypeOK, Published
<1>4. CountersNameVersions' /\ BirthsAdvance'
  BY DEF IndInv, CountersNameVersions, BirthsAdvance
<1>5. OwnCountKept'
  BY BirthFields DEF IndInv, TypeOK, OwnCountKept
<1>6. \A m \in announced' : (Covered(m) /\ Witnessed(m))'
  BY <1>1 DEF IndInv, Covered, Witnessed, LE
<1> QED BY <1>2, <1>3, <1>4, <1>5, <1>6 DEF IndInv

(* IndInv holds of every reachable state: from any number of peers, edits, *)
(* conflicts, failed persists and restarts of sync_loop.                   *)
THEOREM IndInvHolds == Synced /\ ~MayWipe /\ Spec => []IndInv
<1> SUFFICES ASSUME Synced, ~MayWipe PROVE Spec => []IndInv
  OBVIOUS
<1>1. Init => IndInv
  BY VersionAssumption
  DEF Init, IndInv, TypeOK, Published, CountersNameVersions, BirthsAdvance, OwnCountKept
<1>2. IndInv /\ [Next]_vars => IndInv'
  <2> SUFFICES ASSUME IndInv, [Next]_vars PROVE IndInv'
    OBVIOUS
  <2>0. \A q \in Peers : /\ state[q] \in announced \cup {NoState}
                         /\ persisted[q] \in announced \cup {NoState}
    BY DEF IndInv, Published
  <2>1. ASSUME NEW p \in Peers, NEW v \in VHashes, NEW t \in Stamps, LocalChange(p, v, t)
        PROVE  IndInv'
    <3>1. up' = [up EXCEPT ![p] = TRUE]
      BY <2>1 DEF LocalChange, IndInv, TypeOK
    <3>2. \A e \in born : e.peer = p => e.n <= ClockOf(state[p])[p]
      BY <2>1 DEF LocalChange, IndInv, Published, OwnCountKept, ClockOf
    <3> QED BY <2>0, <2>1, <3>1, <3>2, NewVersionStep DEF LocalChange
  <2>2. ASSUME NEW p \in Peers, NEW v \in VHashes, NEW t \in Stamps, StartEdited(p, v, t)
        PROVE  IndInv'
    <3>1. \A e \in born : e.peer = p => e.n <= ClockOf(persisted[p])[p]
      BY DEF IndInv, OwnCountKept, ClockOf
    <3> QED BY <2>0, <2>2, <3>1, NewVersionStep DEF StartEdited
  <2>3. CASE UNCHANGED vars
    BY <2>3 DEF vars, IndInv, TypeOK, Published, CountersNameVersions, BirthsAdvance,
                OwnCountKept, Covered, Witnessed, LE
  <2> QED
    BY <2>1, <2>2, <2>3, KeepLocalStep, ApplyRemoteStep, CrashStep, StartEmptyStep,
       StartResumedStep DEF Next
<1> QED BY <1>1, <1>2, PTL DEF Spec

(* The clock identifies the version: what sync_loop relies on when it      *)
(* skips an announce whose clock compares Equal.                           *)
THEOREM ClockIdentifiesVersion ==
  Synced /\ ~MayWipe /\ Spec => []EqualClocksSameVersion
<1>1. IndInv => EqualClocksSameVersion
  <2> SUFFICES ASSUME IndInv, NEW m \in announced, NEW n \in announced, m.clock = n.clock
               PROVE  m.vhash = n.vhash /\ m.ts = n.ts
    BY DEF EqualClocksSameVersion
  <2>1. m \in Ver /\ n \in Ver /\ Good(m) /\ Good(n)
    BY DEF IndInv, TypeOK, Ver, Good
  <2>2. LE(m, n) /\ LE(n, m)
    BY <2>1, GoodVersionsIdentified DEF IndInv, OwnCountKept
  <2> QED BY <2>1, <2>2, VersionFields DEF LE
<1> QED BY <1>1, IndInvHolds, PTL

(* A peer holds the last-write-wins maximum of what its clock accounts     *)
(* for, whatever the order in which announces reached it.                  *)
THEOREM LastWriteWins ==
  Synced /\ ~MayWipe /\ Spec => []HeldVersionIsLatestKnown
<1>1. IndInv => HeldVersionIsLatestKnown
  <2> SUFFICES ASSUME IndInv, NEW p \in Peers, state[p] # NoState,
                      NEW e \in born, e.n <= state[p].clock[e.peer]
               PROVE  LE(e, state[p])
    BY DEF HeldVersionIsLatestKnown
  <2>1. state[p] \in announced /\ state[p] \in Ver
    BY DEF IndInv, Published, TypeOK, Ver
  <2>2. e.peer \in Peers /\ e.n \in Nat /\ e.n > 0 /\ e.ts \in Nat /\ e.vhash \in Nat
    BY BirthFields DEF IndInv, OwnCountKept
  <2>3. /\ state[p].clock[e.peer] \in Nat /\ state[p].clock[e.peer] > 0
        /\ state[p].ts \in Nat /\ state[p].vhash \in Nat
    BY <2>1, <2>2, VersionFields
  <2>4. PICK f \in born : /\ f.peer = e.peer /\ f.n = state[p].clock[e.peer]
                          /\ LE(f, state[p])
    BY <2>1, <2>2, <2>3 DEF IndInv, Covered
  <2>5. f.ts \in Nat
    BY <2>4, BirthFields DEF IndInv
  <2>6. CASE e.n = f.n
    BY <2>4, <2>6 DEF IndInv, CountersNameVersions
  <2>7. CASE e.n < f.n
    BY <2>2, <2>3, <2>4, <2>5, <2>7 DEF IndInv, BirthsAdvance, LE
  <2> QED BY <2>2, <2>3, <2>4, <2>6, <2>7
<1> QED BY <1>1, IndInvHolds, PTL

(* No peer counts two versions alike, across restarts and failed persists. *)
THEOREM CountersUnique ==
  Synced /\ ~MayWipe /\ Spec => []CountersNameVersions
<1>1. IndInv => CountersNameVersions
  BY DEF IndInv
<1> QED BY <1>1, IndInvHolds, PTL
=============================================================================

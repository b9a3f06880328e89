--------------------------- MODULE AuthLogProofs ---------------------------
(***************************************************************************)
(* Auth logs of any length, for any number of peers, owners and stops: a   *)
(* log can always be replayed, the members are those of the log, and logs  *)
(* grow as AuthSets says.  The provers have no induction over sequences;   *)
(* here it is the least element of a set of positions.                     *)
(***************************************************************************)
EXTENDS AuthLog, FoldProofs

Managers == CoOwners \cup {Creator}

\* An operation that the CRDT accepts wherever its dependencies are.
Valid(f, o) ==
  /\ f[o].kind # "Create" /\ f[o].deps # {}
  /\ f[o].author \in ManagersOf(f, Past(f, f[o].deps))

\* A log in causal order: the creation first, every other operation valid
\* and after the ones it depends on, none twice.
Distinct(s) == \A i, j \in 1..Len(s) : s[i] = s[j] => i = j

Causal(f, s) ==
  /\ s \in Seq(Nat) /\ Set(s) \subseteq 1..Len(f) /\ Distinct(s)
  /\ s # <<>> => s[1] = 1
  /\ \A i \in 2..Len(s) : Valid(f, s[i]) /\ \A d \in f[s[i]].deps : \E j \in 1..(i - 1) : s[j] = d

\* The AuthState that has processed the operations of a log.
Healthy(s) == [crdt |-> Set(s), ops |-> s, pending |-> <<>>]

\* What an error in process leaves behind.
Emptied(f, st) ==
  /\ st.crdt = {} /\ st.ops # <<>>
  /\ st.pending \in Seq(Nat) /\ Set(st.pending) \subseteq 1..Len(f) /\ Distinct(st.pending)

\* The operations signed so far: the creation, and others that were signed
\* after the ones they depend on and that remove no manager.
Forged(f) ==
  /\ f \in Seq(Content) /\ Len(f) >= 1
  /\ f[1] = [author |-> Creator, deps |-> {}, kind |-> "Create", member |-> Creator]
  /\ \A i \in 2..Len(f) :
       /\ f[i].kind # "Create" /\ f[i].deps \subseteq 1..(i - 1)
       /\ f[i].kind = "Remove" => f[i].member \notin Managers

AnyState == [crdt : SUBSET Nat, ops : Seq(Nat), pending : Seq(Nat)]

LogInv ==
  /\ \A p \in Peers : Causal(forge, log[p]) /\ Causal(forge, state[p].ops)
  /\ \A s \in snapshots : s # <<>> /\ Causal(forge, s)
  /\ \A t \in tickets : t.auth_log # <<>> /\ Causal(forge, t.auth_log)

StateInv ==
  \A p \in Peers :
    /\ state[p] \in AnyState
    /\ up[p] => state[p].ops # <<>> /\ log[p] # <<>>
    /\ ~up[p] => state[p] = Empty
    /\ state[p] = Healthy(state[p].ops) \/ Emptied(forge, state[p])

\* A function on all peers.
Total(x) == x = [p \in Peers |-> x[p]]

AuthInv ==
  /\ up \in [Peers -> BOOLEAN] /\ crashes \in 0..MaxCrashes
  /\ Total(state) /\ Total(log)
  /\ tickets \subseteq [invitee : Peers, auth_log : Seq(Nat)]
  /\ Forged(forge) /\ Len(forge) <= MaxOps
  /\ LogInv /\ StateInv

\* A peer has an operation of its log that made it a member.
Joined(p) ==
  log[p] # <<>> => \E i \in Set(log[p]) : forge[i].kind # "Remove" /\ forge[i].member = p

\* Only managers give commands: no AuthState is emptied.
MemberInv ==
  \A p \in Peers :
    /\ Joined(p)
    /\ up[p] => state[p] = Healthy(log[p])

\* Without commands beside the daemon: the log is saved, and has all that
\* its peer ever signed with effect.
KeptInv ==
  /\ \A p \in Peers : up[p] => state[p].ops = log[p]
  /\ \A o \in 1..Len(forge) : Valid(forge, o) => o \in Set(log[forge[o].author])
-----------------------------------------------------------------------------
(***************************************************************************)
(* What has been signed: the past of an operation, its validity and the    *)
(* causal order of a log do not depend on what is signed later.            *)
(***************************************************************************)
LEMMA PastFacts ==
  ASSUME NEW f, Forged(f), NEW S \in SUBSET (1..Len(f))
  PROVE  /\ S \subseteq Past(f, S) /\ Past(f, S) \subseteq 1..Len(f)
         /\ Closed(f, Past(f, S))
         /\ \A T \in SUBSET (1..Len(f)) : S \subseteq T /\ Closed(f, T) => Past(f, S) \subseteq T
<1>1. S \subseteq Past(f, S) /\ Past(f, S) \subseteq 1..Len(f)
  BY DEF Past
<1>2. \A i \in 1..Len(f) : f[i].deps \subseteq 1..Len(f)
  BY DEF Forged
<1>3. Closed(f, Past(f, S))
  BY <1>2 DEF Past, Closed
<1> QED BY <1>1, <1>3 DEF Past

\* More may have been signed in g than in f.
Grows(f, g) ==
  Forged(f) /\ Forged(g) /\ Len(f) <= Len(g) /\ \A i \in 1..Len(f) : g[i] = f[i]

LEMMA PastGrows ==
  ASSUME NEW f, NEW g, Grows(f, g), NEW S \in SUBSET (1..Len(f))
  PROVE  Past(g, S) = Past(f, S)
<1>1. 1..Len(f) \subseteq 1..Len(g) /\ Forged(f) /\ Forged(g)
  BY DEF Grows, Forged
<1>2. Past(f, S) \in SUBSET (1..Len(g)) /\ S \subseteq Past(f, S) /\ Closed(g, Past(f, S))
  BY <1>1, PastFacts DEF Closed, Grows
<1>3. Past(g, S) \subseteq Past(f, S)
  BY <1>1, <1>2, PastFacts
<1>4. S \in SUBSET (1..Len(g)) /\ Closed(g, Past(g, S)) /\ S \subseteq Past(g, S)
  BY <1>1, PastFacts
<1>5. Past(g, S) \in SUBSET (1..Len(f)) /\ Closed(f, Past(g, S))
  BY <1>1, <1>2, <1>3, <1>4, PastFacts DEF Closed, Grows
<1> QED BY <1>1, <1>3, <1>4, <1>5, PastFacts

LEMMA MembersGrow ==
  ASSUME NEW f, NEW g, Grows(f, g), NEW S \in SUBSET (1..Len(f))
  PROVE  MembersOf(g, S) = MembersOf(f, S) /\ ManagersOf(g, S) = ManagersOf(f, S)
<1>1. \A i \in S : g[i] = f[i] /\ f[i].deps \in SUBSET (1..Len(f))
  BY DEF Grows, Forged
<1>2. \A i \in S : Past(g, g[i].deps) = Past(f, f[i].deps)
  BY <1>1, PastGrows
<1>3. MembersOf(g, S) = MembersOf(f, S)
  BY <1>1, <1>2 DEF MembersOf
<1> QED BY <1>3 DEF ManagersOf

LEMMA ValidGrows ==
  ASSUME NEW f, NEW g, Grows(f, g), NEW o \in 1..Len(f)
  PROVE  Valid(g, o) <=> Valid(f, o)
<1>1. g[o] = f[o] /\ f[o].deps \in SUBSET (1..Len(f)) /\ Forged(f)
  BY DEF Grows, Forged
<1>2. Past(g, g[o].deps) = Past(f, f[o].deps) /\ Past(f, f[o].deps) \in SUBSET (1..Len(f))
  BY <1>1, PastGrows, PastFacts
<1> QED BY <1>1, <1>2, MembersGrow DEF Valid

LEMMA CausalGrows ==
  ASSUME NEW f, NEW g, Grows(f, g), NEW s, Causal(f, s)
  PROVE  Causal(g, s)
<1>1. s \in Seq(Nat) /\ Set(s) \subseteq 1..Len(f) /\ 1..Len(f) \subseteq 1..Len(g)
  BY DEF Causal, Grows, Forged
<1>2. ASSUME NEW i \in 2..Len(s) PROVE Valid(g, s[i]) /\ g[s[i]] = f[s[i]]
  <2>1. s[i] \in 1..Len(f) /\ Valid(f, s[i])
    BY <1>1 DEF Causal, Set
  <2> QED BY <2>1, ValidGrows DEF Grows
<1> QED BY <1>1, <1>2 DEF Causal
-----------------------------------------------------------------------------
(***************************************************************************)
(* AuthState: a log in causal order is accepted again, operation by        *)
(* operation, and nothing of it waits in pending.                          *)
(***************************************************************************)
LEMMA DrainNothing ==
  ASSUME NEW f, NEW r, r.st.pending = <<>> \/ ~r.ok, r.st.pending \in Seq(Nat)
  PROVE  drain_pending(f, r) = r
<1> DEFINE N == Len(r.st.pending)
           Def(h) == h = [n \in 0..N |-> IF n = 0 THEN r ELSE DrainOne(f, h[n - 1])]
           c == [n \in 0..N |-> r]
           rounds == CHOOSE h : Def(h)
<1>1. N \in Nat /\ (N = 0 \/ DrainOne(f, r) = r)
  BY DEF DrainOne
<1>2. Def(c)
  BY <1>1
<1>3. Def(rounds)
  <2> HIDE DEF Def
  <2> QED BY <1>2, Zenon
<1>4. rounds[0] = r /\ \A n \in 1..N : rounds[n] = DrainOne(f, rounds[n - 1])
  <2>1. 0 \in 0..N /\ \A n \in 1..N : n \in 0..N /\ n # 0
    BY <1>1
  <2> HIDE DEF rounds, N
  <2> QED BY <1>3, <2>1
<1>5. rounds[N] = r
  <2> DEFINE good == [n \in 0..N |-> {r}]
  <2> HIDE DEF rounds, N, Def
  <2>1. rounds[0] \in good[0]
    BY <1>1, <1>4
  <2>2. ASSUME NEW n \in 1..N, rounds[n - 1] \in good[n - 1] PROVE rounds[n] \in good[n]
    <3>1. n - 1 \in 0..N /\ n \in 0..N /\ N # 0
      BY <1>1
    <3> QED BY <1>1, <1>4, <2>2, <3>1
  <2>3. \A n \in 0..N : rounds[n] \in good[n]
    <3> HIDE DEF good
    <3> QED BY <1>1, <2>1, <2>2, FoldKeeps
  <2> QED BY <1>1, <2>3
<1>6. drain_pending(f, r) = rounds[N]
  BY DEF drain_pending
<1> QED BY <1>5, <1>6

LEMMA SetOfNone == Set(<<>>) = {} /\ Healthy(<<>>) = Empty
<1>1. Set(<<>>) = {}
  BY DEF Set
<1> QED BY <1>1 DEF Healthy, Empty

LEMMA SetOfAppend ==
  ASSUME NEW s \in Seq(Nat), NEW o \in Nat
  PROVE  Set(Append(s, o)) = Set(s) \cup {o}
<1>1. Len(Append(s, o)) = Len(s) + 1 /\ Len(s) \in Nat /\ Append(s, o)[Len(s) + 1] = o
  OBVIOUS
<1>2. \A i \in 1..Len(s) : Append(s, o)[i] = s[i]
  OBVIOUS
<1> QED BY <1>1, <1>2 DEF Set

\* An operation that may come next in a log.
Follows(f, s, o) ==
  /\ o \in 1..Len(f) /\ o \notin Set(s) /\ f[o].deps \subseteq Set(s)
  /\ IF s = <<>> THEN o = 1 ELSE Valid(f, o)

LEMMA CausalAppend ==
  ASSUME NEW f, Forged(f), NEW s, Causal(f, s), NEW o, Follows(f, s, o)
  PROVE  Causal(f, Append(s, o))
<1> DEFINE t == Append(s, o)
<1>1. s \in Seq(Nat) /\ o \in Nat /\ Len(s) \in Nat
  BY DEF Causal, Follows, Forged
<1>2. t \in Seq(Nat) /\ Len(t) = Len(s) + 1 /\ t[Len(t)] = o /\ t # <<>>
  BY <1>1
<1>3. \A i \in 1..Len(s) : t[i] = s[i] /\ s[i] \in Set(s)
  BY <1>1 DEF Set
<1> HIDE DEF t
<1>4. Set(t) \subseteq 1..Len(f)
  BY <1>1, SetOfAppend DEF Causal, Follows, t
<1>5. Distinct(t)
  <2> SUFFICES ASSUME NEW i \in 1..Len(t), NEW j \in 1..Len(t), t[i] = t[j] PROVE i = j
    BY DEF Distinct
  <2>1. \A k \in 1..Len(t) : k \in 1..Len(s) \/ k = Len(t)
    BY <1>1, <1>2
  <2>2. o \notin Set(s) /\ Distinct(s)
    BY DEF Follows, Causal
  <2> QED BY <1>2, <1>3, <2>1, <2>2 DEF Distinct
<1>6. t[1] = 1
  BY <1>1, <1>2, <1>3 DEF Causal, Follows
<1>7. ASSUME NEW i \in 2..Len(t)
      PROVE  Valid(f, t[i]) /\ \A d \in f[t[i]].deps : \E j \in 1..(i - 1) : t[j] = d
  <2>1. CASE i = Len(t)
    <3>1. i - 1 = Len(s) /\ s # <<>> /\ t[i] = o
      BY <1>1, <1>2, <2>1
    <3>2. Valid(f, o) /\ \A d \in f[o].deps : \E j \in 1..Len(s) : s[j] = d
      BY <3>1 DEF Follows, Set
    <3> QED BY <1>3, <3>1, <3>2
  <2>2. CASE i # Len(t)
    <3>1. i \in 2..Len(s) /\ t[i] = s[i] /\ 1..(i - 1) \subseteq 1..Len(s)
      BY <1>1, <1>2, <1>3, <2>2
    <3>2. Valid(f, s[i]) /\ \A d \in f[s[i]].deps : \E j \in 1..(i - 1) : s[j] = d
      BY <3>1 DEF Causal
    <3> QED BY <1>3, <3>1, <3>2
  <2> QED BY <2>1, <2>2
<1> QED BY <1>2, <1>4, <1>5, <1>6, <1>7 DEF Causal, t

(* apply_remote on top of a log: an operation of the log changes nothing,  *)
(* one that may follow is appended.                                        *)
LEMMA ApplyHealthy ==
  ASSUME NEW f, Forged(f), NEW s, Causal(f, s), NEW o
  PROVE  /\ o \in Set(s) =>
              apply_remote(f, Healthy(s), o) = [ok |-> TRUE, new |-> FALSE, st |-> Healthy(s)]
         /\ Follows(f, s, o) =>
              apply_remote(f, Healthy(s), o) =
                [ok |-> TRUE, new |-> TRUE, st |-> Healthy(Append(s, o))]
<1>1. ASSUME o \in Set(s)
      PROVE  apply_remote(f, Healthy(s), o) = [ok |-> TRUE, new |-> FALSE, st |-> Healthy(s)]
  BY <1>1 DEF apply_remote, Healthy
<1>2. ASSUME Follows(f, s, o)
      PROVE  apply_remote(f, Healthy(s), o) =
               [ok |-> TRUE, new |-> TRUE, st |-> Healthy(Append(s, o))]
  <2>1. Accepts(f, Healthy(s).crdt, o)
    <3>1. s = <<>> => Set(s) = {}
      BY DEF Set
    <3> QED BY <1>2, <3>1 DEF Accepts, Follows, Healthy, Valid, Forged
  <2> DEFINE r == [ok |-> TRUE, st |-> Healthy(Append(s, o))]
  <2>2. s \in Seq(Nat) /\ o \in Nat
    BY <1>2 DEF Causal, Follows, Forged
  <2>3. process(f, Healthy(s), o) = r
    BY <2>1, <2>2, SetOfAppend DEF process, Healthy
  <2>4. r.st.pending = <<>>
    BY DEF Healthy
  <2>5. drain_pending(f, r) = r
    <3> HIDE DEF r
    <3>1. r.st.pending \in Seq(Nat)
      BY <2>4
    <3> QED BY <2>4, <3>1, DrainNothing
  <2>6. o \notin Set(s) \cup Set(<<>>) /\ f[o].deps \subseteq Set(s)
    BY <1>2 DEF Follows, Set
  <2>7. Healthy(s).ops = s /\ Healthy(s).pending = <<>>
    BY DEF Healthy
  <2>8. drain_pending(f, process(f, Healthy(s), o)) = r
    BY <2>3, <2>5
  <2> QED BY <2>6, <2>7, <2>8 DEF apply_remote
<1> QED BY <1>1, <1>2

LEMMA CausalPrefix ==
  ASSUME NEW f, NEW s, Causal(f, s), NEW n \in 0..Len(s)
  PROVE  /\ SubSeq(s, 1, n) \in Seq(Nat) /\ Len(SubSeq(s, 1, n)) = n
         /\ \A i \in 1..n : SubSeq(s, 1, n)[i] = s[i]
         /\ Causal(f, SubSeq(s, 1, n))
<1> DEFINE t == SubSeq(s, 1, n)
<1>1. s \in Seq(Nat) /\ Len(s) \in Nat /\ n \in Nat /\ n <= Len(s)
  BY DEF Causal
<1>2. t \in Seq(Nat) /\ Len(t) = n /\ \A i \in 1..n : t[i] = s[i]
  BY <1>1
<1> HIDE DEF t
<1>3. Set(t) \subseteq Set(s)
  BY <1>1, <1>2 DEF Set
<1>4. Distinct(t) /\ (t # <<>> => t[1] = 1)
  BY <1>1, <1>2 DEF Causal, Distinct
<1>5. ASSUME NEW i \in 2..Len(t)
      PROVE  Valid(f, t[i]) /\ \A d \in f[t[i]].deps : \E j \in 1..(i - 1) : t[j] = d
  <2>1. i \in 2..Len(s) /\ t[i] = s[i] /\ 1..(i - 1) \subseteq 1..n
    BY <1>1, <1>2
  <2>2. Valid(f, s[i]) /\ \A d \in f[s[i]].deps : \E j \in 1..(i - 1) : s[j] = d
    BY <2>1 DEF Causal
  <2> QED BY <1>2, <2>1, <2>2
<1>6. Causal(f, t)
  BY <1>2, <1>3, <1>4, <1>5 DEF Causal
<1> QED BY <1>2, <1>6 DEF t

LEMMA NextFollows ==
  ASSUME NEW f, Forged(f), NEW s, Causal(f, s), NEW n \in 1..Len(s)
  PROVE  /\ Follows(f, SubSeq(s, 1, n - 1), s[n])
         /\ Append(SubSeq(s, 1, n - 1), s[n]) = SubSeq(s, 1, n)
<1> DEFINE t == SubSeq(s, 1, n - 1)
<1>1. s \in Seq(Nat) /\ Len(s) \in Nat /\ n - 1 \in 0..Len(s) /\ s[n] \in Set(s)
  BY DEF Causal, Set
<1>2. t \in Seq(Nat) /\ Len(t) = n - 1 /\ \A i \in 1..(n - 1) : t[i] = s[i]
  BY <1>1, CausalPrefix
<1>3. Append(t, s[n]) = SubSeq(s, 1, n)
  BY <1>1
<1> HIDE DEF t
<1>4. s[n] \in 1..Len(f) /\ s[n] \notin Set(t)
  <2>1. s[n] \in 1..Len(f) /\ Distinct(s)
    BY <1>1 DEF Causal
  <2>2. \A i \in 1..(n - 1) : i \in 1..Len(s) /\ i # n
    BY <1>1
  <2>3. \A i \in 1..Len(t) : t[i] # s[n]
    BY <1>2, <2>1, <2>2 DEF Distinct
  <2> QED BY <2>1, <2>3 DEF Set
<1>5. CASE n = 1
  <2>1. t = <<>> /\ s[n] = 1 /\ f[1].deps = {}
    BY <1>1, <1>2, <1>5 DEF Causal, Forged
  <2> QED BY <1>3, <1>4, <2>1 DEF Follows, t
<1>6. CASE n # 1
  <2>1. t # <<>> /\ n \in 2..Len(s)
    BY <1>1, <1>2, <1>6
  <2>2. Valid(f, s[n]) /\ f[s[n]].deps \subseteq Set(t)
    BY <1>2, <2>1 DEF Causal, Set
  <2> QED BY <1>3, <1>4, <2>1, <2>2 DEF Follows, t
<1> QED BY <1>5, <1>6

(* load replays a log in causal order without an error and ends up with it.*)
LEMMA ReplayCausal ==
  ASSUME NEW f, Forged(f), NEW s, Causal(f, s)
  PROVE  Replay(f, s).ok /\ Replay(f, s).st = Healthy(s)
<1> DEFINE N == Len(s)
           value(n) == [ok |-> TRUE, new |-> IF n = 0 THEN FALSE ELSE TRUE, st |-> Healthy(SubSeq(s, 1, n))]
           Step(acc, n) == IF acc.ok THEN apply_remote(f, acc.st, s[n]) ELSE acc
           Def(h) == h = [n \in 0..N |->
                           IF n = 0 THEN [ok |-> TRUE, new |-> FALSE, st |-> Empty]
                           ELSE Step(h[n - 1], n)]
           g == [n \in 0..N |-> value(n)]
           after == CHOOSE h : Def(h)
<1>1. N \in Nat /\ s \in Seq(Nat) /\ \A n \in 1..N : n - 1 \in 0..N /\ n \in 0..N /\ n # 0
  BY DEF Causal
<1>2. value(0) = [ok |-> TRUE, new |-> FALSE, st |-> Empty]
  <2>1. SubSeq(s, 1, 0) = <<>>
    BY <1>1
  <2> QED BY <2>1, SetOfNone
<1>3. ASSUME NEW n \in 1..N PROVE Step(value(n - 1), n) = value(n)
  <2> DEFINE t == SubSeq(s, 1, n - 1)
  <2>1. Causal(f, t) /\ Follows(f, t, s[n]) /\ Append(t, s[n]) = SubSeq(s, 1, n)
    BY <1>1, CausalPrefix, NextFollows
  <2> HIDE DEF t
  <2>2. apply_remote(f, Healthy(t), s[n]) =
          [ok |-> TRUE, new |-> TRUE, st |-> Healthy(SubSeq(s, 1, n))]
    BY <2>1, ApplyHealthy
  <2>3. value(n) = [ok |-> TRUE, new |-> TRUE, st |-> Healthy(SubSeq(s, 1, n))]
    BY <1>1
  <2>4. value(n - 1).ok /\ value(n - 1).st = Healthy(t)
    BY DEF t
  <2> HIDE DEF value
  <2> QED BY <2>2, <2>3, <2>4
<1> HIDE DEF value, Step, N
<1>4. Def(g)
  BY <1>1, <1>2, <1>3
<1>5. Def(after)
  <2> HIDE DEF Def
  <2> QED BY <1>4, Zenon
<1> HIDE DEF after
<1>6. \A n \in 0..N : after[n] \in {value(n)}
  <2> DEFINE good == [n \in 0..N |-> {value(n)}]
  <2>1. after[0] \in good[0]
    BY <1>1, <1>2, <1>5
  <2>2. ASSUME NEW n \in 1..N, after[n - 1] \in good[n - 1] PROVE after[n] \in good[n]
    BY <1>1, <1>3, <1>5, <2>2
  <2>3. \A n \in 0..N : after[n] \in good[n]
    <3> HIDE DEF good, Def
    <3> QED BY <1>1, <2>1, <2>2, FoldKeeps
  <2> QED BY <2>3
<1>7. Replay(f, s) = after[N]
  BY DEF Replay, after, N, Step
<1>8. SubSeq(s, 1, N) = s
  BY <1>1 DEF N
<1>9. value(N).ok /\ value(N).st = Healthy(SubSeq(s, 1, N))
  BY DEF value
<1>10. after[N] = value(N)
  BY <1>1, <1>6
<1> QED BY <1>7, <1>8, <1>9, <1>10

\* One turn of apply_auth_ops.
Turn(f, acc, o) ==
  [new |-> acc.new \/ apply_remote(f, acc.st, o).new, st |-> apply_remote(f, acc.st, o).st]

LEMMA ApplyAllKeeps ==
  ASSUME NEW f, NEW st, NEW ops \in Seq(Nat), NEW good,
         [new |-> FALSE, st |-> st] \in good[0],
         \A n \in 1..Len(ops) : \A x \in good[n - 1] : Turn(f, x, ops[n]) \in good[n]
  PROVE  ApplyAll(f, st, ops) \in good[Len(ops)]
<1> DEFINE N == Len(ops)
           base == [new |-> FALSE, st |-> st]
           step == [n \in 1..N |-> [x \in good[n - 1] |-> Turn(f, x, ops[n])]]
           Def(h) == h = [n \in 0..N |-> IF n = 0 THEN base ELSE Turn(f, h[n - 1], ops[n])]
           after == CHOOSE h : Def(h)
<1>1. N \in Nat /\ 0 \in 0..N /\ N \in 0..N
  OBVIOUS
<1>2. \A n \in 1..N : n - 1 \in 0..N /\ n \in 0..N /\ n # 0
  BY <1>1
<1>3. \A n \in 1..N : \A x \in good[n - 1] :
        step[n][x] = Turn(f, x, ops[n]) /\ Turn(f, x, ops[n]) \in good[n]
  OBVIOUS
<1> HIDE DEF step, N, base
<1>4. base \in good[0]
  BY DEF base
<1>5. PICK g : IsFold(N, good, step, base, g)
  <2>1. Leads(N, good, step)
    BY <1>3 DEF Leads
  <2> QED BY <1>1, <1>4, <2>1, FoldExists
<1>6. \A n \in 1..N : g[n] = Turn(f, g[n - 1], ops[n])
  BY <1>2, <1>3, <1>5 DEF IsFold
<1>7. Def(g)
  <2>1. \A n \in 0..N : g[n] = IF n = 0 THEN base ELSE Turn(f, g[n - 1], ops[n])
    <3>1. \A n \in 0..N : n = 0 \/ n \in 1..N
      BY <1>1
    <3> QED BY <1>5, <1>6, <3>1 DEF IsFold
  <2> QED BY <1>5, <2>1 DEF IsFold
<1>8. Def(after)
  <2> HIDE DEF Def
  <2> QED BY <1>7, Zenon
<1> HIDE DEF after
<1>9. after[0] = base /\ \A n \in 1..N : after[n] = Turn(f, after[n - 1], ops[n])
  BY <1>1, <1>2, <1>8
<1>10. after[N] \in good[N]
  <2> HIDE DEF Def
  <2>1. \A n \in 1..N : after[n - 1] \in good[n - 1] => after[n] \in good[n]
    BY <1>3, <1>9
  <2> QED BY <1>1, <1>4, <1>9, <2>1, FoldKeeps
<1>11. ApplyAll(f, st, ops) = after[N]
  BY DEF ApplyAll, after, N, base, Turn
<1> QED BY <1>10, <1>11 DEF N

\* The value after some turns, if anything has been applied and if not.
Changed(t) == [new |-> TRUE, st |-> Healthy(t)]
Same(t) == [new |-> FALSE, st |-> Healthy(t)]

LEMMA CreationFirst ==
  ASSUME NEW f, NEW s, Causal(f, s), s # <<>>
  PROVE  1 \in Set(s)
<1>1. s \in Seq(Nat) /\ s[1] = 1
  BY DEF Causal
<1>2. 1 \in 1..Len(s)
  BY <1>1
<1> QED BY <1>1, <1>2 DEF Set

LEMMA TurnHealthy ==
  ASSUME NEW f, Forged(f), NEW t, Causal(f, t), NEW o
  PROVE  /\ o \in Set(t) =>
              Turn(f, Same(t), o) = Same(t) /\ Turn(f, Changed(t), o) = Changed(t)
         /\ Follows(f, t, o) =>
              /\ Turn(f, Same(t), o) = Changed(Append(t, o))
              /\ Turn(f, Changed(t), o) = Changed(Append(t, o))
<1>1. /\ Same(t).new = FALSE /\ Same(t).st = Healthy(t)
      /\ Changed(t).new = TRUE /\ Changed(t).st = Healthy(t)
  BY DEF Same, Changed
<1>2. ASSUME o \in Set(t)
      PROVE  Turn(f, Same(t), o) = Same(t) /\ Turn(f, Changed(t), o) = Changed(t)
  <2>1. apply_remote(f, Healthy(t), o) = [ok |-> TRUE, new |-> FALSE, st |-> Healthy(t)]
    BY <1>2, ApplyHealthy
  <2>2. apply_remote(f, Healthy(t), o).new = FALSE /\ apply_remote(f, Healthy(t), o).st = Healthy(t)
    BY <2>1
  <2> QED BY <1>1, <2>2 DEF Turn, Same, Changed
<1>3. ASSUME Follows(f, t, o)
      PROVE  /\ Turn(f, Same(t), o) = Changed(Append(t, o))
             /\ Turn(f, Changed(t), o) = Changed(Append(t, o))
  <2>1. apply_remote(f, Healthy(t), o) =
          [ok |-> TRUE, new |-> TRUE, st |-> Healthy(Append(t, o))]
    BY <1>3, ApplyHealthy
  <2>2. /\ apply_remote(f, Healthy(t), o).new = TRUE
        /\ apply_remote(f, Healthy(t), o).st = Healthy(Append(t, o))
    BY <2>1
  <2> QED BY <1>1, <2>2 DEF Turn, Same, Changed
<1> QED BY <1>2, <1>3

\* t is the log s with what ops has more.
Merges(f, s, ops, t) ==
  /\ Causal(f, t) /\ Set(t) = Set(s) \cup Set(ops)
  /\ \/ ApplyAll(f, Healthy(s), ops) = Changed(t)
     \/ ApplyAll(f, Healthy(s), ops) = Same(t) /\ t = s

(* Another log, applied to a log, adds what it has more, in causal order.  *)
LEMMA MergeHealthy ==
  ASSUME NEW f, Forged(f), NEW s, Causal(f, s), s # <<>>, NEW ops, Causal(f, ops)
  PROVE  \E t \in Seq(Nat) : Merges(f, s, ops, t)
<1> DEFINE Sum(n) == Set(s) \cup Set(SubSeq(ops, 1, n))
           Has(n, x, t) ==
             /\ Causal(f, t) /\ Set(t) = Sum(n)
             /\ x = Changed(t) \/ (x = Same(t) /\ t = s)
           good == [n \in 0..Len(ops) |->
             {x \in {Changed(t) : t \in Seq(Nat)} \cup {Same(s)} : \E t \in Seq(Nat) : Has(n, x, t)}]
<1>1. ops \in Seq(Nat) /\ Len(ops) \in Nat /\ s \in Seq(Nat) /\ SubSeq(ops, 1, Len(ops)) = ops
  BY DEF Causal
<1>2. \A n \in 0..Len(ops) : \A x : \A t \in Seq(Nat) : Has(n, x, t) => x \in good[n]
  OBVIOUS
<1> HIDE DEF Has
<1>3. \A n \in 0..Len(ops) : \A x \in good[n] : \E t \in Seq(Nat) : Has(n, x, t)
  OBVIOUS
<1> HIDE DEF good
<1>4. [new |-> FALSE, st |-> Healthy(s)] \in good[0]
  <2>1. SubSeq(ops, 1, 0) = <<>>
    BY <1>1
  <2>2. Has(0, Same(s), s)
    BY <2>1, SetOfNone DEF Has
  <2>3. Same(s) \in good[0]
    BY <1>1, <1>2, <2>2
  <2> QED BY <2>3 DEF Same
<1>5. ASSUME NEW n \in 1..Len(ops), NEW x \in good[n - 1] PROVE Turn(f, x, ops[n]) \in good[n]
  <2>1. n \in 0..Len(ops) /\ n - 1 \in 0..Len(ops) /\ ops[n] \in Nat
    BY <1>1
  <2>2. PICK t \in Seq(Nat) : Has(n - 1, x, t)
    BY <1>3, <2>1
  <2>3. /\ Follows(f, SubSeq(ops, 1, n - 1), ops[n])
        /\ Append(SubSeq(ops, 1, n - 1), ops[n]) = SubSeq(ops, 1, n)
        /\ SubSeq(ops, 1, n - 1) \in Seq(Nat)
    BY <2>1, NextFollows, CausalPrefix
  <2>4. Set(SubSeq(ops, 1, n)) = Set(SubSeq(ops, 1, n - 1)) \cup {ops[n]}
    BY <2>1, <2>3, SetOfAppend
  <2>5. Causal(f, t) /\ Set(t) = Sum(n - 1) /\ (x = Changed(t) \/ (x = Same(t) /\ t = s))
    BY <2>2 DEF Has
  <2>6. CASE ops[n] \in Set(t)
    <3>1. Turn(f, x, ops[n]) = x
      <4> HIDE DEF Sum
      <4> QED BY <2>5, <2>6, TurnHealthy
    <3>2. Has(n, x, t)
      BY <2>4, <2>5, <2>6 DEF Has
    <3> QED BY <1>2, <2>1, <2>2, <3>1, <3>2
  <2>7. CASE ops[n] \notin Set(t)
    <3>1. 1 \in Set(t)
      BY <2>5, CreationFirst
    <3>2. ops[n] # 1 /\ t # <<>>
      BY <2>7, <3>1, SetOfNone
    <3>3. Follows(f, t, ops[n])
      BY <2>3, <2>5, <2>7, <3>2 DEF Follows
    <3>4. Turn(f, x, ops[n]) = Changed(Append(t, ops[n]))
      <4> HIDE DEF Sum
      <4> QED BY <2>5, <3>3, TurnHealthy
    <3>5. Causal(f, Append(t, ops[n])) /\ Append(t, ops[n]) \in Seq(Nat)
      BY <2>1, <2>5, <3>3, CausalAppend
    <3>6. Set(Append(t, ops[n])) = Sum(n)
      BY <2>1, <2>4, <2>5, SetOfAppend
    <3>7. Has(n, Turn(f, x, ops[n]), Append(t, ops[n]))
      BY <3>4, <3>5, <3>6 DEF Has
    <3> QED BY <1>2, <2>1, <3>5, <3>7
  <2> QED BY <2>6, <2>7
<1>6. ApplyAll(f, Healthy(s), ops) \in good[Len(ops)]
  BY <1>1, <1>4, <1>5, ApplyAllKeeps
<1>7. PICK t \in Seq(Nat) : Has(Len(ops), ApplyAll(f, Healthy(s), ops), t)
  BY <1>1, <1>3, <1>6
<1> QED BY <1>1, <1>7 DEF Has, Merges

(* Once the CRDT has been emptied nothing is applied any more; what cannot *)
(* be applied waits, each operation once.                                  *)
LEMMA TurnEmptied ==
  ASSUME NEW f, Forged(f), NEW st, Emptied(f, st), Causal(f, st.ops),
         st \in AnyState, NEW o \in 1..Len(f)
  PROVE  /\ apply_remote(f, st, o).new = FALSE
         /\ apply_remote(f, st, o).st \in AnyState
         /\ apply_remote(f, st, o).st.ops = st.ops
         /\ Emptied(f, apply_remote(f, st, o).st)
<1>0. Len(f) \in Nat /\ o \in Nat
  BY DEF Forged
<1>1. CASE o \in Set(st.ops) \cup Set(st.pending)
  <2>1. apply_remote(f, st, o) = [ok |-> TRUE, new |-> FALSE, st |-> st]
    BY <1>1 DEF apply_remote
  <2> QED BY <2>1
<1>2. CASE o \notin Set(st.ops) \cup Set(st.pending) /\ ~(f[o].deps \subseteq Set(st.ops))
  <2> DEFINE new == [st EXCEPT !.pending = Append(@, o)]
  <2>1. apply_remote(f, st, o) = [ok |-> TRUE, new |-> FALSE, st |-> new]
    BY <1>2 DEF apply_remote
  <2>2. /\ new \in AnyState
        /\ new.crdt = {} /\ new.ops = st.ops /\ new.pending = Append(st.pending, o)
    <3>1. Append(st.pending, o) \in Seq(Nat)
      BY <1>0 DEF AnyState
    <3> QED BY <3>1 DEF Emptied, AnyState
  <2> HIDE DEF new
  <2>3. Set(new.pending) \subseteq 1..Len(f)
    BY <1>0, <2>2, SetOfAppend DEF Emptied
  <2>4. Distinct(new.pending)
    <3>1. /\ Len(new.pending) = Len(st.pending) + 1 /\ Len(st.pending) \in Nat
          /\ new.pending[Len(st.pending) + 1] = o
          /\ \A i \in 1..Len(st.pending) : new.pending[i] = st.pending[i]
      BY <1>0, <2>2 DEF Emptied
    <3>2. \A i \in 1..Len(new.pending) : i \in 1..Len(st.pending) \/ i = Len(st.pending) + 1
      BY <3>1
    <3>3. \A i \in 1..Len(st.pending) : st.pending[i] # o
      BY <1>2 DEF Set
    <3> QED BY <3>1, <3>2, <3>3 DEF Distinct, Emptied
  <2>5. Emptied(f, new)
    BY <1>0, <2>2, <2>3, <2>4 DEF Emptied
  <2> QED BY <2>1, <2>2, <2>5
<1>3. CASE o \notin Set(st.ops) \cup Set(st.pending) /\ f[o].deps \subseteq Set(st.ops)
  <2> DEFINE r == [ok |-> FALSE, st |-> [st EXCEPT !.crdt = {}]]
  <2>1. o # 1 /\ f[o].kind # "Create"
    BY <1>3, CreationFirst DEF Emptied, Forged
  <2>2. ~Accepts(f, st.crdt, o)
    BY <2>1 DEF Accepts, Emptied
  <2>3. process(f, st, o) = r
    BY <2>2 DEF process
  <2>4. r.st = st
    BY DEF Emptied, AnyState
  <2>5. ~r.ok /\ r.st.pending \in Seq(Nat)
    BY <2>4 DEF AnyState
  <2>6. drain_pending(f, r) = r
    <3> HIDE DEF r
    <3> QED BY <2>5, DrainNothing
  <2>7. drain_pending(f, process(f, st, o)) = r
    BY <2>3, <2>6
  <2>8. apply_remote(f, st, o) = [ok |-> FALSE, new |-> FALSE, st |-> st]
    <3>1. apply_remote(f, st, o) = [ok |-> r.ok, new |-> r.ok, st |-> r.st]
      BY <1>3, <2>7 DEF apply_remote
    <3> QED BY <2>4, <3>1
  <2> QED BY <2>8
<1> QED BY <1>1, <1>2, <1>3

LEMMA MergeEmptied ==
  ASSUME NEW f, Forged(f), NEW st, Emptied(f, st), Causal(f, st.ops),
         st \in AnyState,
         NEW ops, Causal(f, ops)
  PROVE  \E u \in AnyState :
           /\ ApplyAll(f, st, ops) = [new |-> FALSE, st |-> u]
           /\ u.ops = st.ops /\ Emptied(f, u)
<1> DEFINE All == {u \in AnyState :
                     u.ops = st.ops /\ Emptied(f, u)}
           X == {[new |-> FALSE, st |-> u] : u \in All}
           good == [n \in 0..Len(ops) |-> X]
<1>1. ops \in Seq(Nat) /\ Len(ops) \in Nat /\ \A n \in 1..Len(ops) : ops[n] \in 1..Len(f)
  BY DEF Causal, Set
<1>2. \A n \in 0..Len(ops) : good[n] = X
  OBVIOUS
<1>3. [new |-> FALSE, st |-> st] \in X
  OBVIOUS
<1>4. ASSUME NEW u \in All, NEW o \in 1..Len(f)
      PROVE  Turn(f, [new |-> FALSE, st |-> u], o) \in X
  <2>1. /\ apply_remote(f, u, o).new = FALSE
        /\ apply_remote(f, u, o).st \in All
    <3>1. u \in AnyState /\ Emptied(f, u) /\ u.ops = st.ops /\ Causal(f, u.ops)
      OBVIOUS
    <3> HIDE DEF All, X, good
    <3>2. /\ apply_remote(f, u, o).new = FALSE
          /\ apply_remote(f, u, o).st \in AnyState
          /\ apply_remote(f, u, o).st.ops = u.ops
          /\ Emptied(f, apply_remote(f, u, o).st)
      BY <3>1, TurnEmptied, Zenon
    <3>3. apply_remote(f, u, o).st \in All
      BY <3>1, <3>2, Zenon DEF All
    <3> QED BY <3>2, <3>3, Zenon
  <2>2. (FALSE \/ FALSE) = FALSE
    OBVIOUS
  <2> HIDE DEF All
  <2>3. Turn(f, [new |-> FALSE, st |-> u], o) = [new |-> FALSE, st |-> apply_remote(f, u, o).st]
    BY <2>1, <2>2 DEF Turn
  <2> QED BY <2>1, <2>3
<1>5. ASSUME NEW n \in 1..Len(ops), NEW x \in good[n - 1] PROVE Turn(f, x, ops[n]) \in good[n]
  <2>1. n \in 0..Len(ops) /\ n - 1 \in 0..Len(ops) /\ ops[n] \in 1..Len(f)
    BY <1>1
  <2> HIDE DEF All
  <2>2. PICK u \in All : x = [new |-> FALSE, st |-> u]
    BY <1>2, <2>1
  <2> QED BY <1>2, <1>4, <2>1, <2>2
<1>6. ApplyAll(f, st, ops) \in X
  <2>1. 0 \in 0..Len(ops) /\ Len(ops) \in 0..Len(ops)
    BY <1>1
  <2> HIDE DEF good, X
  <2> QED BY <1>1, <1>2, <1>3, <1>5, <2>1, ApplyAllKeeps
<1> QED BY <1>6
-----------------------------------------------------------------------------
(***************************************************************************)
(* author: the heads of a log have all of it in their past, so that a new  *)
(* operation is not in the log and is valid exactly if it is accepted.     *)
(***************************************************************************)
LEMMA PastOfHeads ==
  ASSUME NEW f, Forged(f), NEW S \in SUBSET (1..Len(f)), Closed(f, S)
  PROVE  Past(f, Heads(f, S)) = S
<1> DEFINE H == Heads(f, S)
           P == Past(f, H)
           far == {n \in Nat : \E i \in S : i \notin P /\ n = Len(f) - i}
<1>1. H \subseteq S /\ H \in SUBSET (1..Len(f)) /\ Len(f) \in Nat
  <2>1. H \subseteq S
    BY DEF Heads
  <2>2. Len(f) \in Nat
    BY DEF Forged
  <2> HIDE DEF H
  <2> QED BY <2>1, <2>2
<1>2. H \subseteq P /\ P \subseteq S /\ Closed(f, P)
  <2> HIDE DEF H
  <2> QED BY <1>1, PastFacts
<1>3. CASE far # {}
  <2>1. far \in SUBSET Nat
    OBVIOUS
  <2>2. PICK n \in far : \A k \in far : n <= k
    <3> HIDE DEF far
    <3> QED BY <1>3, <2>1, LeastPosition
  <2>3. PICK i \in S : i \notin P /\ n = Len(f) - i
    OBVIOUS
  <2>4. PICK j \in S : i \in f[j].deps
    BY <1>2, <2>3 DEF Heads
  <2>5. i \in 1..Len(f) /\ j \in 1..Len(f) /\ i < j
    BY <1>1, <2>4 DEF Forged
  <2>6. Len(f) - j \in Nat /\ Len(f) - j < n
    BY <1>1, <2>3, <2>5
  <2>7. CASE j \notin P
    <3>1. Len(f) - j \in far
      BY <2>6, <2>7, Zenon
    <3> HIDE DEF P, far
    <3> QED BY <1>1, <2>2, <2>3, <2>5, <2>6, <3>1
  <2> HIDE DEF P
  <2>8. CASE j \in P
    BY <1>2, <2>3, <2>4, <2>8 DEF Closed
  <2> QED BY <2>7, <2>8
<1>4. CASE far = {}
  <2>1. \A i \in S : Len(f) - i \in Nat
    BY <1>1
  <2>2. S \subseteq P
    <3> HIDE DEF P
    <3> QED BY <1>4, <2>1
  <2> QED BY <1>2, <2>2
<1> QED BY <1>3, <1>4

LEMMA CausalClosed ==
  ASSUME NEW f, Forged(f), NEW s, Causal(f, s)
  PROVE  Closed(f, Set(s)) /\ Set(s) \in SUBSET (1..Len(f))
<1> SUFFICES ASSUME NEW n \in 1..Len(s) PROVE f[s[n]].deps \subseteq Set(s)
  BY DEF Closed, Set, Causal
<1>1. s \in Seq(Nat) /\ Len(s) \in Nat
  BY DEF Causal
<1>2. CASE n = 1
  BY <1>1, <1>2 DEF Causal, Forged
<1>3. CASE n # 1
  <2>1. n \in 2..Len(s) /\ \A j \in 1..(n - 1) : j \in 1..Len(s)
    BY <1>1, <1>3
  <2> QED BY <2>1 DEF Causal, Set
<1> QED BY <1>2, <1>3

(* What author signs: one operation more, or the one that was signed with  *)
(* the same content.                                                       *)
LEMMA Authored ==
  ASSUME Forged(forge), Len(forge) <= MaxOps, NEW st, st.crdt \subseteq 1..Len(forge),
         NEW p \in Peers, NEW kind \in {"Add", "Remove"}, NEW m \in Peers,
         kind = "Remove" => m \notin Managers
  PROVE  /\ Grows(forge, author(st, p, kind, m).forge)
         /\ author(st, p, kind, m).op \in 1..Len(author(st, p, kind, m).forge)
         /\ author(st, p, kind, m).forge[author(st, p, kind, m).op] = Signed(st, p, kind, m)
         /\ author(st, p, kind, m).result =
              process(author(st, p, kind, m).forge, st, author(st, p, kind, m).op)
         /\ \A i \in 1..Len(author(st, p, kind, m).forge) :
              i \in 1..Len(forge) \/ i = author(st, p, kind, m).op
         /\ author(st, p, kind, m).op <= MaxOps => Len(author(st, p, kind, m).forge) <= MaxOps
<1> DEFINE c == Signed(st, p, kind, m)
           old == {i \in 1..Len(forge) : forge[i] = c}
           a == author(st, p, kind, m)
<1>1. Heads(forge, st.crdt) \subseteq 1..Len(forge)
  BY DEF Heads
<1>2. forge \in Seq(Content) /\ Len(forge) \in Nat /\ 1..Len(forge) \subseteq OpIds /\ MaxOps \in Nat
  BY AuthLogAssumption DEF Forged, OpIds
<1>3. c \in Content /\ c.deps \subseteq 1..Len(forge) /\ c.kind = kind /\ c.member = m
  BY <1>1, <1>2 DEF Signed, Content
<1>4. CASE old = {}
  <2> DEFINE g == Append(forge, c)
  <2>1. a = [op |-> Len(forge) + 1, forge |-> g, result |-> process(g, st, Len(forge) + 1)]
    BY <1>4 DEF author
  <2> HIDE DEF c
  <2>2. /\ g \in Seq(Content) /\ Len(g) = Len(forge) + 1 /\ g[Len(forge) + 1] = c
        /\ \A i \in 1..Len(forge) : g[i] = forge[i]
    BY <1>2, <1>3
  <2> HIDE DEF g
  <2>3. ASSUME NEW i \in 2..Len(g)
        PROVE  /\ g[i].kind # "Create" /\ g[i].deps \subseteq 1..(i - 1)
               /\ g[i].kind = "Remove" => g[i].member \notin Managers
    <3>1. CASE i = Len(forge) + 1
      <4>1. i - 1 = Len(forge) /\ g[i] = c
        BY <1>2, <2>2, <3>1
      <4> QED BY <1>3, <4>1
    <3>2. CASE i # Len(forge) + 1
      <4>1. i \in 2..Len(forge) /\ g[i] = forge[i]
        BY <1>2, <2>2, <3>2
      <4> QED BY <4>1 DEF Forged
    <3> QED BY <3>1, <3>2
  <2>4. Forged(g)
    <3>1. 1 \in 1..Len(forge) /\ Len(g) >= 1
      BY <1>2, <2>2 DEF Forged
    <3> QED BY <2>2, <2>3, <3>1 DEF Forged
  <2>5. Grows(forge, g)
    BY <1>2, <2>2, <2>4 DEF Grows
  <2>6. \A i \in 1..Len(g) : i \in 1..Len(forge) \/ i = Len(forge) + 1
    BY <1>2, <2>2
  <2>7. Len(forge) + 1 \in 1..Len(g)
    BY <1>2, <2>2
  <2>8. a.op = Len(forge) + 1 /\ a.forge = g /\ a.result = process(g, st, Len(forge) + 1)
    BY <2>1
  <2> HIDE DEF a
  <2> QED BY <2>2, <2>5, <2>6, <2>7, <2>8 DEF a, c
<1>5. CASE old # {}
  <2> DEFINE o == CHOOSE i \in old : TRUE
  <2>1. o \in old
    BY <1>5
  <2>2. a = [op |-> o, forge |-> forge, result |-> process(forge, st, o)]
    BY <1>5 DEF author
  <2> HIDE DEF o
  <2>3. o \in 1..Len(forge) /\ forge[o] = c
    BY <2>1
  <2>4. a.op = o /\ a.forge = forge /\ a.result = process(forge, st, o)
    BY <2>2
  <2>5. Grows(forge, forge)
    BY <1>2 DEF Grows
  <2> HIDE DEF a, c
  <2> QED BY <2>3, <2>4, <2>5 DEF a, c
<1> QED BY <1>4, <1>5

(* author on top of a log: either the operation is valid and the log grows *)
(* by it, or it is not and the CRDT is gone.                               *)
LEMMA AuthorHealthy ==
  ASSUME Forged(forge), Len(forge) <= MaxOps, NEW s, Causal(forge, s), s # <<>>,
         NEW p \in Peers, NEW kind \in {"Add", "Remove"}, NEW m \in Peers,
         kind = "Remove" => m \notin Managers
  PROVE  LET a == author(Healthy(s), p, kind, m) IN
         /\ a.op \notin Set(s)
         /\ \/ /\ a.result.ok /\ Valid(a.forge, a.op)
               /\ a.result.st = Healthy(Append(s, a.op))
               /\ Causal(a.forge, Append(s, a.op))
            \/ /\ ~a.result.ok /\ ~Valid(a.forge, a.op)
               /\ a.result.st = [crdt |-> {}, ops |-> s, pending |-> <<>>]
<1> DEFINE a == author(Healthy(s), p, kind, m)
           f == a.forge
           o == a.op
<1>1. Set(s) \in SUBSET (1..Len(forge)) /\ Closed(forge, Set(s)) /\ Healthy(s).crdt = Set(s)
  BY CausalClosed DEF Healthy
<1>2. /\ Grows(forge, f) /\ o \in 1..Len(f) /\ f[o] = Signed(Healthy(s), p, kind, m)
      /\ a.result = process(f, Healthy(s), o)
  BY <1>1, Authored
<1> HIDE DEF a, f, o
<1>3. /\ Forged(f) /\ Causal(f, s) /\ Closed(f, Set(s)) /\ Set(s) \in SUBSET (1..Len(f))
      /\ o \in Nat
  <2>1. Forged(f)
    BY <1>2 DEF Grows
  <2>2. Causal(f, s)
    BY <1>2, CausalGrows
  <2>3. o \in Nat
    BY <1>2, <2>1 DEF Forged
  <2> QED BY <2>1, <2>2, <2>3, CausalClosed
<1>4. f[o].deps = Heads(f, Set(s)) /\ f[o].kind # "Create"
  BY <1>1, <1>2 DEF Signed, Heads, Grows
<1>5. Past(f, f[o].deps) = Set(s) /\ f[o].deps \subseteq Set(s)
  BY <1>3, <1>4, PastOfHeads DEF Heads
<1>6. o \notin Set(s)
  <2>1. f[o].deps \subseteq 1..(o - 1)
    BY <1>2, <1>3 DEF Forged
  <2>2. 1..(o - 1) \in SUBSET (1..Len(f)) /\ Closed(f, 1..(o - 1))
    BY <1>2, <1>3 DEF Closed, Forged
  <2>3. Past(f, f[o].deps) \subseteq 1..(o - 1)
    BY <1>3, <1>5, <2>1, <2>2, PastFacts
  <2> QED BY <1>3, <1>5, <2>3
<1>7. Accepts(f, Healthy(s).crdt, o) <=> Valid(f, o)
  BY <1>1, <1>4, <1>5 DEF Accepts, Valid
<1>8. CASE Valid(f, o)
  <2>1. Follows(f, s, o)
    BY <1>2, <1>5, <1>6, <1>8 DEF Follows
  <2>2. Causal(f, Append(s, o)) /\ s \in Seq(Nat)
    <3>1. s \in Seq(Nat)
      BY <1>3 DEF Causal
    <3> QED BY <1>3, <2>1, <3>1, CausalAppend
  <2>3. a.result = [ok |-> TRUE, st |-> Healthy(Append(s, o))]
    <3>1. Accepts(f, Healthy(s).crdt, o)
      BY <1>7, <1>8, Zenon
    <3>2. Set(Append(s, o)) = Set(s) \cup {o}
      BY <1>3, <2>2, SetOfAppend
    <3>3. process(f, Healthy(s), o) = [ok |-> TRUE, st |-> Healthy(Append(s, o))]
      BY <3>1, <3>2 DEF process, Healthy
    <3> QED BY <1>2, <3>3, Zenon
  <2>4. a.result.ok /\ a.result.st = Healthy(Append(s, o))
    BY <2>3
  <2> QED BY <1>6, <1>8, <2>2, <2>4 DEF a, f, o
<1>9. CASE ~Valid(f, o)
  <2>1. a.result = [ok |-> FALSE, st |-> [crdt |-> {}, ops |-> s, pending |-> <<>>]]
    <3>1. ~Accepts(f, Healthy(s).crdt, o)
      BY <1>7, <1>9, Zenon
    <3>2. process(f, Healthy(s), o) =
            [ok |-> FALSE, st |-> [crdt |-> {}, ops |-> s, pending |-> <<>>]]
      BY <3>1 DEF process, Healthy
    <3> QED BY <1>2, <3>2, Zenon
  <2>2. ~a.result.ok /\ a.result.st = [crdt |-> {}, ops |-> s, pending |-> <<>>]
    BY <2>1
  <2> QED BY <1>6, <1>9, <2>2 DEF a, f, o
<1> QED BY <1>8, <1>9

(* Once the CRDT has been emptied author signs, without effect.            *)
LEMMA AuthorEmptied ==
  ASSUME Forged(forge), Len(forge) <= MaxOps, NEW st \in AnyState, Emptied(forge, st),
         NEW p \in Peers, NEW kind \in {"Add", "Remove"}, NEW m \in Peers,
         kind = "Remove" => m \notin Managers
  PROVE  LET a == author(st, p, kind, m) IN
         ~a.result.ok /\ ~Valid(a.forge, a.op) /\ a.result.st = st
<1> DEFINE a == author(st, p, kind, m)
<1>0. st.crdt \subseteq 1..Len(forge)
  BY DEF Emptied
<1>1. st.crdt = {}
  BY DEF Emptied
<1>2. /\ a.forge[a.op] = Signed(st, p, kind, m)
      /\ a.result = process(a.forge, st, a.op)
  BY <1>0, Authored, SMTT(60)
<1> HIDE DEF a
<1>3. a.forge[a.op].deps = {} /\ a.forge[a.op].kind # "Create"
  BY <1>1, <1>2 DEF Signed, Heads
<1>4. ~Accepts(a.forge, st.crdt, a.op) /\ ~Valid(a.forge, a.op)
  BY <1>3 DEF Accepts, Valid
<1>5. a.result = [ok |-> FALSE, st |-> st]
  BY <1>1, <1>2, <1>4 DEF process, AnyState
<1>6. ~a.result.ok /\ a.result.st = st
  BY <1>5
<1> QED BY <1>4, <1>6 DEF a
-----------------------------------------------------------------------------
(***************************************************************************)
(* What each action does, in terms of logs in causal order.                *)
(***************************************************************************)
LEMMA Facts ==
  ASSUME AuthInv, NEW p \in Peers
  PROVE  /\ Forged(forge) /\ Len(forge) <= MaxOps /\ Len(forge) \in Nat
         /\ Causal(forge, log[p]) /\ Causal(forge, state[p].ops)
         /\ state[p] \in AnyState /\ state[p].ops \in Seq(Nat) /\ log[p] \in Seq(Nat)
         /\ up[p] => state[p].ops # <<>> /\ log[p] # <<>>
         /\ ~up[p] => state[p] = Empty
         /\ state[p] = Healthy(state[p].ops) \/ Emptied(forge, state[p])
<1>1. Forged(forge) /\ Len(forge) <= MaxOps /\ LogInv /\ StateInv
  BY DEF AuthInv
<1>2. Len(forge) \in Nat
  BY <1>1 DEF Forged
<1>3. Causal(forge, log[p]) /\ Causal(forge, state[p].ops)
  BY <1>1 DEF LogInv
<1>4. state[p].ops \in Seq(Nat) /\ log[p] \in Seq(Nat)
  BY <1>3 DEF Causal
<1> QED BY <1>1, <1>2, <1>3, <1>4, Zenon DEF StateInv

\* p signs o, on top of the log s.
Signs(p, s, o) ==
  /\ Grows(forge, forge') /\ Len(forge') <= MaxOps
  /\ o \in 1..Len(forge') /\ forge'[o].author = p /\ o \notin Set(s)
  /\ forge'[o].kind # "Create" /\ forge'[o].deps = Heads(forge', Set(s))
  /\ \A i \in 1..Len(forge') : i \in 1..Len(forge) \/ i = o

\* o has its effect on the log s, which is saved, and a ticket made of it.
TakesEffect(p, kind, m, s, o) ==
  /\ Valid(forge', o) /\ Causal(forge', Append(s, o))
  /\ Saved(p, kind, m, Append(s, o))

LEMMA AuthorEffect ==
  ASSUME Forged(forge), Len(forge) <= MaxOps, NEW s \in Seq(Nat), Causal(forge, s), s # <<>>,
         NEW p \in Peers, NEW kind \in {"Add", "Remove"}, NEW m \in Peers,
         MayAuthor(Healthy(s), p, kind, m), author(Healthy(s), p, kind, m).op <= MaxOps,
         forge' = author(Healthy(s), p, kind, m).forge,
         IF author(Healthy(s), p, kind, m).result.ok
         THEN Saved(p, kind, m, author(Healthy(s), p, kind, m).result.st.ops)
         ELSE UNCHANGED <<log, tickets>>
  PROVE  \E o \in Nat :
           /\ Signs(p, s, o)
           /\ \/ /\ TakesEffect(p, kind, m, s, o)
                 /\ author(Healthy(s), p, kind, m).result.st = Healthy(Append(s, o))
              \/ /\ ~Valid(forge', o) /\ UNCHANGED <<log, tickets>>
                 /\ author(Healthy(s), p, kind, m).result.st =
                      [crdt |-> {}, ops |-> s, pending |-> <<>>]
<1> DEFINE a == author(Healthy(s), p, kind, m)
<1>1. kind = "Remove" => m \notin Managers
  BY DEF MayAuthor, Managers
<1>2. /\ a.op \notin Set(s)
      /\ \/ /\ a.result.ok /\ Valid(a.forge, a.op)
            /\ a.result.st = Healthy(Append(s, a.op))
            /\ Causal(a.forge, Append(s, a.op))
         \/ /\ ~a.result.ok /\ ~Valid(a.forge, a.op)
            /\ a.result.st = [crdt |-> {}, ops |-> s, pending |-> <<>>]
  BY <1>1, AuthorHealthy
<1>3. Healthy(s).crdt \subseteq 1..Len(forge)
  BY CausalClosed DEF Healthy
<1>4. /\ Grows(forge, a.forge) /\ a.op \in 1..Len(a.forge)
      /\ a.forge[a.op] = Signed(Healthy(s), p, kind, m)
      /\ \A i \in 1..Len(a.forge) : i \in 1..Len(forge) \/ i = a.op
      /\ Len(a.forge) <= MaxOps
  BY <1>1, <1>3, Authored
<1>5. /\ forge' = a.forge
      /\ IF a.result.ok THEN Saved(p, kind, m, a.result.st.ops) ELSE UNCHANGED <<log, tickets>>
  BY Zenon
<1> HIDE DEF a
<1>6. Signs(p, s, a.op) /\ a.op \in Nat
  <2>1. forge'[a.op].author = p /\ forge'[a.op].kind # "Create"
    BY <1>5, <1>4 DEF Signed
  <2>2. forge'[a.op].deps = Heads(forge', Set(s))
    <3>1. \A i \in Set(s) : forge'[i] = forge[i]
      BY <1>3, <1>4, <1>5 DEF Grows, Healthy
    <3>2. forge'[a.op].deps = Heads(forge, Set(s))
      BY <1>4, <1>5 DEF Signed, Healthy
    <3> QED BY <3>1, <3>2 DEF Heads
  <2>3. a.op \in Nat
    BY <1>4 DEF Grows, Forged
  <2> QED BY <1>2, <1>4, <1>5, <2>1, <2>2, <2>3, Zenon DEF Signs
<1>7. CASE a.result.ok
  <2>1. Healthy(Append(s, a.op)).ops = Append(s, a.op)
    BY DEF Healthy
  <2>2. TakesEffect(p, kind, m, s, a.op)
    BY <1>2, <1>5, <1>7, <2>1, Zenon DEF TakesEffect
  <2> QED BY <1>2, <1>6, <1>7, <2>2, Zenon DEF a
<1>8. CASE ~a.result.ok
  BY <1>2, <1>5, <1>6, <1>8, Zenon DEF a
<1> QED BY <1>7, <1>8

LEMMA CommandEffect ==
  ASSUME AuthInv, NEW p \in Peers, NEW kind \in {"Add", "Remove"}, NEW m \in Peers,
         Command(p, kind, m), state[p] = Healthy(state[p].ops)
  PROVE  \E s \in Seq(Nat), o \in Nat :
           /\ s = state[p].ops /\ s # <<>> /\ up[p] /\ p \in Askers /\ Signs(p, s, o)
           /\ UNCHANGED <<up, snapshots, crashes>>
           /\ \/ /\ TakesEffect(p, kind, m, s, o)
                 /\ state' = [state EXCEPT ![p] = Healthy(Append(s, o))]
              \/ /\ ~Valid(forge', o) /\ UNCHANGED <<log, tickets>>
                 /\ state' = [state EXCEPT ![p] = [crdt |-> {}, ops |-> s, pending |-> <<>>]]
<1>1. PICK s \in Seq(Nat) : s = state[p].ops
  BY Facts
<1> DEFINE a == author(Healthy(s), p, kind, m)
<1>2. /\ up[p] /\ MayAuthor(Healthy(s), p, kind, m) /\ a.op <= MaxOps
      /\ forge' = a.forge /\ state' = [state EXCEPT ![p] = a.result.st]
      /\ IF a.result.ok THEN Saved(p, kind, m, a.result.st.ops) ELSE UNCHANGED <<log, tickets>>
      /\ UNCHANGED <<up, snapshots, crashes>>
  BY <1>1, Zenon DEF Command
<1>3. Forged(forge) /\ Len(forge) <= MaxOps /\ Causal(forge, s) /\ s # <<>>
  BY <1>1, <1>2, Facts
<1>4. p \in Askers
  BY <1>2 DEF MayAuthor
<1>5. PICK o \in Nat :
        /\ Signs(p, s, o)
        /\ \/ TakesEffect(p, kind, m, s, o) /\ a.result.st = Healthy(Append(s, o))
           \/ /\ ~Valid(forge', o) /\ UNCHANGED <<log, tickets>>
              /\ a.result.st = [crdt |-> {}, ops |-> s, pending |-> <<>>]
  BY <1>2, <1>3, AuthorEffect, Zenon
<1> HIDE DEF a
<1> QED BY <1>1, <1>2, <1>3, <1>4, <1>5, Zenon

LEMMA CommandEmptied ==
  ASSUME AuthInv, NEW p \in Peers, NEW kind \in {"Add", "Remove"}, NEW m \in Peers,
         Command(p, kind, m), Emptied(forge, state[p])
  PROVE  \E o \in Nat :
           /\ Grows(forge, forge') /\ Len(forge') <= MaxOps /\ ~Valid(forge', o)
           /\ \A i \in 1..Len(forge') : i \in 1..Len(forge) \/ i = o
           /\ up[p] /\ state'[p] = state[p] /\ state' = [state EXCEPT ![p] = state[p]]
           /\ UNCHANGED <<up, log, tickets, snapshots, crashes>>
<1>1. PICK st \in AnyState : st = state[p]
  BY Facts
<1> DEFINE a == author(st, p, kind, m)
<1>2. /\ up[p] /\ MayAuthor(st, p, kind, m) /\ a.op <= MaxOps
      /\ forge' = a.forge /\ state' = [state EXCEPT ![p] = a.result.st]
      /\ IF a.result.ok THEN Saved(p, kind, m, a.result.st.ops) ELSE UNCHANGED <<log, tickets>>
      /\ UNCHANGED <<up, snapshots, crashes>>
  BY <1>1, Zenon DEF Command
<1>3. kind = "Remove" => m \notin Managers
  BY <1>2 DEF MayAuthor, Managers
<1>4. Forged(forge) /\ Len(forge) <= MaxOps /\ Emptied(forge, st)
  BY <1>1, Facts
<1>5. ~a.result.ok /\ ~Valid(a.forge, a.op) /\ a.result.st = st
  BY <1>3, <1>4, AuthorEmptied
<1>6. st.crdt \subseteq 1..Len(forge)
  BY <1>4 DEF Emptied
<1>7. /\ Grows(forge, a.forge) /\ a.op \in 1..Len(a.forge)
      /\ \A i \in 1..Len(a.forge) : i \in 1..Len(forge) \/ i = a.op
      /\ Len(a.forge) <= MaxOps
  BY <1>2, <1>3, <1>4, <1>6, Authored, SMTT(60)
<1> HIDE DEF a
<1>8. a.op \in Nat
  BY <1>7 DEF Grows, Forged
<1>9. state' = [state EXCEPT ![p] = state[p]] /\ state'[p] = state[p]
  <2>1. state' = [state EXCEPT ![p] = state[p]] /\ Total(state)
    BY <1>1, <1>2, <1>5, Zenon DEF AuthInv
  <2> QED BY <2>1
<1> QED BY <1>2, <1>5, <1>7, <1>8, <1>9, Zenon

LEMMA DirectEffect ==
  ASSUME AuthInv, NEW p \in Peers, NEW kind \in {"Add", "Remove"}, NEW m \in Peers,
         DirectCommand(p, kind, m)
  PROVE  \E s \in Seq(Nat), o \in Nat :
           /\ s = log[p] /\ s # <<>> /\ up[p] \in DirectWhen /\ p \in Askers /\ Signs(p, s, o)
           /\ UNCHANGED <<up, state, snapshots, crashes>>
           /\ \/ TakesEffect(p, kind, m, s, o)
              \/ ~Valid(forge', o) /\ UNCHANGED <<log, tickets>>
<1>1. PICK s \in Seq(Nat) : s = log[p]
  BY Facts
<1>2. Forged(forge) /\ Len(forge) <= MaxOps /\ Causal(forge, s)
  BY <1>1, Facts
<1>3. Replay(forge, s).st = Healthy(s)
  BY <1>2, ReplayCausal
<1> DEFINE a == author(Healthy(s), p, kind, m)
<1>4. /\ up[p] \in DirectWhen /\ MayAuthor(Healthy(s), p, kind, m) /\ a.op <= MaxOps
      /\ forge' = a.forge
      /\ IF a.result.ok THEN Saved(p, kind, m, a.result.st.ops) ELSE UNCHANGED <<log, tickets>>
      /\ UNCHANGED <<up, state, snapshots, crashes>>
  BY <1>1, <1>3, Zenon DEF DirectCommand
<1>5. p \in Askers /\ s # <<>>
  BY <1>4 DEF MayAuthor, Healthy
<1>6. PICK o \in Nat :
        /\ Signs(p, s, o)
        /\ \/ TakesEffect(p, kind, m, s, o)
           \/ ~Valid(forge', o) /\ UNCHANGED <<log, tickets>>
  BY <1>2, <1>4, <1>5, AuthorEffect, Zenon
<1> HIDE DEF a
<1> QED BY <1>1, <1>4, <1>5, <1>6, Zenon

LEMMA JoinEffect ==
  ASSUME AuthInv, NEW p \in Peers, Join(p)
  PROVE  \E t \in tickets, s \in Seq(Nat) :
           /\ t.auth_log = s /\ s # <<>> /\ Causal(forge, s) /\ log[p] = <<>>
           /\ p \in MembersOf(forge, Set(s))
           /\ log' = [log EXCEPT ![p] = s]
           /\ state' = [state EXCEPT ![p] = Healthy(s)]
           /\ up' = [up EXCEPT ![p] = TRUE]
           /\ UNCHANGED <<forge, snapshots, tickets, crashes>>
<1>1. PICK t \in tickets :
        LET st == Replay(forge, t.auth_log).st IN
        /\ log[p] = <<>> /\ p \in MembersOf(forge, st.crdt)
        /\ log' = [log EXCEPT ![p] = st.ops]
        /\ state' = [state EXCEPT ![p] = Replay(forge, st.ops).st]
        /\ up' = [up EXCEPT ![p] = TRUE]
        /\ UNCHANGED <<forge, snapshots, tickets, crashes>>
  BY Zenon DEF Join
<1>2. t.auth_log # <<>> /\ Causal(forge, t.auth_log)
  BY DEF AuthInv, LogInv
<1>3. PICK s \in Seq(Nat) : s = t.auth_log
  BY <1>2 DEF Causal
<1>4. Replay(forge, s).st = Healthy(s)
  BY <1>2, <1>3, Facts, ReplayCausal
<1>5. Healthy(s).ops = s /\ Healthy(s).crdt = Set(s)
  BY DEF Healthy
<1> QED BY <1>1, <1>2, <1>3, <1>4, <1>5, Zenon

LEMMA StartEffect ==
  ASSUME AuthInv, NEW p \in Peers, Start(p)
  PROVE  /\ log[p] # <<>> /\ state' = [state EXCEPT ![p] = Healthy(log[p])]
         /\ up' = [up EXCEPT ![p] = TRUE]
         /\ UNCHANGED <<forge, log, snapshots, tickets, crashes>>
<1>1. Replay(forge, log[p]).st = Healthy(log[p])
  BY Facts, ReplayCausal
<1> QED BY <1>1, Zenon DEF Start

(* apply_auth_ops: what the others have more is appended and saved, unless *)
(* the CRDT is gone.                                                       *)
LEMMA ApplyEffect ==
  ASSUME AuthInv, NEW p \in Peers, NEW ops \in snapshots, ApplyAuthOps(p, ops)
  PROVE  \E u \in AnyState, l \in Seq(Nat) :
           /\ up[p] /\ UNCHANGED <<forge, up, snapshots, tickets, crashes>>
           /\ state' = [state EXCEPT ![p] = u] /\ log' = [log EXCEPT ![p] = l]
           /\ Causal(forge, u.ops) /\ u.ops # <<>>
           /\ \/ /\ state[p] = Healthy(state[p].ops) /\ u = Healthy(u.ops)
                 /\ Set(u.ops) = Set(state[p].ops) \cup Set(ops)
                 /\ l = u.ops \/ (l = log[p] /\ u.ops = state[p].ops)
              \/ /\ Emptied(forge, state[p]) /\ Emptied(forge, u)
                 /\ u.ops = state[p].ops /\ l = log[p]
<1>1. PICK st \in AnyState, l0 \in Seq(Nat) : st = state[p] /\ l0 = log[p]
  BY Facts
<1>2. /\ up[p] /\ UNCHANGED <<forge, up, snapshots, tickets, crashes>>
      /\ state' = [state EXCEPT ![p] = ApplyAll(forge, st, ops).st]
      /\ log' = [log EXCEPT ![p] = IF ApplyAll(forge, st, ops).new
                                   THEN ApplyAll(forge, st, ops).st.ops ELSE l0]
  BY <1>1 DEF ApplyAuthOps
<1>3. Forged(forge) /\ Causal(forge, st.ops) /\ st.ops # <<>> /\ st.ops \in Seq(Nat)
  BY <1>1, <1>2, Facts
<1>4. Causal(forge, ops)
  BY DEF AuthInv, LogInv
<1>5. CASE st = Healthy(st.ops)
  <2>1. PICK t \in Seq(Nat) :
          /\ Causal(forge, t) /\ Set(t) = Set(st.ops) \cup Set(ops)
          /\ \/ ApplyAll(forge, Healthy(st.ops), ops) = Changed(t)
             \/ ApplyAll(forge, Healthy(st.ops), ops) = Same(t) /\ t = st.ops
    <3>1. PICK s \in Seq(Nat) : s = st.ops
      BY <1>3
    <3>2. Causal(forge, s) /\ s # <<>>
      BY <1>3, <3>1
    <3>3. \E t \in Seq(Nat) : Merges(forge, s, ops, t)
      BY <1>3, <1>4, <3>2, MergeHealthy
    <3> QED BY <3>1, <3>3, Zenon DEF Merges
  <2>2. /\ Changed(t).st = Healthy(t) /\ Changed(t).new /\ Same(t).st = Healthy(t) /\ ~Same(t).new
        /\ Healthy(t).ops = t
    BY DEF Changed, Same, Healthy
  <2>3. t # <<>>
    BY <1>3, <2>1, CreationFirst, SetOfNone
  <2>4. Healthy(t) \in AnyState
    <3>1. Set(t) \in SUBSET Nat
      BY <2>1, <1>3 DEF Causal, Forged
    <3> QED BY <2>1, <3>1 DEF Healthy, AnyState
  <2>5. state' = [state EXCEPT ![p] = Healthy(t)]
    BY <1>2, <1>5, <2>1, <2>2, Zenon
  <2>6. CASE ApplyAll(forge, Healthy(st.ops), ops) = Changed(t)
    <3>1. log' = [log EXCEPT ![p] = t]
      BY <1>2, <1>5, <2>2, <2>6, Zenon
    <3> QED BY <1>1, <1>2, <1>5, <2>1, <2>2, <2>3, <2>4, <2>5, <3>1, Zenon
  <2>7. CASE ApplyAll(forge, Healthy(st.ops), ops) = Same(t) /\ t = st.ops
    <3>1. log' = [log EXCEPT ![p] = l0]
      BY <1>2, <1>5, <2>2, <2>7, Zenon
    <3> QED BY <1>1, <1>2, <1>5, <2>1, <2>2, <2>3, <2>4, <2>5, <2>7, <3>1, Zenon
  <2> QED BY <2>1, <2>6, <2>7
<1>6. CASE Emptied(forge, st)
  <2>1. PICK u \in AnyState :
          /\ ApplyAll(forge, st, ops) = [new |-> FALSE, st |-> u]
          /\ u.ops = st.ops /\ Emptied(forge, u)
    BY <1>3, <1>4, <1>6, MergeEmptied
  <2>2. ApplyAll(forge, st, ops).st = u /\ ~ApplyAll(forge, st, ops).new
    BY <2>1
  <2>3. state' = [state EXCEPT ![p] = u] /\ log' = [log EXCEPT ![p] = l0]
    BY <1>2, <2>2, Zenon
  <2> QED BY <1>1, <1>2, <1>3, <1>6, <2>1, <2>3, Zenon
<1>7. st = Healthy(st.ops) \/ Emptied(forge, st)
  BY <1>1, Facts
<1> QED BY <1>5, <1>6, <1>7
-----------------------------------------------------------------------------
(***************************************************************************)
(* The inductive invariant.                                                *)
(***************************************************************************)
\* A sound log and AuthState for a peer, given what has been signed.
Sound(f, b, st, l) ==
  /\ Causal(f, l) /\ Causal(f, st.ops) /\ st \in AnyState
  /\ b => st.ops # <<>> /\ l # <<>>
  /\ ~b => st = Empty
  /\ st = Healthy(st.ops) \/ Emptied(f, st)

LEMMA SoundGrows ==
  ASSUME NEW f, NEW g, Grows(f, g), NEW b, NEW st, NEW l, Sound(f, b, st, l)
  PROVE  Sound(g, b, st, l)
<1>1. Causal(g, l) /\ Causal(g, st.ops)
  <2>1. Causal(f, l) /\ Causal(f, st.ops)
    BY DEF Sound
  <2> QED BY <2>1, CausalGrows
<1>2. 1..Len(f) \subseteq 1..Len(g)
  BY DEF Grows, Forged
<1>3. Emptied(f, st) => Emptied(g, st)
  BY <1>2 DEF Emptied
<1> QED BY <1>1, <1>3, Zenon DEF Sound

LEMMA SoundInv ==
  AuthInv <=>
    /\ up \in [Peers -> BOOLEAN] /\ crashes \in 0..MaxCrashes
    /\ Total(state) /\ Total(log)
    /\ tickets \subseteq [invitee : Peers, auth_log : Seq(Nat)]
    /\ Forged(forge) /\ Len(forge) <= MaxOps
    /\ \A p \in Peers : Sound(forge, up[p], state[p], log[p])
    /\ \A s \in snapshots : s # <<>> /\ Causal(forge, s)
    /\ \A t \in tickets : t.auth_log # <<>> /\ Causal(forge, t.auth_log)
BY Zenon DEF AuthInv, LogInv, StateInv, Sound

(* Any step by one peer that leaves it with a sound log and state, and     *)
(* hands out logs in causal order, keeps the invariant.                    *)
LEMMA SoundStep ==
  ASSUME AuthInv, Grows(forge, forge'), Len(forge') <= MaxOps, NEW p \in Peers,
         Total(state'), Total(log'), up' \in [Peers -> BOOLEAN],
         crashes' \in 0..MaxCrashes,
         Sound(forge', up'[p], state'[p], log'[p]),
         \A q \in Peers : q # p => up'[q] = up[q] /\ state'[q] = state[q] /\ log'[q] = log[q],
         \A s \in snapshots' : s \in snapshots \/ (s # <<>> /\ Causal(forge', s)),
         \A t \in tickets' :
           \/ t \in tickets
           \/ /\ t \in [invitee : Peers, auth_log : Seq(Nat)]
              /\ t.auth_log # <<>> /\ Causal(forge', t.auth_log)
  PROVE  AuthInv'
<1>1. /\ tickets \subseteq [invitee : Peers, auth_log : Seq(Nat)]
      /\ \A q \in Peers : Sound(forge, up[q], state[q], log[q])
      /\ \A s \in snapshots : s # <<>> /\ Causal(forge, s)
      /\ \A t \in tickets : t.auth_log # <<>> /\ Causal(forge, t.auth_log)
  BY SoundInv
<1>2. ASSUME NEW q \in Peers PROVE Sound(forge', up'[q], state'[q], log'[q])
  <2>1. CASE q = p
    BY <2>1
  <2>2. CASE q # p
    <3>1. PICK b, st, l : b = up[q] /\ st = state[q] /\ l = log[q]
      OBVIOUS
    <3>2. Sound(forge, b, st, l)
      BY <1>1, <3>1
    <3>3. Sound(forge', b, st, l)
      BY <3>2, SoundGrows
    <3> QED BY <2>2, <3>1, <3>3
  <2> QED BY <2>1, <2>2
<1>3. ASSUME NEW s \in snapshots' PROVE s # <<>> /\ Causal(forge', s)
  <2>1. s \in snapshots => s # <<>> /\ Causal(forge, s)
    BY <1>1
  <2> QED BY <2>1, CausalGrows
<1>4. ASSUME NEW t \in tickets' PROVE t.auth_log # <<>> /\ Causal(forge', t.auth_log)
  <2>1. t \in tickets => t.auth_log # <<>> /\ Causal(forge, t.auth_log)
    BY <1>1
  <2> QED BY <2>1, CausalGrows
<1>5. tickets' \subseteq [invitee : Peers, auth_log : Seq(Nat)]
  BY <1>1, Zenon
<1>6. Forged(forge')
  BY DEF Grows
<1>7. LogInv'
  BY <1>2, <1>3, <1>4, Zenon DEF LogInv, Sound
<1>8. StateInv'
  BY <1>2, Zenon DEF StateInv, Sound
<1> QED BY <1>5, <1>6, <1>7, <1>8, Zenon DEF AuthInv

LEMMA SoundNow ==
  ASSUME AuthInv, NEW q \in Peers
  PROVE  /\ Sound(forge, up[q], state[q], log[q])
         /\ Grows(forge, forge) /\ Len(forge) <= MaxOps
         /\ Total(state) /\ Total(log) /\ up \in [Peers -> BOOLEAN]
         /\ crashes \in 0..MaxCrashes
<1>1. Forged(forge) => Grows(forge, forge)
  BY DEF Grows, Forged
<1> QED BY <1>1, SoundInv, Zenon

LEMMA HealthyIsSound ==
  ASSUME NEW f, Forged(f), NEW s, Causal(f, s), s # <<>>, NEW l, Causal(f, l), l # <<>>
  PROVE  Sound(f, TRUE, Healthy(s), l)
<1>1. s \in Seq(Nat) /\ Set(s) \in SUBSET Nat
  BY DEF Causal, Forged
<1>2. Healthy(s).ops = s /\ Healthy(s) \in AnyState
  BY <1>1 DEF Healthy, AnyState
<1> QED BY <1>2, Zenon DEF Sound

LEMMA EmptiedIsSound ==
  ASSUME NEW f, NEW u \in AnyState, Emptied(f, u), Causal(f, u.ops), NEW l, Causal(f, l), l # <<>>
  PROVE  Sound(f, TRUE, u, l)
<1>1. u.ops # <<>>
  BY DEF Emptied
<1> QED BY <1>1, Zenon DEF Sound

LEMMA SavedSound ==
  ASSUME NEW p \in Peers, NEW kind \in {"Add", "Remove"}, NEW m \in Peers,
         NEW s \in Seq(Nat), NEW o \in Nat, TakesEffect(p, kind, m, s, o), Total(log)
  PROVE  /\ Causal(forge', Append(s, o)) /\ Append(s, o) # <<>> /\ Append(s, o) \in Seq(Nat)
         /\ Total(log') /\ log'[p] = Append(s, o)
         /\ \A q \in Peers : q # p => log'[q] = log[q]
         /\ \A t \in tickets' :
              \/ t \in tickets
              \/ /\ t \in [invitee : Peers, auth_log : Seq(Nat)]
                 /\ t.auth_log # <<>> /\ Causal(forge', t.auth_log)
<1> DEFINE l == Append(s, o)
<1>0. Causal(forge', l)
  BY Zenon DEF TakesEffect
<1>1. l \in Seq(Nat) /\ l # <<>> /\ Causal(forge', l)
  <2>1. l \in Seq(Nat) /\ Len(l) = Len(s) + 1 /\ Len(s) \in Nat
    OBVIOUS
  <2>2. l # <<>>
    <3> HIDE DEF l
    <3> QED BY <2>1
  <2> QED BY <1>0, <2>1, <2>2, Zenon
<1>2. log' = [log EXCEPT ![p] = l] /\ tickets' \subseteq tickets \cup {[invitee |-> m, auth_log |-> l]}
  BY Zenon DEF TakesEffect, Saved
<1> HIDE DEF l
<1>3. Total(log') /\ log'[p] = l /\ \A q \in Peers : q # p => log'[q] = log[q]
  BY <1>2 DEF Total
<1>4. \A t \in tickets' :
        \/ t \in tickets
        \/ /\ t \in [invitee : Peers, auth_log : Seq(Nat)]
           /\ t.auth_log # <<>> /\ Causal(forge', t.auth_log)
  <2> SUFFICES ASSUME NEW t \in tickets', t \notin tickets
               PROVE  /\ t \in [invitee : Peers, auth_log : Seq(Nat)]
                      /\ t.auth_log # <<>> /\ Causal(forge', t.auth_log)
    BY Zenon
  <2>1. t = [invitee |-> m, auth_log |-> l]
    BY <1>2
  <2>2. t.auth_log = l /\ t \in [invitee : Peers, auth_log : Seq(Nat)]
    BY <1>1, <2>1
  <2> QED BY <1>1, <2>2, Zenon
<1> QED BY <1>1, <1>3, <1>4, Zenon DEF l

LEMMA AuthInit == Init => AuthInv
<1> SUFFICES ASSUME Init PROVE AuthInv
  OBVIOUS
<1> DEFINE create == [author |-> Creator, deps |-> {}, kind |-> "Create", member |-> Creator]
           one == <<1>>
<1>1. MaxOps \in Nat /\ MaxOps >= 1 /\ MaxCrashes \in Nat /\ Creator \in Peers
  BY AuthLogAssumption
<1>2. forge = <<create>> /\ create \in Content
  BY <1>1 DEF Init, Content
<1>3. Forged(forge) /\ Len(forge) = 1
  <2> HIDE DEF create
  <2>1. forge \in Seq(Content) /\ Len(forge) = 1 /\ forge[1] = create
    BY <1>2
  <2> QED BY <2>1 DEF Forged, create
<1>4. one \in Seq(Nat) /\ Len(one) = 1 /\ one[1] = 1 /\ one # <<>>
  OBVIOUS
<1>5. Set(one) = {1}
  BY <1>4 DEF Set
<1>6. Causal(forge, one)
  <2> HIDE DEF one
  <2> QED BY <1>3, <1>4, <1>5 DEF Causal, Distinct
<1>7. Causal(forge, <<>>)
  BY SetOfNone DEF Causal, Distinct
<1>8. [crdt |-> {1}, ops |-> <<1>>, pending |-> <<>>] = Healthy(one)
  BY <1>5 DEF Healthy
<1>9. Sound(forge, FALSE, Empty, <<>>)
  <2>1. Empty.ops = <<>> /\ Empty \in AnyState
    BY DEF Empty, AnyState
  <2> QED BY <1>7, <2>1, SetOfNone, Zenon DEF Sound
<1>10. Sound(forge, TRUE, Healthy(one), one)
  <2> HIDE DEF one
  <2> QED BY <1>3, <1>4, <1>6, HealthyIsSound
<1>11. ASSUME NEW p \in Peers PROVE Sound(forge, up[p], state[p], log[p])
  <2>1. CASE p = Creator
    <3>1. up[p] = TRUE /\ state[p] = Healthy(one) /\ log[p] = one
      BY <1>8, <2>1 DEF Init
    <3> QED BY <1>10, <3>1, Zenon
  <2>2. CASE p # Creator
    <3>1. up[p] = FALSE /\ state[p] = Empty /\ log[p] = <<>>
      BY <2>2 DEF Init
    <3> QED BY <1>9, <3>1, Zenon
  <2> QED BY <2>1, <2>2
<1>12. /\ up \in [Peers -> BOOLEAN] /\ Total(state) /\ Total(log)
       /\ crashes \in 0..MaxCrashes /\ snapshots = {} /\ tickets = {}
  BY <1>1 DEF Init, Total
<1> QED BY <1>1, <1>3, <1>11, <1>12, SoundInv

LEMMA CommandSound ==
  ASSUME AuthInv, NEW p \in Peers, NEW kind \in {"Add", "Remove"}, NEW m \in Peers,
         Command(p, kind, m)
  PROVE  AuthInv'
<1>1. /\ Total(state) /\ Total(log) /\ up \in [Peers -> BOOLEAN]
      /\ crashes \in 0..MaxCrashes
  BY SoundNow
<1>2. CASE state[p] = Healthy(state[p].ops)
  <2>1. PICK s \in Seq(Nat), o \in Nat :
           /\ s = state[p].ops /\ s # <<>> /\ up[p] /\ p \in Askers /\ Signs(p, s, o)
           /\ UNCHANGED <<up, snapshots, crashes>>
           /\ \/ /\ TakesEffect(p, kind, m, s, o)
                 /\ state' = [state EXCEPT ![p] = Healthy(Append(s, o))]
              \/ /\ ~Valid(forge', o) /\ UNCHANGED <<log, tickets>>
                 /\ state' = [state EXCEPT ![p] = [crdt |-> {}, ops |-> s, pending |-> <<>>]]
    BY <1>2, CommandEffect
  <2>2. Grows(forge, forge') /\ Forged(forge') /\ Len(forge') <= MaxOps /\ up'[p] = TRUE
    BY <1>1, <2>1 DEF Signs, Grows
  <2>3. /\ Total(state') /\ \A q \in Peers : q # p => state'[q] = state[q]
        /\ up' \in [Peers -> BOOLEAN] /\ crashes' \in 0..MaxCrashes /\ up' = up
        /\ snapshots' = snapshots
    BY <1>1, <2>1 DEF Total
  <2>4. CASE TakesEffect(p, kind, m, s, o) /\ state' = [state EXCEPT ![p] = Healthy(Append(s, o))]
    <3>1. /\ Causal(forge', Append(s, o)) /\ Append(s, o) # <<>>
          /\ Total(log') /\ log'[p] = Append(s, o)
          /\ \A q \in Peers : q # p => log'[q] = log[q]
          /\ \A t \in tickets' :
               \/ t \in tickets
               \/ /\ t \in [invitee : Peers, auth_log : Seq(Nat)]
                  /\ t.auth_log # <<>> /\ Causal(forge', t.auth_log)
      BY <1>1, <2>4, SavedSound
    <3>2. Sound(forge', TRUE, Healthy(Append(s, o)), Append(s, o))
      BY <2>2, <3>1, HealthyIsSound
    <3>3. state'[p] = Healthy(Append(s, o))
      BY <1>1, <2>4 DEF Total
    <3>4. Sound(forge', up'[p], state'[p], log'[p])
      BY <2>2, <3>1, <3>2, <3>3, Zenon
    <3> QED BY <2>2, <2>3, <3>1, <3>4, SoundStep, Zenon
  <2>5. CASE /\ UNCHANGED <<log, tickets>>
             /\ state' = [state EXCEPT ![p] = [crdt |-> {}, ops |-> s, pending |-> <<>>]]
    <3> DEFINE u == [crdt |-> {}, ops |-> s, pending |-> <<>>]
    <3>1. u \in AnyState /\ u.ops = s /\ u.crdt = {} /\ u.pending = <<>>
      BY DEF AnyState
    <3> HIDE DEF u
    <3>2. Emptied(forge', u)
      BY <2>1, <3>1, SetOfNone DEF Emptied, Distinct
    <3>3. PICK l : l = log[p]
      OBVIOUS
    <3>4. Causal(forge, s) /\ Causal(forge, l) /\ l # <<>>
      BY <2>1, <3>3, Facts
    <3>5. Causal(forge', u.ops) /\ Causal(forge', l)
      BY <2>2, <3>1, <3>4, CausalGrows
    <3>6. Sound(forge', TRUE, u, l)
      BY <3>1, <3>2, <3>4, <3>5, EmptiedIsSound
    <3>7. state'[p] = u
      BY <1>1, <2>5 DEF u, Total
    <3>8. log' = log /\ tickets' = tickets
      BY <2>5
    <3>9. Sound(forge', up'[p], state'[p], log'[p])
      BY <2>2, <3>3, <3>6, <3>7, <3>8, Zenon
    <3> QED BY <1>1, <2>2, <2>3, <3>8, <3>9, SoundStep, Zenon
  <2> QED BY <2>1, <2>4, <2>5, Zenon
<1>3. CASE Emptied(forge, state[p])
  <2>1. PICK o \in Nat :
           /\ Grows(forge, forge') /\ Len(forge') <= MaxOps /\ ~Valid(forge', o)
           /\ \A i \in 1..Len(forge') : i \in 1..Len(forge) \/ i = o
           /\ up[p] /\ state'[p] = state[p] /\ state' = [state EXCEPT ![p] = state[p]]
           /\ UNCHANGED <<up, log, tickets, snapshots, crashes>>
    BY <1>3, CommandEmptied
  <2>2. Total(state') /\ \A q \in Peers : q # p => state'[q] = state[q]
    BY <1>1, <2>1 DEF Total
  <2>3. up' = up /\ log' = log /\ tickets' = tickets /\ snapshots' = snapshots /\ crashes' = crashes
    BY <2>1
  <2>4. PICK b, st, l : b = up[p] /\ st = state[p] /\ l = log[p]
    OBVIOUS
  <2>5. Sound(forge, b, st, l)
    BY <2>4, SoundNow
  <2>6. Sound(forge', b, st, l)
    BY <2>1, <2>5, SoundGrows
  <2>7. Sound(forge', up'[p], state'[p], log'[p])
    BY <2>1, <2>3, <2>4, <2>6, Zenon
  <2> QED BY <1>1, <2>1, <2>2, <2>3, <2>7, SoundStep, Zenon
<1> QED BY <1>2, <1>3, Facts

LEMMA DirectSound ==
  ASSUME AuthInv, NEW p \in Peers, NEW kind \in {"Add", "Remove"}, NEW m \in Peers,
         DirectCommand(p, kind, m)
  PROVE  AuthInv'
<1>1. /\ Total(state) /\ Total(log) /\ up \in [Peers -> BOOLEAN]
      /\ crashes \in 0..MaxCrashes
  BY SoundNow
<1>2. PICK s \in Seq(Nat), o \in Nat :
           /\ s = log[p] /\ s # <<>> /\ up[p] \in DirectWhen /\ p \in Askers /\ Signs(p, s, o)
           /\ UNCHANGED <<up, state, snapshots, crashes>>
           /\ \/ TakesEffect(p, kind, m, s, o)
              \/ ~Valid(forge', o) /\ UNCHANGED <<log, tickets>>
  BY DirectEffect
<1>3. Grows(forge, forge') /\ Forged(forge') /\ Len(forge') <= MaxOps
  BY <1>2 DEF Signs, Grows
<1>4. /\ up' = up /\ state' = state /\ snapshots' = snapshots /\ crashes' = crashes
  BY <1>2
<1>5. PICK b, st, l : b = up[p] /\ st = state[p] /\ l = log[p]
  OBVIOUS
<1>6. Sound(forge', b, st, l)
  <2>1. Sound(forge, b, st, l)
    BY <1>5, SoundNow
  <2> QED BY <1>3, <2>1, SoundGrows
<1>7. CASE TakesEffect(p, kind, m, s, o)
  <2>1. /\ Causal(forge', Append(s, o)) /\ Append(s, o) # <<>>
        /\ Total(log') /\ log'[p] = Append(s, o)
        /\ \A q \in Peers : q # p => log'[q] = log[q]
        /\ \A t \in tickets' :
             \/ t \in tickets
             \/ /\ t \in [invitee : Peers, auth_log : Seq(Nat)]
                /\ t.auth_log # <<>> /\ Causal(forge', t.auth_log)
    BY <1>1, <1>7, SavedSound
  <2>2. Sound(forge', b, st, Append(s, o))
    BY <1>6, <2>1, Zenon DEF Sound
  <2>3. Sound(forge', up'[p], state'[p], log'[p])
    BY <1>4, <1>5, <2>1, <2>2, Zenon
  <2> QED BY <1>1, <1>3, <1>4, <2>1, <2>3, SoundStep, Zenon
<1>8. CASE UNCHANGED <<log, tickets>>
  <2>1. log' = log /\ tickets' = tickets
    BY <1>8
  <2>2. Sound(forge', up'[p], state'[p], log'[p])
    BY <1>4, <1>5, <1>6, <2>1, Zenon
  <2> QED BY <1>1, <1>3, <1>4, <2>1, <2>2, SoundStep, Zenon
<1> QED BY <1>2, <1>7, <1>8

LEMMA JoinSound ==
  ASSUME AuthInv, NEW p \in Peers, Join(p)
  PROVE  AuthInv'
<1>1. /\ Total(state) /\ Total(log) /\ up \in [Peers -> BOOLEAN]
      /\ crashes \in 0..MaxCrashes /\ Grows(forge, forge) /\ Len(forge) <= MaxOps
  BY SoundNow
<1>2. PICK t \in tickets, s \in Seq(Nat) :
           /\ t.auth_log = s /\ s # <<>> /\ Causal(forge, s) /\ log[p] = <<>>
           /\ p \in MembersOf(forge, Set(s))
           /\ log' = [log EXCEPT ![p] = s]
           /\ state' = [state EXCEPT ![p] = Healthy(s)]
           /\ up' = [up EXCEPT ![p] = TRUE]
           /\ UNCHANGED <<forge, snapshots, tickets, crashes>>
  BY JoinEffect
<1>3. /\ Total(state') /\ Total(log') /\ up' \in [Peers -> BOOLEAN]
      /\ up'[p] = TRUE /\ state'[p] = Healthy(s) /\ log'[p] = s
      /\ \A q \in Peers : q # p => up'[q] = up[q] /\ state'[q] = state[q] /\ log'[q] = log[q]
  BY <1>1, <1>2 DEF Total
<1>4. forge' = forge /\ snapshots' = snapshots /\ tickets' = tickets /\ crashes' = crashes
  BY <1>2
<1>5. Forged(forge)
  BY <1>1 DEF Grows
<1>6. Sound(forge, TRUE, Healthy(s), s)
  BY <1>2, <1>5, HealthyIsSound
<1>7. Sound(forge', up'[p], state'[p], log'[p])
  BY <1>3, <1>4, <1>6, Zenon
<1> QED BY <1>1, <1>3, <1>4, <1>7, SoundStep, Zenon

LEMMA ApplySound ==
  ASSUME AuthInv, NEW p \in Peers, NEW ops \in snapshots, ApplyAuthOps(p, ops)
  PROVE  AuthInv'
<1>1. /\ Total(state) /\ Total(log) /\ up \in [Peers -> BOOLEAN]
      /\ crashes \in 0..MaxCrashes /\ Grows(forge, forge) /\ Len(forge) <= MaxOps
  BY SoundNow
<1>2. PICK u \in AnyState, l \in Seq(Nat) :
           /\ up[p] /\ UNCHANGED <<forge, up, snapshots, tickets, crashes>>
           /\ state' = [state EXCEPT ![p] = u] /\ log' = [log EXCEPT ![p] = l]
           /\ Causal(forge, u.ops) /\ u.ops # <<>>
           /\ \/ /\ state[p] = Healthy(state[p].ops) /\ u = Healthy(u.ops)
                 /\ Set(u.ops) = Set(state[p].ops) \cup Set(ops)
                 /\ l = u.ops \/ (l = log[p] /\ u.ops = state[p].ops)
              \/ /\ Emptied(forge, state[p]) /\ Emptied(forge, u)
                 /\ u.ops = state[p].ops /\ l = log[p]
  BY ApplyEffect
<1>3. /\ Total(state') /\ Total(log') /\ state'[p] = u /\ log'[p] = l
      /\ \A q \in Peers : q # p => state'[q] = state[q] /\ log'[q] = log[q]
  BY <1>1, <1>2 DEF Total
<1>4. /\ forge' = forge /\ snapshots' = snapshots /\ tickets' = tickets /\ crashes' = crashes
      /\ up' = up /\ up[p] = TRUE
  BY <1>1, <1>2
<1>5. Causal(forge, log[p]) /\ log[p] # <<>>
  BY <1>2, Facts
<1>6. Sound(forge, TRUE, u, l)
  BY <1>2, <1>5, Zenon DEF Sound
<1>7. Sound(forge', up'[p], state'[p], log'[p])
  BY <1>3, <1>4, <1>6, Zenon
<1> QED BY <1>1, <1>3, <1>4, <1>7, SoundStep, Zenon

LEMMA TaskSound ==
  ASSUME AuthInv, NEW p \in Peers, Publish(p) \/ Crash(p) \/ Start(p)
  PROVE  AuthInv'
<1>1. /\ Total(state) /\ Total(log) /\ up \in [Peers -> BOOLEAN]
      /\ crashes \in 0..MaxCrashes /\ Grows(forge, forge) /\ Len(forge) <= MaxOps
      /\ Sound(forge, up[p], state[p], log[p])
  BY SoundNow
<1>2. Forged(forge)
  BY <1>1 DEF Grows
<1>3. CASE Publish(p)
  <2>1. /\ forge' = forge /\ up' = up /\ state' = state /\ log' = log /\ tickets' = tickets
        /\ crashes' = crashes /\ up[p] /\ snapshots' = snapshots \cup {state[p].ops}
    BY <1>3 DEF Publish
  <2>2. state[p].ops # <<>> /\ Causal(forge, state[p].ops)
    BY <2>1, Facts
  <2>3. \A s \in snapshots' : s \in snapshots \/ (s # <<>> /\ Causal(forge', s))
    BY <2>1, <2>2
  <2>4. Sound(forge', up'[p], state'[p], log'[p])
    BY <1>1, <2>1, Zenon
  <2> QED BY <1>1, <2>1, <2>3, <2>4, SoundStep, Zenon
<1>4. CASE Crash(p)
  <2>1. /\ forge' = forge /\ snapshots' = snapshots /\ log' = log /\ tickets' = tickets
        /\ up' = [up EXCEPT ![p] = FALSE] /\ state' = [state EXCEPT ![p] = Empty]
        /\ crashes < MaxCrashes /\ crashes' = crashes + 1
    BY <1>4 DEF Crash
  <2>2. crashes' \in 0..MaxCrashes
    BY <1>1, <2>1, AuthLogAssumption
  <2>3. /\ Total(state') /\ up' \in [Peers -> BOOLEAN] /\ up'[p] = FALSE /\ state'[p] = Empty
        /\ \A q \in Peers : q # p => up'[q] = up[q] /\ state'[q] = state[q]
    BY <1>1, <2>1 DEF Total
  <2>4. Empty.ops = <<>> /\ Empty \in AnyState
    BY DEF Empty, AnyState
  <2>5. Causal(forge, <<>>)
    BY SetOfNone DEF Causal, Distinct
  <2>6. Sound(forge', up'[p], state'[p], log'[p])
    <3>1. Causal(forge, log[p])
      BY <1>1 DEF Sound
    <3> QED BY <2>1, <2>3, <2>4, <2>5, <3>1, SetOfNone, Zenon DEF Sound
  <2> QED BY <1>1, <2>1, <2>2, <2>3, <2>6, SoundStep, Zenon
<1>5. CASE Start(p)
  <2>1. /\ log[p] # <<>> /\ state' = [state EXCEPT ![p] = Healthy(log[p])]
        /\ up' = [up EXCEPT ![p] = TRUE]
        /\ UNCHANGED <<forge, log, snapshots, tickets, crashes>>
    BY <1>5, StartEffect
  <2>2. forge' = forge /\ snapshots' = snapshots /\ log' = log /\ tickets' = tickets /\ crashes' = crashes
    BY <2>1
  <2>3. /\ Total(state') /\ up' \in [Peers -> BOOLEAN] /\ up'[p] = TRUE
        /\ state'[p] = Healthy(log[p])
        /\ \A q \in Peers : q # p => up'[q] = up[q] /\ state'[q] = state[q]
    BY <1>1, <2>1 DEF Total
  <2>4. PICK l : l = log[p]
    OBVIOUS
  <2>5. Causal(forge, l) /\ l # <<>>
    BY <1>1, <2>1, <2>4 DEF Sound
  <2>6. Sound(forge, TRUE, Healthy(l), l)
    BY <1>2, <2>5, HealthyIsSound
  <2>7. Sound(forge', up'[p], state'[p], log'[p])
    BY <2>2, <2>3, <2>4, <2>6, Zenon
  <2> QED BY <1>1, <2>2, <2>3, <2>7, SoundStep, Zenon
<1> QED BY <1>3, <1>4, <1>5

LEMMA AuthStep == AuthInv /\ [Next]_vars => AuthInv'
<1> SUFFICES ASSUME AuthInv, [Next]_vars PROVE AuthInv'
  OBVIOUS
<1>1. CASE UNCHANGED vars
  BY <1>1 DEF AuthInv, LogInv, StateInv, vars
<1>2. ASSUME NEW p \in Peers, NEW kind \in {"Add", "Remove"}, NEW m \in Peers, Command(p, kind, m)
      PROVE  AuthInv'
  BY <1>2, CommandSound
<1>3. ASSUME NEW p \in Peers, NEW kind \in {"Add", "Remove"}, NEW m \in Peers, DirectCommand(p, kind, m)
      PROVE  AuthInv'
  BY <1>3, DirectSound
<1>4. ASSUME NEW p \in Peers, Join(p) PROVE AuthInv'
  BY <1>4, JoinSound
<1>5. ASSUME NEW p \in Peers, NEW ops \in snapshots, ApplyAuthOps(p, ops) PROVE AuthInv'
  BY <1>5, ApplySound
<1>6. ASSUME NEW p \in Peers, Publish(p) \/ Crash(p) \/ Start(p) PROVE AuthInv'
  BY <1>6, TaskSound
<1> QED BY <1>1, <1>2, <1>3, <1>4, <1>5, <1>6, Zenon DEF Next

LEMMA LogFits ==
  ASSUME NEW f, Len(f) \in Nat, Len(f) <= MaxOps, NEW s \in Seq(Nat),
         Set(s) \subseteq 1..Len(f), Distinct(s)
  PROVE  s \in Log /\ Set(s) \subseteq OpIds
<1>1. MaxOps \in Nat
  BY AuthLogAssumption
<1>2. Set(s) \subseteq OpIds
  BY <1>1 DEF OpIds
<1>3. Len(s) \in Nat /\ s \in [1..Len(s) -> 1..MaxOps]
  BY <1>1, <1>2 DEF OpIds, Set
<1>4. Len(s) \in 0..MaxOps
  BY <1>1, <1>3, DistinctFits DEF Distinct
<1> QED BY <1>2, <1>3, <1>4 DEF Log, OpIds

LEMMA SoundTypes ==
  ASSUME NEW f, Forged(f), Len(f) <= MaxOps, NEW b, NEW st, NEW l, Sound(f, b, st, l)
  PROVE  st \in AuthState /\ l \in Log
<1>1. Len(f) \in Nat
  BY DEF Forged
<1>2. \A s : Causal(f, s) => s \in Log /\ Set(s) \subseteq OpIds
  BY <1>1, LogFits DEF Causal
<1>3. l \in Log /\ st.ops \in Log /\ Set(st.ops) \subseteq OpIds
  BY <1>2 DEF Sound
<1>4. st \in AnyState /\ (st = Healthy(st.ops) \/ Emptied(f, st))
  BY Zenon DEF Sound
<1>5. <<>> \in Log
  <2>1. Set(<<>>) \subseteq 1..Len(f) /\ Distinct(<<>>) /\ <<>> \in Seq(Nat)
    BY SetOfNone DEF Distinct
  <2> QED BY <1>1, <2>1, LogFits
<1>6. st.crdt \subseteq OpIds /\ st.pending \in Log
  <2>1. CASE st = Healthy(st.ops)
    <3>1. st.crdt = Set(st.ops) /\ st.pending = <<>>
      BY <2>1 DEF Healthy
    <3> QED BY <1>3, <1>5, <3>1
  <2>2. CASE Emptied(f, st)
    BY <1>1, <2>2, LogFits DEF Emptied
  <2> QED BY <1>4, <2>1, <2>2
<1> QED BY <1>3, <1>4, <1>6 DEF AuthState, AnyState

LEMMA AuthInvTypes == AuthInv => TypeOK
<1> SUFFICES ASSUME AuthInv PROVE TypeOK
  OBVIOUS
<1>1. /\ up \in [Peers -> BOOLEAN] /\ crashes \in 0..MaxCrashes
      /\ tickets \subseteq [invitee : Peers, auth_log : Seq(Nat)]
      /\ Forged(forge) /\ Len(forge) <= MaxOps
      /\ \A p \in Peers : Sound(forge, up[p], state[p], log[p])
      /\ \A s \in snapshots : Causal(forge, s)
      /\ \A t \in tickets : Causal(forge, t.auth_log)
  BY SoundInv, Zenon
<1>2. Len(forge) \in Nat /\ \A i \in 1..Len(forge) : forge[i] \in Content
  BY <1>1 DEF Forged
<1>3. \A p \in Peers : state[p] \in AuthState /\ log[p] \in Log
  BY <1>1, SoundTypes
<1>4. \A s : Causal(forge, s) => s \in Log
  BY <1>1, <1>2, LogFits DEF Causal
<1>5. tickets \subseteq [invitee : Peers, auth_log : Log]
  BY <1>1, <1>4
<1>6. state \in [Peers -> AuthState] /\ log \in [Peers -> Log]
  BY <1>3 DEF AuthInv, Total
<1> QED BY <1>1, <1>2, <1>4, <1>5, <1>6 DEF TypeOK

LEMMA AuthInvLoads == AuthInv => LogsLoad
<1> SUFFICES ASSUME AuthInv, NEW p \in Peers
             PROVE  Loads(forge, log[p]) /\ Replay(forge, log[p]).st.ops = log[p]
  BY DEF LogsLoad
<1>1. PICK l : l = log[p]
  OBVIOUS
<1>2. Replay(forge, l).ok /\ Replay(forge, l).st = Healthy(l)
  BY <1>1, Facts, ReplayCausal
<1>3. Healthy(l).ops = l /\ Healthy(l).pending = <<>>
  BY DEF Healthy
<1> QED BY <1>1, <1>2, <1>3, Zenon DEF Loads

LEMMA AuthInvHolds == Spec => []AuthInv
BY AuthInit, AuthStep, PTL DEF Spec

(* Every peer's AuthState, its auth.log and everything it hands to others  *)
(* are logs of operations that exist, none of them twice.                  *)
THEOREM AuthTypeOK == Spec => []TypeOK
BY AuthInvHolds, AuthInvTypes, PTL

(* However commands, direct commands, joins, broadcasts and stops          *)
(* interleave, and whoever gives the commands, `load` never finds an       *)
(* auth.log corrupt.                                                       *)
THEOREM LogsAlwaysLoad == Spec => []LogsLoad
BY AuthInvHolds, AuthInvLoads, PTL
-----------------------------------------------------------------------------
(***************************************************************************)
(* Only owners ask, and not beside a running daemon: what they sign has    *)
(* its effect, so that no AuthState is emptied.                            *)
(***************************************************************************)
OwnersAsk == Askers \subseteq Managers /\ TRUE \notin DirectWhen

\* An operation of the log makes p a member.
Made(f, p, l) == \E i \in Set(l) : f[i].kind # "Remove" /\ f[i].member = p

LEMMA MadeGrows ==
  ASSUME NEW f, NEW g, Grows(f, g), NEW p, NEW l, NEW t, Causal(f, l),
         Set(l) \subseteq Set(t), Made(f, p, l)
  PROVE  Made(g, p, t)
<1>1. \A i \in Set(l) : g[i] = f[i]
  BY DEF Causal, Grows
<1> QED BY <1>1 DEF Made

LEMMA OwnerSigns ==
  ASSUME NEW s, s # <<>>, NEW p \in Peers, NEW o, Causal(forge, s), Signs(p, s, o),
         p \in Managers, Made(forge, p, s)
  PROVE  Valid(forge', o)
<1>1. PICK g : g = forge'
  OBVIOUS
<1>2. /\ Grows(forge, g) /\ g[o].author = p /\ g[o].kind # "Create"
      /\ g[o].deps = Heads(g, Set(s))
  BY <1>1 DEF Signs
<1>3. Forged(g) /\ Causal(g, s)
  BY <1>2, CausalGrows DEF Grows
<1>4. Closed(g, Set(s)) /\ Set(s) \in SUBSET (1..Len(g))
  BY <1>3, CausalClosed
<1>5. Past(g, g[o].deps) = Set(s)
  BY <1>2, <1>3, <1>4, PastOfHeads
<1>6. g[o].deps # {}
  <2>1. {} \in SUBSET (1..Len(g)) /\ Closed(g, {})
    BY DEF Closed
  <2>2. Past(g, {}) = {}
    BY <1>3, <2>1, PastFacts
  <2>3. 1 \in Set(s)
    BY <1>3, CreationFirst
  <2> QED BY <1>5, <2>2, <2>3
<1>7. Made(g, p, s)
  BY <1>2, MadeGrows
<1>8. \A r \in Set(s) : ~(g[r].kind = "Remove" /\ g[r].member = p)
  <2> SUFFICES ASSUME NEW r \in Set(s), g[r].kind = "Remove" PROVE g[r].member # p
    OBVIOUS
  <2>1. r \in 1..Len(g) /\ r # 1
    BY <1>3, <1>4 DEF Forged
  <2>2. r \in 2..Len(g)
    BY <1>3, <2>1 DEF Forged
  <2> QED BY <1>3, <2>2 DEF Forged
<1>9. p \in MembersOf(g, Set(s))
  BY <1>7, <1>8 DEF MembersOf, Made
<1> QED BY <1>1, <1>2, <1>5, <1>6, <1>9 DEF Valid, ManagersOf, Managers

LEMMA MemberStep ==
  ASSUME AuthInv, MemberInv, Grows(forge, forge'), NEW p \in Peers,
         \A q \in Peers : q # p => up'[q] = up[q] /\ state'[q] = state[q] /\ log'[q] = log[q],
         log'[p] # <<>> => Made(forge', p, log'[p]),
         up'[p] => state'[p] = Healthy(log'[p])
  PROVE  MemberInv'
<1> SUFFICES ASSUME NEW q \in Peers
             PROVE  /\ log'[q] # <<>> => Made(forge', q, log'[q])
                    /\ up'[q] => state'[q] = Healthy(log'[q])
  BY Zenon DEF MemberInv, Joined, Made
<1>1. CASE q = p
  BY <1>1, Zenon
<1>2. CASE q # p
  <2>1. PICK l : l = log[q]
    OBVIOUS
  <2>2. Causal(forge, l)
    BY <2>1, Facts
  <2>3. l # <<>> => Made(forge, q, l)
    BY <2>1, Zenon DEF MemberInv, Joined, Made
  <2>4. l # <<>> => Made(forge', q, l)
    BY <2>2, <2>3, MadeGrows
  <2>5. up[q] => state[q] = Healthy(log[q])
    BY Zenon DEF MemberInv
  <2> QED BY <1>2, <2>1, <2>4, <2>5, Zenon
<1> QED BY <1>1, <1>2

LEMMA MemberInit == Init => MemberInv
<1> SUFFICES ASSUME Init, NEW p \in Peers PROVE Joined(p) /\ (up[p] => state[p] = Healthy(log[p]))
  BY Zenon DEF MemberInv
<1>1. CASE p = Creator
  <2>1. /\ log[p] = <<1>> /\ state[p] = [crdt |-> {1}, ops |-> <<1>>, pending |-> <<>>]
        /\ forge[1].kind = "Create" /\ forge[1].member = p
    BY <1>1 DEF Init
  <2>2. Set(<<1>>) = {1}
    BY DEF Set
  <2> QED BY <2>1, <2>2 DEF Joined, Healthy
<1>2. CASE p # Creator
  <2>1. log[p] = <<>> /\ up[p] = FALSE
    BY <1>2 DEF Init
  <2> QED BY <2>1 DEF Joined
<1> QED BY <1>1, <1>2

LEMMA MemberNext ==
  ASSUME OwnersAsk, AuthInv, MemberInv, [Next]_vars
  PROVE  MemberInv'
<1>1. CASE UNCHANGED vars
  BY <1>1 DEF MemberInv, Joined, vars
<1>2. Forged(forge) /\ Total(state) /\ Total(log) /\ up \in [Peers -> BOOLEAN] /\ Grows(forge, forge)
  BY AuthLogAssumption, SoundNow DEF Grows
<1>3. ASSUME NEW p \in Peers, NEW kind \in {"Add", "Remove"}, NEW m \in Peers, Command(p, kind, m)
      PROVE  MemberInv'
  <2>1. up[p]
    BY <1>3 DEF Command
  <2>2. state[p] = Healthy(log[p])
    BY <2>1 DEF MemberInv
  <2>3. state[p].ops = log[p] /\ state[p] = Healthy(state[p].ops)
    BY <2>2 DEF Healthy
  <2>4. PICK s \in Seq(Nat), o \in Nat :
           /\ s = state[p].ops /\ s # <<>> /\ up[p] /\ p \in Askers /\ Signs(p, s, o)
           /\ UNCHANGED <<up, snapshots, crashes>>
           /\ \/ /\ TakesEffect(p, kind, m, s, o)
                 /\ state' = [state EXCEPT ![p] = Healthy(Append(s, o))]
              \/ /\ ~Valid(forge', o) /\ UNCHANGED <<log, tickets>>
                 /\ state' = [state EXCEPT ![p] = [crdt |-> {}, ops |-> s, pending |-> <<>>]]
    BY <1>3, <2>3, CommandEffect
  <2>5. Causal(forge, s) /\ Made(forge, p, s) /\ p \in Managers
    <3>1. Joined(p)
      BY DEF MemberInv
    <3> QED BY <2>3, <2>4, <3>1, Facts DEF OwnersAsk, Joined, Made
  <2>6. Valid(forge', o)
    BY <2>4, <2>5, OwnerSigns
  <2>7. TakesEffect(p, kind, m, s, o) /\ state' = [state EXCEPT ![p] = Healthy(Append(s, o))]
    BY <2>4, <2>6, Zenon
  <2>8. log'[p] = Append(s, o) /\ \A q \in Peers : q # p => log'[q] = log[q]
    BY <1>2, <2>7, SavedSound
  <2>9. state'[p] = Healthy(Append(s, o)) /\ \A q \in Peers : q # p => state'[q] = state[q]
    BY <1>2, <2>7 DEF Total
  <2>10. Set(s) \subseteq Set(Append(s, o)) /\ Grows(forge, forge')
    BY <2>4, SetOfAppend DEF Signs
  <2>11. Made(forge', p, Append(s, o))
    BY <2>5, <2>10, MadeGrows
  <2> QED BY <2>4, <2>8, <2>9, <2>10, <2>11, MemberStep, Zenon
<1>4. ASSUME NEW p \in Peers, NEW kind \in {"Add", "Remove"}, NEW m \in Peers, DirectCommand(p, kind, m)
      PROVE  MemberInv'
  <2>1. PICK s \in Seq(Nat), o \in Nat :
           /\ s = log[p] /\ s # <<>> /\ up[p] \in DirectWhen /\ p \in Askers /\ Signs(p, s, o)
           /\ UNCHANGED <<up, state, snapshots, crashes>>
           /\ \/ TakesEffect(p, kind, m, s, o)
              \/ ~Valid(forge', o) /\ UNCHANGED <<log, tickets>>
    BY <1>4, DirectEffect
  <2>2. up[p] = FALSE
    BY <1>2, <2>1 DEF OwnersAsk
  <2>3. Causal(forge, s) /\ Made(forge, p, s)
    BY <2>1, Facts DEF MemberInv, Joined, Made
  <2>4. p \in Managers
    BY <2>1 DEF OwnersAsk
  <2>5. Valid(forge', o)
    BY <2>1, <2>3, <2>4, OwnerSigns
  <2>6. TakesEffect(p, kind, m, s, o)
    BY <2>1, <2>5, Zenon
  <2>7. log'[p] = Append(s, o) /\ \A q \in Peers : q # p => log'[q] = log[q]
    BY <1>2, <2>6, SavedSound
  <2>8. Set(s) \subseteq Set(Append(s, o)) /\ Grows(forge, forge')
    BY <2>1, SetOfAppend DEF Signs
  <2>9. Made(forge', p, Append(s, o))
    BY <2>3, <2>8, MadeGrows
  <2>10. up' = up /\ state' = state
    BY <2>1
  <2> QED BY <2>2, <2>7, <2>8, <2>9, <2>10, MemberStep, Zenon
<1>5. ASSUME NEW p \in Peers, Join(p) PROVE MemberInv'
  <2>1. PICK t \in tickets, s \in Seq(Nat) :
           /\ t.auth_log = s /\ s # <<>> /\ Causal(forge, s) /\ log[p] = <<>>
           /\ p \in MembersOf(forge, Set(s))
           /\ log' = [log EXCEPT ![p] = s]
           /\ state' = [state EXCEPT ![p] = Healthy(s)]
           /\ up' = [up EXCEPT ![p] = TRUE]
           /\ UNCHANGED <<forge, snapshots, tickets, crashes>>
    BY <1>5, JoinEffect
  <2>2. Made(forge, p, s) /\ forge' = forge
    BY <2>1 DEF MembersOf, Made
  <2>3. /\ log'[p] = s /\ state'[p] = Healthy(s)
        /\ \A q \in Peers : q # p => up'[q] = up[q] /\ state'[q] = state[q] /\ log'[q] = log[q]
    BY <1>2, <2>1 DEF Total
  <2> QED BY <1>2, <2>2, <2>3, MemberStep, Zenon
<1>6. ASSUME NEW p \in Peers, NEW ops \in snapshots, ApplyAuthOps(p, ops) PROVE MemberInv'
  <2>1. PICK u \in AnyState, l \in Seq(Nat) :
           /\ up[p] /\ UNCHANGED <<forge, up, snapshots, tickets, crashes>>
           /\ state' = [state EXCEPT ![p] = u] /\ log' = [log EXCEPT ![p] = l]
           /\ Causal(forge, u.ops) /\ u.ops # <<>>
           /\ \/ /\ state[p] = Healthy(state[p].ops) /\ u = Healthy(u.ops)
                 /\ Set(u.ops) = Set(state[p].ops) \cup Set(ops)
                 /\ l = u.ops \/ (l = log[p] /\ u.ops = state[p].ops)
              \/ /\ Emptied(forge, state[p]) /\ Emptied(forge, u)
                 /\ u.ops = state[p].ops /\ l = log[p]
    BY <1>6, ApplyEffect
  <2>2. state[p] = Healthy(log[p]) /\ log[p] # <<>> /\ Causal(forge, log[p])
    BY <2>1, Facts DEF MemberInv
  <2>3. state[p].ops = log[p] /\ state[p].crdt = Set(log[p]) /\ state[p].crdt # {}
    <3>1. Healthy(log[p]).ops = log[p] /\ Healthy(log[p]).crdt = Set(log[p])
      BY DEF Healthy
    <3>2. 1 \in Set(log[p])
      BY <2>2, CreationFirst
    <3> QED BY <2>2, <3>1, <3>2
  <2>4. ~Emptied(forge, state[p])
    BY <2>3 DEF Emptied
  <2>5. u = Healthy(u.ops) /\ Set(u.ops) = Set(log[p]) \cup Set(ops) /\ l = u.ops
    BY <2>1, <2>3, <2>4, Zenon
  <2>6. u = Healthy(l) /\ Set(log[p]) \subseteq Set(l)
    BY <2>5
  <2>7. Made(forge, p, log[p])
    BY <2>2 DEF MemberInv, Joined, Made
  <2>8. Made(forge, p, l)
    BY <2>6, <2>7 DEF Made
  <2>9. /\ forge' = forge /\ up' = up /\ log'[p] = l /\ state'[p] = u
        /\ \A q \in Peers : q # p => state'[q] = state[q] /\ log'[q] = log[q]
    BY <1>2, <2>1 DEF Total
  <2> QED BY <1>2, <2>6, <2>8, <2>9, MemberStep, Zenon
<1>7. ASSUME NEW p \in Peers, Publish(p) PROVE MemberInv'
  BY <1>7 DEF Publish, MemberInv, Joined
<1>8. ASSUME NEW p \in Peers, Crash(p) PROVE MemberInv'
  <2>1. /\ forge' = forge /\ log' = log /\ up'[p] = FALSE
        /\ \A q \in Peers : q # p => up'[q] = up[q] /\ state'[q] = state[q]
    BY <1>2, <1>8 DEF Crash, Total
  <2>2. log[p] # <<>> => Made(forge, p, log[p])
    BY DEF MemberInv, Joined, Made
  <2> QED BY <1>2, <2>1, <2>2, MemberStep, Zenon
<1>9. ASSUME NEW p \in Peers, Start(p) PROVE MemberInv'
  <2>1. /\ log[p] # <<>> /\ state' = [state EXCEPT ![p] = Healthy(log[p])]
        /\ up' = [up EXCEPT ![p] = TRUE]
        /\ UNCHANGED <<forge, log, snapshots, tickets, crashes>>
    BY <1>9, StartEffect
  <2>2. /\ forge' = forge /\ log' = log /\ state'[p] = Healthy(log[p])
        /\ \A q \in Peers : q # p => up'[q] = up[q] /\ state'[q] = state[q]
    BY <1>2, <2>1 DEF Total
  <2>3. Made(forge, p, log[p])
    BY <2>1 DEF MemberInv, Joined, Made
  <2> QED BY <1>2, <2>2, <2>3, MemberStep, Zenon
<1> QED BY <1>1, <1>3, <1>4, <1>5, <1>6, <1>7, <1>8, <1>9, Zenon DEF Next

(* As long as the commands are given by owners, and direct commands only   *)
(* while the daemon is down, a running task has exactly the members that   *)
(* its auth.log says.                                                      *)
THEOREM MembersFollow == OwnersAsk => (Spec => []MembersFollowLog)
<1> SUFFICES ASSUME OwnersAsk PROVE Spec => []MembersFollowLog
  OBVIOUS
<1>1. AuthInv /\ MemberInv => MembersFollowLog
  <2> SUFFICES ASSUME AuthInv, MemberInv, NEW p \in Peers, up[p]
               PROVE  state[p] = Replay(forge, log[p]).st
    BY DEF MembersFollowLog
  <2>1. Replay(forge, log[p]).st = Healthy(log[p])
    BY Facts, ReplayCausal
  <2> QED BY <2>1 DEF MemberInv
<1>2. AuthInv /\ MemberInv /\ [Next]_vars => MemberInv'
  BY MemberNext
<1> QED BY <1>1, <1>2, AuthInvHolds, MemberInit, PTL DEF Spec
-----------------------------------------------------------------------------
(***************************************************************************)
(* Logs as growing sets, whoever gives the commands.                       *)
(***************************************************************************)
LEMMA KeptStep ==
  ASSUME AuthInv, KeptInv, Grows(forge, forge'), NEW p \in Peers,
         \A q \in Peers : q # p => up'[q] = up[q] /\ state'[q] = state[q] /\ log'[q] = log[q],
         up'[p] => state'[p].ops = log'[p],
         Set(log[p]) \subseteq Set(log'[p]),
         \A i \in 1..Len(forge') :
           \/ i \in 1..Len(forge)
           \/ Valid(forge', i) => forge'[i].author = p /\ i \in Set(log'[p])
  PROVE  KeptInv'
<1>1. \A q \in Peers : up'[q] => state'[q].ops = log'[q]
  BY Zenon DEF KeptInv
<1>2. ASSUME NEW i \in 1..Len(forge'), Valid(forge', i) PROVE i \in Set(log'[forge'[i].author])
  <2>1. CASE i \in 1..Len(forge)
    <3>1. Valid(forge, i) /\ forge'[i] = forge[i] /\ forge[i].author \in Peers
      <4>1. Valid(forge, i)
        BY <1>2, <2>1, ValidGrows
      <4>2. forge'[i] = forge[i] /\ forge[i] \in Content
        BY <2>1 DEF Grows, Forged
      <4> QED BY <4>1, <4>2 DEF Content
    <3>2. i \in Set(log[forge[i].author])
      BY <2>1, <3>1 DEF KeptInv
    <3>3. PICK q \in Peers : q = forge[i].author
      BY <3>1
    <3>4. i \in Set(log'[q])
      <4>1. CASE q = p
        BY <3>2, <3>3, <4>1
      <4>2. CASE q # p
        <5>1. log'[q] = log[q]
          BY <4>2
        <5> QED BY <3>2, <3>3, <5>1
      <4> QED BY <4>1, <4>2
    <3> QED BY <3>1, <3>3, <3>4
  <2>2. CASE i \notin 1..Len(forge)
    BY <1>2, <2>2
  <2> QED BY <2>1, <2>2
<1> QED BY <1>1, <1>2, Zenon DEF KeptInv

LEMMA KeptInit == Init => KeptInv
<1> SUFFICES ASSUME Init PROVE KeptInv
  OBVIOUS
<1>1. \A p \in Peers : up[p] => state[p].ops = log[p]
  BY DEF Init
<1>2. Len(forge) = 1 /\ forge[1].kind = "Create"
  BY DEF Init
<1>3. \A o \in 1..Len(forge) : ~Valid(forge, o)
  BY <1>2 DEF Valid
<1> QED BY <1>1, <1>3, Zenon DEF KeptInv

\* The effect of one peer's step on the logs: nothing, an operation that is
\* new to all, or a log that was handed out.
SameOthers(p) == \A q \in Peers : q # p => log'[q] = log[q]

Authors(p) ==
  \E o \in OpIds :
    /\ log[p] # <<>> /\ \A q \in Peers : o \notin Set(log[q])
    /\ SameOthers(p) /\ Set(log'[p]) = Set(log[p]) \cup {o}
    /\ snapshots' = snapshots
    /\ \/ tickets' = tickets
       \/ \E m \in Peers : tickets' = tickets \cup {[invitee |-> m, auth_log |-> log'[p]]}

Publishes(p) == log' = log /\ tickets' = tickets /\ snapshots' = snapshots \cup {log[p]}

Learns(p) ==
  /\ snapshots' = snapshots /\ tickets' = tickets /\ SameOthers(p)
  /\ \E s : /\ s \in snapshots \/ \E t \in tickets : s = t.auth_log
            /\ Set(log'[p]) = Set(log[p]) \cup Set(s)

Stutters == snapshots' = snapshots /\ tickets' = tickets /\ log' = log

(* What has its effect is signed for the first time.                       *)
LEMMA SignedOnce ==
  ASSUME AuthInv, KeptInv, NEW p \in Peers, NEW kind \in {"Add", "Remove"}, NEW m \in Peers,
         NEW s \in Seq(Nat), NEW o \in Nat, s = log[p], s # <<>>,
         Signs(p, s, o), TakesEffect(p, kind, m, s, o), snapshots' = snapshots
  PROVE  Authors(p)
<1>1. Valid(forge', o) /\ Causal(forge', Append(s, o)) /\ Saved(p, kind, m, Append(s, o))
  BY Zenon DEF TakesEffect
<1>2. /\ log' = [log EXCEPT ![p] = Append(s, o)] /\ Total(log)
      /\ \/ tickets' = tickets
         \/ tickets' = tickets \cup {[invitee |-> m, auth_log |-> Append(s, o)]}
  BY <1>1, Zenon DEF Saved, AuthInv
<1>3. log'[p] = Append(s, o) /\ SameOthers(p)
  BY <1>2 DEF SameOthers, Total
<1>4. Set(log'[p]) = Set(log[p]) \cup {o}
  BY <1>3, SetOfAppend
<1>5. ASSUME NEW q \in Peers, o \in Set(log[q]) PROVE FALSE
  <2>1. o \in 1..Len(forge) /\ Grows(forge, forge')
    BY <1>5, Facts DEF Causal, Signs
  <2>2. Valid(forge, o)
    BY <1>1, <2>1, ValidGrows
  <2>3. forge[o].author = p
    BY <2>1 DEF Signs, Grows
  <2> QED BY <2>1, <2>2, <2>3 DEF KeptInv, Signs
<1>6. o \in OpIds
  BY AuthLogAssumption, Facts DEF Signs, Grows, Forged, OpIds
<1> QED BY <1>2, <1>3, <1>4, <1>5, <1>6, Zenon DEF Authors

\* A step of p that keeps KeptInv and is one of these.
SetStep(p) == KeptInv' /\ (Authors(p) \/ Publishes(p) \/ Learns(p) \/ Stutters)

\* Nobody edits auth.log beside a running daemon.
NotBeside == TRUE \notin DirectWhen

LEMMA SignsKept ==
  ASSUME AuthInv, KeptInv, NEW p \in Peers, NEW kind \in {"Add", "Remove"}, NEW m \in Peers,
         NEW s \in Seq(Nat), NEW o \in Nat, s = log[p], s # <<>>,
         Signs(p, s, o), snapshots' = snapshots,
         \A q \in Peers : q # p => up'[q] = up[q] /\ state'[q] = state[q],
         up'[p] => state'[p].ops = log'[p],
         TakesEffect(p, kind, m, s, o) \/ (~Valid(forge', o) /\ UNCHANGED <<log, tickets>>)
  PROVE  SetStep(p)
<1>1. Total(log) /\ Grows(forge, forge')
  BY DEF AuthInv, Signs
<1>2. CASE TakesEffect(p, kind, m, s, o)
  <2>1. log'[p] = Append(s, o) /\ \A q \in Peers : q # p => log'[q] = log[q]
    BY <1>1, <1>2, SavedSound
  <2>2. Set(log'[p]) = Set(log[p]) \cup {o}
    BY <2>1, SetOfAppend
  <2>3. \A i \in 1..Len(forge') :
           \/ i \in 1..Len(forge)
           \/ Valid(forge', i) => forge'[i].author = p /\ i \in Set(log'[p])
    BY <2>2 DEF Signs
  <2>4. Set(log[p]) \subseteq Set(log'[p])
    BY <2>2
  <2>5. KeptInv'
    BY <1>1, <2>1, <2>3, <2>4, KeptStep, Zenon
  <2>6. Authors(p)
    BY <1>2, SignedOnce, Zenon
  <2> QED BY <2>5, <2>6 DEF SetStep
<1>3. CASE ~Valid(forge', o) /\ UNCHANGED <<log, tickets>>
  <2>1. log' = log /\ tickets' = tickets
    BY <1>3
  <2>2. \A i \in 1..Len(forge') :
           \/ i \in 1..Len(forge)
           \/ Valid(forge', i) => forge'[i].author = p /\ i \in Set(log'[p])
    BY <1>3 DEF Signs
  <2>3. Set(log[p]) \subseteq Set(log'[p])
    BY <2>1
  <2>4. KeptInv'
    BY <1>1, <2>1, <2>2, <2>3, KeptStep, Zenon
  <2> QED BY <2>1, <2>4 DEF SetStep, Stutters
<1> QED BY <1>2, <1>3

LEMMA CommandKept ==
  ASSUME AuthInv, KeptInv, NEW p \in Peers, NEW kind \in {"Add", "Remove"}, NEW m \in Peers,
         Command(p, kind, m)
  PROVE  SetStep(p)
<1>0. Total(state) /\ Total(log)
  BY DEF AuthInv
<1>1. CASE state[p] = Healthy(state[p].ops)
  <2>1. PICK s \in Seq(Nat), o \in Nat :
           /\ s = state[p].ops /\ s # <<>> /\ up[p] /\ p \in Askers /\ Signs(p, s, o)
           /\ UNCHANGED <<up, snapshots, crashes>>
           /\ \/ /\ TakesEffect(p, kind, m, s, o)
                 /\ state' = [state EXCEPT ![p] = Healthy(Append(s, o))]
              \/ /\ ~Valid(forge', o) /\ UNCHANGED <<log, tickets>>
                 /\ state' = [state EXCEPT ![p] = [crdt |-> {}, ops |-> s, pending |-> <<>>]]
    BY <1>1, CommandEffect
  <2>2. s = log[p]
    BY <2>1 DEF KeptInv
  <2>3. up' = up /\ snapshots' = snapshots /\ \A q \in Peers : q # p => state'[q] = state[q]
    BY <1>0, <2>1 DEF Total
  <2>4. state'[p].ops = log'[p]
    <3>1. CASE TakesEffect(p, kind, m, s, o) /\ state' = [state EXCEPT ![p] = Healthy(Append(s, o))]
      <4>1. log'[p] = Append(s, o)
        BY <1>0, <3>1, SavedSound
      <4>2. state'[p].ops = Append(s, o)
        BY <1>0, <3>1 DEF Total, Healthy
      <4> QED BY <4>1, <4>2
    <3>2. CASE /\ UNCHANGED <<log, tickets>>
               /\ state' = [state EXCEPT ![p] = [crdt |-> {}, ops |-> s, pending |-> <<>>]]
      <4>1. state'[p].ops = s /\ log' = log
        BY <1>0, <3>2 DEF Total
      <4> QED BY <2>2, <4>1
    <3> QED BY <2>1, <3>1, <3>2, Zenon
  <2>5. TakesEffect(p, kind, m, s, o) \/ (~Valid(forge', o) /\ UNCHANGED <<log, tickets>>)
    BY <2>1, Zenon
  <2> QED BY <2>1, <2>2, <2>3, <2>4, <2>5, SignsKept, Zenon
<1>2. CASE Emptied(forge, state[p])
  <2>1. PICK o \in Nat :
           /\ Grows(forge, forge') /\ Len(forge') <= MaxOps /\ ~Valid(forge', o)
           /\ \A i \in 1..Len(forge') : i \in 1..Len(forge) \/ i = o
           /\ up[p] /\ state'[p] = state[p] /\ state' = [state EXCEPT ![p] = state[p]]
           /\ UNCHANGED <<up, log, tickets, snapshots, crashes>>
    BY <1>2, CommandEmptied
  <2>2. /\ up' = up /\ log' = log /\ tickets' = tickets /\ snapshots' = snapshots
        /\ \A q \in Peers : q # p => state'[q] = state[q]
    BY <1>0, <2>1 DEF Total
  <2>3. \A i \in 1..Len(forge') :
           \/ i \in 1..Len(forge)
           \/ Valid(forge', i) => forge'[i].author = p /\ i \in Set(log'[p])
    BY <2>1
  <2>4. up'[p] => state'[p].ops = log'[p]
    BY <2>1, <2>2 DEF KeptInv
  <2>5. Set(log[p]) \subseteq Set(log'[p])
    BY <2>2
  <2>6. KeptInv'
    BY <2>1, <2>2, <2>3, <2>4, <2>5, KeptStep, Zenon
  <2> QED BY <2>2, <2>6 DEF SetStep, Stutters
<1> QED BY <1>1, <1>2, Facts

LEMMA DirectKept ==
  ASSUME NotBeside, AuthInv, KeptInv, NEW p \in Peers, NEW kind \in {"Add", "Remove"}, NEW m \in Peers,
         DirectCommand(p, kind, m)
  PROVE  SetStep(p)
<1>1. PICK s \in Seq(Nat), o \in Nat :
           /\ s = log[p] /\ s # <<>> /\ up[p] \in DirectWhen /\ p \in Askers /\ Signs(p, s, o)
           /\ UNCHANGED <<up, state, snapshots, crashes>>
           /\ \/ TakesEffect(p, kind, m, s, o)
              \/ ~Valid(forge', o) /\ UNCHANGED <<log, tickets>>
  BY DirectEffect
<1>2. up' = up /\ state' = state /\ snapshots' = snapshots
  BY <1>1
<1>3. ~up[p]
  <2>1. up[p] \in BOOLEAN
    BY DEF AuthInv
  <2> QED BY <1>1, <2>1 DEF NotBeside
<1> QED BY <1>1, <1>2, <1>3, SignsKept, Zenon

LEMMA JoinKept ==
  ASSUME AuthInv, KeptInv, NEW p \in Peers, Join(p)
  PROVE  SetStep(p)
<1>1. PICK t \in tickets, s \in Seq(Nat) :
           /\ t.auth_log = s /\ s # <<>> /\ Causal(forge, s) /\ log[p] = <<>>
           /\ p \in MembersOf(forge, Set(s))
           /\ log' = [log EXCEPT ![p] = s]
           /\ state' = [state EXCEPT ![p] = Healthy(s)]
           /\ up' = [up EXCEPT ![p] = TRUE]
           /\ UNCHANGED <<forge, snapshots, tickets, crashes>>
  BY JoinEffect
<1>2. Total(state) /\ Total(log) /\ up \in [Peers -> BOOLEAN] /\ Grows(forge, forge)
  BY SoundNow
<1>3. /\ log'[p] = s /\ state'[p].ops = s
      /\ \A q \in Peers : q # p => up'[q] = up[q] /\ state'[q] = state[q] /\ log'[q] = log[q]
  BY <1>1, <1>2 DEF Total, Healthy
<1>4. Set(log'[p]) = Set(log[p]) \cup Set(s) /\ Set(log[p]) \subseteq Set(log'[p])
  BY <1>1, <1>3, SetOfNone
<1>5. forge' = forge /\ snapshots' = snapshots /\ tickets' = tickets
  BY <1>1
<1>6. KeptInv'
  BY <1>2, <1>3, <1>4, <1>5, KeptStep, Zenon
<1>7. Learns(p)
  BY <1>1, <1>3, <1>4, <1>5, Zenon DEF Learns, SameOthers
<1> QED BY <1>6, <1>7 DEF SetStep

LEMMA ApplyKept ==
  ASSUME AuthInv, KeptInv, NEW p \in Peers, NEW ops \in snapshots, ApplyAuthOps(p, ops)
  PROVE  SetStep(p)
<1>1. PICK u \in AnyState, l \in Seq(Nat) :
           /\ up[p] /\ UNCHANGED <<forge, up, snapshots, tickets, crashes>>
           /\ state' = [state EXCEPT ![p] = u] /\ log' = [log EXCEPT ![p] = l]
           /\ Causal(forge, u.ops) /\ u.ops # <<>>
           /\ \/ /\ state[p] = Healthy(state[p].ops) /\ u = Healthy(u.ops)
                 /\ Set(u.ops) = Set(state[p].ops) \cup Set(ops)
                 /\ l = u.ops \/ (l = log[p] /\ u.ops = state[p].ops)
              \/ /\ Emptied(forge, state[p]) /\ Emptied(forge, u)
                 /\ u.ops = state[p].ops /\ l = log[p]
  BY ApplyEffect
<1>2. Total(state) /\ Total(log) /\ Grows(forge, forge)
  BY SoundNow
<1>3. /\ log'[p] = l /\ state'[p] = u
      /\ \A q \in Peers : q # p => state'[q] = state[q] /\ log'[q] = log[q]
  BY <1>1, <1>2 DEF Total
<1>4. forge' = forge /\ up' = up /\ snapshots' = snapshots /\ tickets' = tickets
  BY <1>1
<1>5. state[p].ops = log[p]
  BY <1>1 DEF KeptInv
<1>6. u.ops = l /\ (l = log[p] \/ Set(l) = Set(log[p]) \cup Set(ops))
  BY <1>1, <1>5, Zenon
<1>7. state'[p].ops = log'[p] /\ Set(log[p]) \subseteq Set(log'[p])
  BY <1>3, <1>6
<1>8. KeptInv'
  BY <1>2, <1>3, <1>4, <1>7, KeptStep, Zenon
<1>9. CASE l = log[p]
  <2>1. log' = log
    BY <1>1, <1>2, <1>9 DEF Total
  <2> QED BY <1>4, <1>8, <2>1 DEF SetStep, Stutters
<1>10. CASE Set(l) = Set(log[p]) \cup Set(ops)
  <2>1. Learns(p)
    BY <1>3, <1>4, <1>10, Zenon DEF Learns, SameOthers
  <2> QED BY <1>8, <2>1 DEF SetStep
<1> QED BY <1>6, <1>9, <1>10

LEMMA TaskKept ==
  ASSUME AuthInv, KeptInv, NEW p \in Peers, Publish(p) \/ Crash(p) \/ Start(p)
  PROVE  SetStep(p)
<1>1. Total(state) /\ Total(log) /\ up \in [Peers -> BOOLEAN] /\ Grows(forge, forge)
  BY SoundNow
<1>2. CASE Publish(p)
  <2>1. /\ forge' = forge /\ up' = up /\ state' = state /\ log' = log /\ tickets' = tickets
        /\ up[p] /\ snapshots' = snapshots \cup {state[p].ops}
    BY <1>2 DEF Publish
  <2>2. KeptInv'
    BY <2>1, Zenon DEF KeptInv
  <2>3. state[p].ops = log[p]
    BY <2>1 DEF KeptInv
  <2> QED BY <2>1, <2>2, <2>3 DEF SetStep, Publishes
<1>3. CASE Crash(p)
  <2>1. /\ forge' = forge /\ snapshots' = snapshots /\ log' = log /\ tickets' = tickets
        /\ up'[p] = FALSE
        /\ \A q \in Peers : q # p => up'[q] = up[q] /\ state'[q] = state[q]
    BY <1>1, <1>3 DEF Crash, Total
  <2>2. Set(log[p]) \subseteq Set(log'[p])
    BY <2>1
  <2>3. KeptInv'
    BY <1>1, <2>1, <2>2, KeptStep, Zenon
  <2> QED BY <2>1, <2>3 DEF SetStep, Stutters
<1>4. CASE Start(p)
  <2>1. /\ log[p] # <<>> /\ state' = [state EXCEPT ![p] = Healthy(log[p])]
        /\ up' = [up EXCEPT ![p] = TRUE]
        /\ UNCHANGED <<forge, log, snapshots, tickets, crashes>>
    BY <1>4, StartEffect
  <2>2. forge' = forge /\ snapshots' = snapshots /\ log' = log /\ tickets' = tickets
    BY <2>1
  <2>3. /\ state'[p].ops = log'[p] /\ Set(log[p]) \subseteq Set(log'[p])
        /\ \A q \in Peers : q # p => up'[q] = up[q] /\ state'[q] = state[q]
    BY <1>1, <2>1, <2>2 DEF Total, Healthy
  <2>4. KeptInv'
    BY <1>1, <2>2, <2>3, KeptStep, Zenon
  <2> QED BY <2>2, <2>4 DEF SetStep, Stutters
<1> QED BY <1>2, <1>3, <1>4

LEMMA KeptNext ==
  ASSUME NotBeside, AuthInv, KeptInv, [Next]_vars
  PROVE  KeptInv' /\ (Stutters \/ \E p \in Peers : Authors(p) \/ Publishes(p) \/ Learns(p))
<1>1. CASE UNCHANGED vars
  <2>1. KeptInv'
    BY <1>1 DEF KeptInv, vars
  <2> QED BY <1>1, <2>1 DEF vars, Stutters
<1>2. CASE \E p \in Peers : SetStep(p)
  BY <1>2, Zenon DEF SetStep
<1>3. ASSUME NEW p \in Peers, NEW kind \in {"Add", "Remove"}, NEW m \in Peers, Command(p, kind, m)
      PROVE  SetStep(p)
  BY <1>3, CommandKept
<1>4. ASSUME NEW p \in Peers, NEW kind \in {"Add", "Remove"}, NEW m \in Peers, DirectCommand(p, kind, m)
      PROVE  SetStep(p)
  BY <1>4, DirectKept
<1>5. ASSUME NEW p \in Peers, Join(p) PROVE SetStep(p)
  BY <1>5, JoinKept
<1>6. ASSUME NEW p \in Peers, NEW ops \in snapshots, ApplyAuthOps(p, ops) PROVE SetStep(p)
  BY <1>6, ApplyKept
<1>7. ASSUME NEW p \in Peers, Publish(p) \/ Crash(p) \/ Start(p) PROVE SetStep(p)
  BY <1>7, TaskKept
<1> QED BY <1>1, <1>2, <1>3, <1>4, <1>5, <1>6, <1>7, Zenon DEF Next

\* The refinement mapping.
Known == [p \in Peers |-> Set(log[p])]
Handed == {Set(s) : s \in snapshots} \cup {Set(t.auth_log) : t \in tickets}

LEMMA SetsInit == Init => Sets!Init
<1> SUFFICES ASSUME Init PROVE Sets!Init
  OBVIOUS
<1>1. Creator \in Peers /\ 1 \in OpIds
  BY AuthLogAssumption DEF OpIds
<1>2. Set(<<1>>) = {1}
  BY DEF Set
<1>3. Known = [q \in Peers |-> IF q = Creator THEN {1} ELSE {}]
  BY <1>2, SetOfNone DEF Init, Known
<1>4. Handed = {}
  BY DEF Init, Handed
<1> QED BY <1>1, <1>3, <1>4 DEF Sets!Init, Known, Handed

LEMMA KnownStep ==
  ASSUME NEW p \in Peers, SameOthers(p), NEW S, Set(log'[p]) = Set(log[p]) \cup S
  PROVE  Known' = [Known EXCEPT ![p] = Known[p] \cup S]
<1>1. ASSUME NEW q \in Peers
      PROVE  Set(log'[q]) = IF q = p THEN Set(log[p]) \cup S ELSE Set(log[q])
  <2>1. CASE q = p
    BY <2>1
  <2>2. CASE q # p
    <3>1. log'[q] = log[q]
      BY <2>2 DEF SameOthers
    <3> QED BY <2>2, <3>1
  <2> QED BY <2>1, <2>2
<1>2. Known' = [q \in Peers |-> IF q = p THEN Set(log[p]) \cup S ELSE Set(log[q])]
  BY <1>1 DEF Known
<1> QED BY <1>2 DEF Known

LEMMA SetsAuthor ==
  ASSUME AuthInv, NEW p \in Peers, Authors(p)
  PROVE  \E o \in OpIds : Sets!Author(p, o)
<1>1. PICK o \in OpIds :
    /\ log[p] # <<>> /\ \A q \in Peers : o \notin Set(log[q])
    /\ SameOthers(p) /\ Set(log'[p]) = Set(log[p]) \cup {o}
    /\ snapshots' = snapshots
    /\ \/ tickets' = tickets
       \/ \E m \in Peers : tickets' = tickets \cup {[invitee |-> m, auth_log |-> log'[p]]}
  BY Zenon DEF Authors
<1>2. Known' = [Known EXCEPT ![p] = Known[p] \cup {o}]
  BY <1>1, KnownStep
<1>3. Known[p] # {} /\ o \notin UNION {Known[q] : q \in Peers}
  <2>1. 1 \in Set(log[p])
    BY <1>1, Facts, CreationFirst
  <2> QED BY <1>1, <2>1 DEF Known
<1>4. Handed' \in {Handed, Handed \cup {Known'[p]}}
  <2>1. Known'[p] = Set(log'[p])
    BY DEF Known
  <2>2. CASE tickets' = tickets
    <3>1. Handed' = Handed
      BY <1>1, <2>2 DEF Handed
    <3> QED BY <3>1
  <2>3. ASSUME NEW m \in Peers, tickets' = tickets \cup {[invitee |-> m, auth_log |-> log'[p]]}
        PROVE  Handed' = Handed \cup {Known'[p]}
    <3>1. [invitee |-> m, auth_log |-> log'[p]].auth_log = log'[p]
      OBVIOUS
    <3>2. {Set(t.auth_log) : t \in tickets'} = {Set(t.auth_log) : t \in tickets} \cup {Set(log'[p])}
      BY <2>3, <3>1
    <3> QED BY <1>1, <2>1, <3>2 DEF Handed
  <2> QED BY <1>1, <2>2, <2>3
<1> QED BY <1>2, <1>3, <1>4 DEF Sets!Author, Sets!Hand, Known, Handed

LEMMA SetsPublish ==
  ASSUME NEW p \in Peers, Publishes(p)
  PROVE  Sets!Publish(p)
<1>1. Known' = Known /\ Known[p] = Set(log[p])
  BY DEF Known, Publishes
<1>2. Handed' = Handed \cup {Set(log[p])}
  BY DEF Handed, Publishes
<1>3. Known'[p] = Set(log[p])
  BY <1>1
<1> QED BY <1>1, <1>2, <1>3 DEF Sets!Publish, Sets!Hand, Known, Handed

LEMMA SetsLearn ==
  ASSUME NEW p \in Peers, Learns(p)
  PROVE  \E S \in Handed : Sets!Learn(p, S)
<1>1. PICK s : /\ s \in snapshots \/ \E t \in tickets : s = t.auth_log
               /\ Set(log'[p]) = Set(log[p]) \cup Set(s)
  BY Zenon DEF Learns
<1>2. SameOthers(p)
  BY DEF Learns
<1>3. Known' = [Known EXCEPT ![p] = Known[p] \cup Set(s)]
  BY <1>1, <1>2, KnownStep
<1>4. Handed' = Handed
  BY DEF Handed, Learns
<1>5. Set(s) \in Handed
  BY <1>1 DEF Handed
<1> QED BY <1>3, <1>4, <1>5 DEF Sets!Learn, Known, Handed

LEMMA SetsStutter ==
  ASSUME Stutters
  PROVE  UNCHANGED Sets!vars
<1>1. Known' = Known /\ Handed' = Handed
  BY DEF Stutters, Known, Handed
<1> QED BY <1>1 DEF Sets!vars, Known, Handed

(* As long as direct commands are given only while the daemon is down,     *)
(* auth logs are what the other parts take them for: sets that only grow,  *)
(* by an operation new to all or by a log that was handed out.             *)
THEOREM LogsImplementSets == NotBeside => (Spec => ImplementsAuthSets)
<1> SUFFICES ASSUME NotBeside PROVE Spec => ImplementsAuthSets
  OBVIOUS
<1>1. KeptInv /\ AuthInv /\ [Next]_vars => KeptInv'
  BY KeptNext
<1>2. KeptInv /\ AuthInv /\ [Next]_vars => [Sets!Next]_Sets!vars
  <2> SUFFICES ASSUME KeptInv, AuthInv, [Next]_vars PROVE [Sets!Next]_Sets!vars
    OBVIOUS
  <2>1. Stutters \/ \E p \in Peers : Authors(p) \/ Publishes(p) \/ Learns(p)
    BY KeptNext
  <2>2. CASE Stutters
    BY <2>2, SetsStutter
  <2>3. ASSUME NEW p \in Peers, Authors(p) PROVE Sets!Next
    <3>1. \E o \in OpIds : Sets!Author(p, o)
      BY <2>3, SetsAuthor
    <3> QED BY <3>1, Zenon DEF Sets!Next
  <2>4. ASSUME NEW p \in Peers, Publishes(p) PROVE Sets!Next
    <3>1. Sets!Publish(p)
      BY <2>4, SetsPublish
    <3> QED BY <3>1, Zenon DEF Sets!Next
  <2>5. ASSUME NEW p \in Peers, Learns(p) PROVE Sets!Next
    <3>1. \E S \in Handed : Sets!Learn(p, S)
      BY <2>5, SetsLearn
    <3> QED BY <3>1, Zenon DEF Sets!Next, Handed
  <2> QED BY <2>1, <2>2, <2>3, <2>4, <2>5, Zenon
<1> QED BY <1>1, <1>2, SetsInit, KeptInit, AuthInvHolds, PTL DEF Spec, ImplementsAuthSets, Sets!Spec
=============================================================================

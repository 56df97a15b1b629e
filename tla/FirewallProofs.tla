---------------------------- MODULE FirewallProofs ----------------------------
(***************************************************************************)
(* Theorems about OriginFirewall.  Every step that changes a table is      *)
(* taken by the holder of the lock or by the environment, so ScriptInv     *)
(* says, for each label of the script, what its shell variables tell about *)
(* the tables: how far the new chains are built, that nothing jumps to     *)
(* them before they are complete, and that no other managed jump is before *)
(* theirs once they are attached.  Table lemmas, one lemma per action, and *)
(* the theorems follow in this order.                                      *)
(***************************************************************************)
EXTENDS OriginFirewall, TLAPS

-----------------------------------------------------------------------------
(* Sequences.                                                              *)

LEMMA Concatenated ==
    ASSUME NEW S, NEW a \in Seq(S), NEW b \in Seq(S)
    PROVE  a \o b \in Seq(S) /\ Len(a \o b) = Len(a) + Len(b)
OBVIOUS

LEMMA Prepended ==
    ASSUME NEW S, NEW s \in Seq(S), NEW x \in S
    PROVE  LET t == <<x>> \o s IN
           /\ t \in Seq(S) /\ t # <<>> /\ Head(t) = x
           /\ Len(t) = Len(s) + 1 /\ t[1] = x
           /\ \A i \in 1..Len(s) : t[i + 1] = s[i]
OBVIOUS

LEMMA Removed ==
    ASSUME NEW S, NEW s \in Seq(S), NEW i \in 1..Len(s)
    PROVE  LET t == RemoveAt(s, i) IN
           /\ t \in Seq(S) /\ Len(t) = Len(s) - 1
           /\ \A k \in 1..(Len(s) - 1) : t[k] = IF k < i THEN s[k] ELSE s[k + 1]
<1> DEFINE a == SubSeq(s, 1, i - 1)
           b == SubSeq(s, i + 1, Len(s))
<1>1. /\ a \in Seq(S) /\ Len(a) = i - 1
      /\ \A k \in 1..(i - 1) : a[k] = s[k]
  OBVIOUS
<1>2. /\ b \in Seq(S) /\ Len(b) = Len(s) - i
      /\ \A k \in 1..(Len(s) - i) : b[k] = s[i + k]
  OBVIOUS
<1>3. RemoveAt(s, i) = a \o b
  BY DEF RemoveAt
<1>. HIDE DEF a, b
<1>4. a \o b \in Seq(S) /\ Len(a \o b) = Len(s) - 1
  <2>1. a \o b \in Seq(S) /\ Len(a \o b) = Len(a) + Len(b)
    BY <1>1, <1>2, Concatenated
  <2>2. Len(s) \in Nat /\ i \in Nat
    OBVIOUS
  <2>3. (i - 1) + (Len(s) - i) = Len(s) - 1
    BY <2>2
  <2>. QED BY <1>1, <1>2, <2>1, <2>3
<1>5. ASSUME NEW k \in 1..(Len(s) - 1)
      PROVE  (a \o b)[k] = IF k < i THEN s[k] ELSE s[k + 1]
  <2>1. CASE k < i
    BY <1>1, <1>2, <2>1
  <2>2. CASE ~(k < i)
    <3>1. (a \o b)[k] = b[k - (i - 1)]
      BY <1>1, <1>2, <2>2
    <3>2. k - (i - 1) \in 1..(Len(s) - i) /\ i + (k - (i - 1)) = k + 1
      BY <2>2
    <3>. QED BY <1>2, <2>2, <3>1, <3>2
  <2>. QED BY <2>1, <2>2
<1>. QED BY <1>3, <1>4, <1>5

-----------------------------------------------------------------------------
(* The tables.                                                             *)

TablesType ==
    /\ top \in [Family -> [Hook -> Seq(Chain \cup {Foreign})]]
    /\ toDocker \in [Family -> BOOLEAN]
    /\ chains \in [Family -> [Hook -> [Chain -> ChainState]]]

\* A chain that is jumped to exists: it was complete when the jump was
\* inserted, and iptables refuses to delete it.
HookedExist ==
    \A f \in Family, h \in Hook, c \in Chain : c \in Hooked(f, h) => Exists(f, h, c)

\* No chain is jumped to twice from one base chain.
JumpOnce(f, h) ==
    \A i, k \in DOMAIN top[f][h] :
        top[f][h][i] = top[f][h][k] /\ top[f][h][i] \in Chain => i = k

JumpsOnce == \A f \in Family, h \in Hook : JumpOnce(f, h)

\* What Hooked means for a base chain.
LEMMA HookedIs ==
    ASSUME TablesType, NEW f \in Family, NEW h \in Hook
    PROVE  /\ top[f][h] \in Seq(Chain \cup {Foreign})
           /\ Hooked(f, h) = {c \in Chain : \E i \in 1..Len(top[f][h]) : top[f][h][i] = c}
           /\ Hooked(f, h) # {} => top[f][h] # <<>>
           /\ top[f][h] # <<>> => Head(top[f][h]) = top[f][h][1]
           /\ top[f][h] # <<>> => Head(top[f][h]) \in Hooked(f, h) \cup {Foreign}
<1>1. top[f][h] \in Seq(Chain \cup {Foreign})
  BY DEF TablesType
<1>2. Hooked(f, h) = {c \in Chain : \E i \in 1..Len(top[f][h]) : top[f][h][i] = c}
  BY DEF Hooked, Contains
<1>. QED BY <1>1, <1>2

\* The commands of iptables, as changes of the tables
InsertsRule(f, h, x) == top' = [top EXCEPT ![f][h] = <<x>> \o @]
DeletesRule(f, h, i) == top' = [top EXCEPT ![f][h] = RemoveAt(@, i)]
SetsChain(f, h, c, v) == chains' = [chains EXCEPT ![f][h][c] = v]

\* -I inserts a first rule.
LEMMA InsertEffect ==
    ASSUME TablesType, NEW f \in Family, NEW h \in Hook, NEW x \in Chain \cup {Foreign},
           InsertsRule(f, h, x)
    PROVE  /\ top' \in [Family -> [Hook -> Seq(Chain \cup {Foreign})]]
           /\ \A g \in Family, k \in Hook : g # f \/ k # h => top'[g][k] = top[g][k]
           /\ top'[f][h] # <<>> /\ Head(top'[f][h]) = x
           /\ Hooked(f, h)' = Hooked(f, h) \cup ({x} \cap Chain)
           /\ x \notin Hooked(f, h) /\ JumpOnce(f, h) => JumpOnce(f, h)'
<1> DEFINE s == top[f][h]
           t == <<x>> \o s
<1>1. s \in Seq(Chain \cup {Foreign})
  BY HookedIs
<1>2. /\ t \in Seq(Chain \cup {Foreign}) /\ t # <<>> /\ Head(t) = x
      /\ Len(t) = Len(s) + 1 /\ t[1] = x
      /\ \A i \in 1..Len(s) : t[i + 1] = s[i]
  BY <1>1, Prepended
<1>3. top' = [top EXCEPT ![f] = [top[f] EXCEPT ![h] = t]]
  BY DEF InsertsRule
<1>. HIDE DEF t
<1>4. /\ top' \in [Family -> [Hook -> Seq(Chain \cup {Foreign})]]
      /\ top'[f][h] = t
      /\ \A g \in Family, k \in Hook : g # f \/ k # h => top'[g][k] = top[g][k]
  BY <1>2, <1>3 DEF TablesType
<1>5. ASSUME NEW i \in 1..Len(t) PROVE (i = 1 /\ t[i] = x)
                                       \/ (i - 1 \in 1..Len(s) /\ t[i] = s[i - 1])
  <2>1. CASE i = 1
    BY <1>2, <2>1
  <2>2. CASE i # 1
    <3>1. i - 1 \in 1..Len(s) /\ (i - 1) + 1 = i
      BY <1>1, <1>2, <2>2
    <3>. QED BY <1>2, <3>1
  <2>. QED BY <2>1, <2>2
<1>6. \A c : (\E i \in 1..Len(t) : t[i] = c) <=> (c = x \/ \E i \in 1..Len(s) : s[i] = c)
  <2>1. ASSUME NEW i \in 1..Len(s) PROVE i + 1 \in 1..Len(t) /\ t[i + 1] = s[i]
    BY <1>1, <1>2
  <2>2. 1 \in 1..Len(t)
    BY <1>1, <1>2
  <2>. QED BY <1>2, <1>5, <2>1, <2>2
<1>7. Hooked(f, h)' = Hooked(f, h) \cup ({x} \cap Chain)
  <2>1. Hooked(f, h)' = {c \in Chain : \E i \in 1..Len(t) : t[i] = c}
    BY <1>4 DEF Hooked, Contains
  <2>2. Hooked(f, h) = {c \in Chain : \E i \in 1..Len(s) : s[i] = c}
    BY HookedIs
  <2>3. \A c \in Chain : c \in Hooked(f, h)' <=> c \in Hooked(f, h) \cup ({x} \cap Chain)
    BY <1>6, <2>1, <2>2
  <2>4. Hooked(f, h)' \subseteq Chain /\ Hooked(f, h) \cup ({x} \cap Chain) \subseteq Chain
    BY <2>1, <2>2
  <2>. HIDE DEF s, t
  <2>. QED BY <2>3, <2>4
<1>8. ASSUME x \notin Hooked(f, h), JumpOnce(f, h) PROVE JumpOnce(f, h)'
  <2>. SUFFICES ASSUME NEW i \in 1..Len(t), NEW k \in 1..Len(t), t[i] = t[k], t[i] \in Chain
                PROVE  i = k
    BY <1>2, <1>4 DEF JumpOnce
  <2>1. \A n \in 1..Len(s) : s[n] \in Chain => s[n] # x
    BY <1>8, HookedIs
  <2>2. \A m, n \in 1..Len(s) : s[m] = s[n] /\ s[m] \in Chain => m = n
    BY <1>1, <1>8 DEF JumpOnce
  <2>3. (i = 1 /\ t[i] = x) \/ (i - 1 \in 1..Len(s) /\ t[i] = s[i - 1])
    BY <1>5
  <2>4. (k = 1 /\ t[k] = x) \/ (k - 1 \in 1..Len(s) /\ t[k] = s[k - 1])
    BY <1>5
  <2>5. CASE i = 1 \/ k = 1
    BY <2>1, <2>3, <2>4, <2>5
  <2>6. CASE i # 1 /\ k # 1
    <3>1. i - 1 = k - 1
      BY <2>2, <2>3, <2>4, <2>6
    <3>. QED BY <3>1, <1>2, <1>1
  <2>. QED BY <2>5, <2>6
<1>. QED BY <1>2, <1>4, <1>7, <1>8

\* -D deletes one rule; the other jumps, and a first rule that is another, stay.
LEMMA DeleteEffect ==
    ASSUME TablesType, NEW f \in Family, NEW h \in Hook, JumpOnce(f, h),
           NEW i \in DOMAIN top[f][h], NEW x, x = top[f][h][i], x \in Chain,
           DeletesRule(f, h, i)
    PROVE  /\ top' \in [Family -> [Hook -> Seq(Chain \cup {Foreign})]]
           /\ \A g \in Family, k \in Hook : g # f \/ k # h => top'[g][k] = top[g][k]
           /\ Hooked(f, h)' = Hooked(f, h) \ {x}
           /\ JumpOnce(f, h)'
           /\ top[f][h] # <<>>
           /\ Head(top[f][h]) # x =>
                 top'[f][h] # <<>> /\ Head(top'[f][h]) = Head(top[f][h])
<1> DEFINE s == top[f][h]
           t == RemoveAt(s, i)
<1>1. s \in Seq(Chain \cup {Foreign}) /\ i \in 1..Len(s) /\ s # <<>>
  BY HookedIs
<1>2. /\ t \in Seq(Chain \cup {Foreign}) /\ Len(t) = Len(s) - 1
      /\ \A k \in 1..(Len(s) - 1) : t[k] = IF k < i THEN s[k] ELSE s[k + 1]
  BY <1>1, Removed
<1>3. top' = [top EXCEPT ![f] = [top[f] EXCEPT ![h] = t]]
  BY DEF DeletesRule
<1>. HIDE DEF t
<1>4. /\ top' \in [Family -> [Hook -> Seq(Chain \cup {Foreign})]]
      /\ top'[f][h] = t
      /\ \A g \in Family, k \in Hook : g # f \/ k # h => top'[g][k] = top[g][k]
  BY <1>2, <1>3 DEF TablesType
<1> DEFINE old(k) == IF k < i THEN k ELSE k + 1
<1>5. ASSUME NEW k \in 1..Len(t)
      PROVE  old(k) \in (1..Len(s)) \ {i} /\ t[k] = s[old(k)]
  BY <1>1, <1>2
<1>6. ASSUME NEW n \in 1..Len(s), n # i PROVE \E k \in 1..Len(t) : old(k) = n
  <2>1. CASE n < i
    <3>1. n \in 1..Len(t) /\ old(n) = n
      BY <1>1, <1>2, <2>1
    <3>. QED BY <3>1
  <2>2. CASE ~(n < i)
    <3>1. n - 1 \in 1..Len(t) /\ old(n - 1) = n
      BY <1>1, <1>2, <1>6, <2>2
    <3>. QED BY <3>1
  <2>. QED BY <2>1, <2>2
<1>7. \A k, n \in 1..Len(t) : old(k) = old(n) => k = n
  BY <1>1, <1>2
<1>8. \A m, n \in 1..Len(s) : s[m] = s[n] /\ s[m] \in Chain => m = n
  BY <1>1 DEF JumpOnce
<1>. HIDE DEF old
<1>9. Hooked(f, h)' = Hooked(f, h) \ {x}
  <2>1. Hooked(f, h)' = {c \in Chain : \E k \in 1..Len(t) : t[k] = c}
    BY <1>4 DEF Hooked, Contains
  <2>2. \A c \in Chain : (\E k \in 1..Len(t) : t[k] = c)
                         <=> (c # x /\ \E n \in 1..Len(s) : s[n] = c)
    BY <1>1, <1>5, <1>6, <1>8
  <2>. QED BY <2>1, <2>2, HookedIs
<1>10. JumpOnce(f, h)'
  <2>1. ASSUME NEW k \in 1..Len(t), NEW n \in 1..Len(t), t[k] = t[n], t[k] \in Chain
        PROVE  k = n
    BY <1>5, <1>7, <1>8, <2>1
  <2>2. DOMAIN t = 1..Len(t)
    BY <1>2
  <2>. QED BY <1>4, <2>1, <2>2 DEF JumpOnce
<1>11. ASSUME Head(s) # x PROVE t # <<>> /\ Head(t) = Head(s)
  <2>1. i # 1 /\ Len(s) >= 2
    BY <1>1, <1>11
  <2>2. Len(t) >= 1 /\ t[1] = s[1]
    BY <1>1, <1>2, <2>1
  <2>. QED BY <1>1, <1>2, <2>2
<1>. QED BY <1>1, <1>4, <1>9, <1>10, <1>11

\* A command on one chain leaves the others alone.
LEMMA ChainEffect ==
    ASSUME TablesType, NEW f \in Family, NEW h \in Hook, NEW c \in Chain, NEW v \in ChainState,
           SetsChain(f, h, c, v)
    PROVE  /\ chains' \in [Family -> [Hook -> [Chain -> ChainState]]]
           /\ chains'[f][h][c] = v
           /\ \A g \in Family, k \in Hook, d \in Chain :
                 g # f \/ k # h \/ d # c => chains'[g][k][d] = chains[g][k][d]
<1>1. chains' = [chains EXCEPT ![f] = [chains[f] EXCEPT ![h] = [chains[f][h] EXCEPT ![c] = v]]]
  BY DEF SetsChain
<1>. QED BY <1>1 DEF TablesType

-----------------------------------------------------------------------------
(* The inductive invariant.                                                *)

\* The new chain of a hook has n rules of the policy and nothing jumps to it.
Fresh(j, h, n) ==
    /\ j.new[h] \in Chain \ Hooked(j.family, h)
    /\ chains[j.family][h][j.new[h]] = [policy |-> j.policy, rules |-> n]

\* The jump to the new chain of a hook is in place, and no other managed jump
\* is before all others.
Heads(j, h) ==
    /\ j.new[h] \in Hooked(j.family, h)
    /\ Head(top[j.family][h]) \in {j.new[h], Foreign}

Building == {"check", "create", "build", "attach", "docker"}
Cleaning == {"list", "unhook", "drop", "orphans", "sweep"}
Mine(j, h) == {j.new[h]} \ {NoChain}
Existing(f, h) == {c \in Chain : Exists(f, h, c)}

\* What the shell variables hold at the label l.
JobFits(l, j) ==
    /\ l \in {"load"} \cup Building => j.kind # "remove"
    /\ l \in Building \cup Cleaning /\ j.kind # "remove" => j.policy \in Policy
    /\ l \in {"flock", "load", "check"} => j.hook = "input"
    /\ j.kind = "remove" => j.new = [h \in Hook |-> NoChain]
    /\ l \in {"unhook", "drop", "sweep"} => j.new[j.hook] \notin j.stale
    /\ l = "drop" => j.target \in Chain \ {j.new[j.hook]}

\* How far the new chains are built and attached.
Built(l, j) ==
    /\ l = "create" /\ j.hook = "forward" => Fresh(j, "input", 0)
    /\ l = "build" /\ j.hook = "input" =>
          (\E n \in 0..(Rules - 1) : Fresh(j, "input", n)) /\ Fresh(j, "forward", 0)
    /\ l = "build" /\ j.hook = "forward" =>
          (\E n \in 0..(Rules - 1) : Fresh(j, "forward", n)) /\ Fresh(j, "input", Rules)
    /\ l = "attach" /\ j.hook = "input" => Fresh(j, "input", Rules)
    /\ l \in {"attach", "docker"} => Fresh(j, "forward", Rules)
    /\ l = "docker" \/ (l = "attach" /\ j.hook = "forward") => Heads(j, "input")
    /\ l \in Cleaning /\ j.kind # "remove" => Heads(j, "input") /\ Heads(j, "forward")

\* What a clean-up that has ignored no failure has removed so far.
Cleaned(l, j) ==
    ~j.skipped =>
    /\ l \in {"list", "unhook", "drop"} /\ j.hook = "forward" =>
          Hooked(j.family, "input") \subseteq Mine(j, "input")
    /\ l \in {"unhook", "drop"} =>
          Hooked(j.family, j.hook) \subseteq Mine(j, j.hook) \cup j.stale
    /\ l \in {"orphans", "sweep"} =>
          \A h \in Hook : Hooked(j.family, h) \subseteq Mine(j, h)
    /\ l \in {"orphans", "sweep"} /\ j.hook = "forward" =>
          Existing(j.family, "input") \subseteq Mine(j, "input")
    /\ l = "sweep" =>
          Existing(j.family, j.hook) \subseteq Mine(j, j.hook) \cup j.stale

Located(l, j) == JobFits(l, j) /\ Built(l, j) /\ Cleaned(l, j)

ScriptInv ==
    /\ FirewallTypeOK
    /\ HookedExist
    /\ JumpsOnce
    /\ \A p \in Process : Located(pc[p], job[p])

RestType ==
    /\ config \in Policy
    /\ installed \in BOOLEAN /\ active \in BOOLEAN
    /\ runs \in 0..MaxRuns /\ mishaps \in 0..MaxMishaps

ProcType ==
    /\ pc \in [Process -> PC]
    /\ job \in [Process -> Job]
    /\ lock \in Process \cup {Nobody}
    /\ \A p \in Process : pc[p] \in Locked <=> lock = p

-----------------------------------------------------------------------------
(* Processes.                                                              *)

LEMMA Types == FirewallTypeOK <=> RestType /\ TablesType /\ ProcType
BY DEF FirewallTypeOK, RestType, TablesType, ProcType

LEMMA TypesNext == FirewallTypeOK' <=> RestType' /\ TablesType' /\ ProcType'
BY DEF FirewallTypeOK, RestType, TablesType, ProcType

LEMMA GotoEffect ==
    ASSUME ProcType, NEW p \in Process, NEW l \in PC, NEW j \in Job, Goto(p, l, j)
    PROVE  /\ pc' \in [Process -> PC] /\ job' \in [Process -> Job]
           /\ pc'[p] = l /\ job'[p] = j
           /\ \A q \in Process \ {p} : pc'[q] = pc[q] /\ job'[q] = job[q]
BY DEF Goto, ProcType

\* Outside the reconciliation and the clean-up only the shell variables matter.
LEMMA Elsewhere ==
    ASSUME NEW l, NEW j, l \notin Building \cup Cleaning, JobFits(l, j)
    PROVE  Located(l, j) /\ Located(l, j)'
BY DEF Located, JobFits, Built, Cleaned, Building, Cleaning

\* A job that has only begun
LEMMA Begun ==
    ASSUME NEW kind \in Kind
    PROVE  /\ NoJob \in Job /\ [NoJob EXCEPT !.kind = kind] \in Job
           /\ Located("off", NoJob) /\ Located("off", NoJob)'
           /\ Located("flock", [NoJob EXCEPT !.kind = kind])
           /\ Located("flock", [NoJob EXCEPT !.kind = kind])'
<1>1. NoJob \in Job
  <2>1. 0 \in 0..MaxPolicy /\ [h \in Hook |-> NoChain] \in [Hook -> Chain \cup {NoChain}]
    BY FirewallAssumption
  <2>2. "none" \in Kind /\ "v4" \in Family /\ "input" \in Hook
    BY DEF Kind, Family, Hook
  <2>. QED BY <2>1, <2>2 DEF NoJob, Job
<1>4. [NoJob EXCEPT !.kind = kind] \in Job
  <2>. HIDE DEF NoJob
  <2>. QED BY <1>1 DEF Job
<1>2. JobFits("off", NoJob) /\ JobFits("flock", [NoJob EXCEPT !.kind = kind])
  BY DEF NoJob, JobFits, Building, Cleaning
<1>3. "off" \notin Building \cup Cleaning /\ "flock" \notin Building \cup Cleaning
  BY DEF Building, Cleaning
<1>. QED BY <1>1, <1>2, <1>3, <1>4, Elsewhere

\* Nobody loses what he knows while the tables stay.
LEMMA TablesSame ==
    ASSUME UNCHANGED tables
    PROVE  /\ TablesType => TablesType'
           /\ HookedExist => HookedExist'
           /\ JumpsOnce => JumpsOnce'
           /\ \A l, j : Located(l, j) => Located(l, j)'
<1>1. \A f, h : Hooked(f, h)' = Hooked(f, h) /\ Existing(f, h)' = Existing(f, h)
  BY DEF Hooked, Existing, Exists, tables
<1>2. \A j, h, n : Fresh(j, h, n)' <=> Fresh(j, h, n)
  BY <1>1 DEF Fresh, tables
<1>3. \A j, h : Heads(j, h)' <=> Heads(j, h)
  BY <1>1 DEF Heads, tables
<1>4. ASSUME NEW l, NEW j, Located(l, j) PROVE Located(l, j)'
  <2>1. JobFits(l, j)'
    BY <1>4 DEF Located, JobFits
  <2>2. Built(l, j)'
    BY <1>2, <1>3, <1>4 DEF Located, Built
  <2>3. Cleaned(l, j)'
    BY <1>1, <1>4 DEF Located, Cleaned, Mine
  <2>. QED BY <2>1, <2>2, <2>3 DEF Located
<1>5. HookedExist => HookedExist'
  BY <1>1 DEF HookedExist, Exists, tables
<1>. QED BY <1>4, <1>5 DEF TablesType, JumpsOnce, JumpOnce, tables

\* Only who holds the lock is in the middle of something.
LEMMA OthersStay ==
    ASSUME NEW q \in Process, Located(pc[q], job[q]), pc[q] \notin Locked,
           pc'[q] = pc[q], job'[q] = job[q]
    PROVE  Located(pc[q], job[q])'
<1> DEFINE l == pc[q]
           j == job[q]
<1>1. pc[q] \notin Building \cup Cleaning
  BY DEF Locked, Building, Cleaning
<1>2. JobFits(pc[q], job[q])'
  BY DEF Located, JobFits
<1>. QED BY <1>1, <1>2 DEF Located, Built, Cleaned, Building, Cleaning

\* A step of the script that keeps or does not need the lock
LEMMA Continues ==
    ASSUME ScriptInv, NEW p \in Process, NEW l \in PC, NEW j \in Job, Goto(p, l, j),
           l \in Locked <=> pc[p] \in Locked, lock' = lock,
           RestType', TablesType', HookedExist', JumpsOnce', Located(l, j)',
           UNCHANGED tables \/ lock = p
    PROVE  ScriptInv'
<1>1. ProcType
  BY Types DEF ScriptInv
<1>2. /\ pc' \in [Process -> PC] /\ job' \in [Process -> Job]
      /\ pc'[p] = l /\ job'[p] = j
      /\ \A q \in Process \ {p} : pc'[q] = pc[q] /\ job'[q] = job[q]
  BY <1>1, GotoEffect
<1>3. ProcType'
  BY <1>1, <1>2 DEF ProcType
<1>4. ASSUME NEW q \in Process PROVE Located(pc[q], job[q])'
  <2>1. CASE q = p
    BY <1>2, <2>1
  <2>2. CASE q # p /\ UNCHANGED tables
    BY <1>2, <2>2, TablesSame DEF ScriptInv
  <2>3. CASE q # p /\ lock = p
    <3>1. pc[q] \notin Locked
      BY <1>1, <2>3 DEF ProcType
    <3>. QED BY <1>2, <2>3, <3>1, OthersStay DEF ScriptInv
  <2>. QED BY <2>1, <2>2, <2>3
<1>. QED BY <1>3, <1>4, TypesNext DEF ScriptInv

LEMMA Exits ==
    ASSUME ScriptInv, NEW p \in Process, Exit(p),
           RestType', TablesType', HookedExist', JumpsOnce',
           UNCHANGED tables \/ lock = p
    PROVE  ScriptInv'
<1>1. ProcType
  BY Types DEF ScriptInv
<1>2. /\ NoJob \in Job /\ "off" \in PC /\ "off" \notin Locked
      /\ Located("off", NoJob)'
  BY Begun DEF PC, Locked, Kind
<1>3. /\ pc' \in [Process -> PC] /\ job' \in [Process -> Job]
      /\ pc'[p] = "off" /\ job'[p] = NoJob
      /\ \A q \in Process \ {p} : pc'[q] = pc[q] /\ job'[q] = job[q]
  BY <1>1, <1>2, GotoEffect DEF Exit
<1>4. ProcType'
  BY <1>1, <1>2, <1>3, FirewallAssumption DEF ProcType, Exit
<1>5. ASSUME NEW q \in Process PROVE Located(pc[q], job[q])'
  <2>1. CASE q = p
    BY <1>2, <1>3, <2>1
  <2>2. CASE q # p /\ UNCHANGED tables
    BY <1>3, <2>2, TablesSame DEF ScriptInv
  <2>3. CASE q # p /\ lock = p
    <3>1. pc[q] \notin Locked
      BY <1>1, <2>3 DEF ProcType
    <3>. QED BY <1>3, <2>3, <3>1, OthersStay DEF ScriptInv
  <2>. QED BY <2>1, <2>2, <2>3
<1>. QED BY <1>4, <1>5, TypesNext DEF ScriptInv

LEMMA ContinuesSame ==
    ASSUME ScriptInv, NEW p \in Process, NEW l \in PC, NEW j \in Job, Goto(p, l, j),
           l \in Locked <=> pc[p] \in Locked, lock' = lock,
           RestType', UNCHANGED tables, Located(l, j)
    PROVE  ScriptInv'
<1>1. TablesType' /\ HookedExist' /\ JumpsOnce' /\ Located(l, j)'
  BY TablesSame, Types DEF ScriptInv
<1>. QED BY <1>1, Continues

LEMMA ExitsSame ==
    ASSUME ScriptInv, NEW p \in Process, Exit(p), RestType', UNCHANGED tables
    PROVE  ScriptInv'
<1>1. TablesType' /\ HookedExist' /\ JumpsOnce'
  BY TablesSame, Types DEF ScriptInv
<1>. QED BY <1>1, Exits

\* Several processes move, and the tables stay.
LEMMA MovesSame ==
    ASSUME ScriptInv, ProcType', RestType', UNCHANGED tables,
           \A q \in Process : \E l, j : pc'[q] = l /\ job'[q] = j /\ Located(l, j)
    PROVE  ScriptInv'
<1>1. ASSUME NEW q \in Process PROVE Located(pc[q], job[q])'
  <2>1. PICK l, j : pc'[q] = l /\ job'[q] = j /\ Located(l, j)
    OBVIOUS
  <2>2. Located(l, j)'
    BY <2>1, TablesSame
  <2>. QED BY <2>1, <2>2
<1>. QED BY <1>1, Types, TypesNext, TablesSame DEF ScriptInv

\* What is known of a process
LEMMA Here ==
    ASSUME ScriptInv, NEW p \in Process
    PROVE  /\ RestType /\ TablesType /\ ProcType /\ HookedExist /\ JumpsOnce
           /\ job[p] \in Job /\ Located(pc[p], job[p])
           /\ pc[p] \in Locked <=> lock = p
BY Types DEF ScriptInv, ProcType

LEMMA MishapType ==
    ASSUME mishaps \in 0..MaxMishaps, Mishap
    PROVE  mishaps' \in 0..MaxMishaps
BY FirewallAssumption DEF Mishap

LEMMA EnforcedKeeps ==
    ASSUME ScriptInv, NEW p \in Process, Enforced(p), pc[p] \in {"check", "sweep"},
           UNCHANGED <<config, tables, counters>>
    PROVE  ScriptInv'
<1>1. CASE job[p].kind = "apply"
  <2>1. Goto(p, "install", job[p]) /\ UNCHANGED <<lock, units>>
    BY <1>1 DEF Enforced
  <2>2. Located("install", job[p])
    <3>1. JobFits("install", job[p])
      BY Here DEF Located, JobFits, Building, Cleaning
    <3>2. "install" \notin Building \cup Cleaning
      BY DEF Building, Cleaning
    <3>. QED BY <3>1, <3>2, Elsewhere
  <2>3. RestType'
    BY <2>1, Here DEF RestType, units, counters
  <2>4. "install" \in Locked /\ pc[p] \in Locked /\ "install" \in PC
    BY DEF Locked, PC
  <2>. QED BY <2>1, <2>2, <2>3, <2>4, Here, ContinuesSame
<1>2. CASE job[p].kind # "apply"
  <2>1. Exit(p) /\ RestType'
    BY <1>2, Here DEF Enforced, ExitWith, RestType, counters
  <2>. QED BY <2>1, ExitsSame
<1>. QED BY <1>1, <1>2

-----------------------------------------------------------------------------
(* The steps that leave the tables alone.                                  *)

LEMMA BeginKeeps ==
    ASSUME ScriptInv, NEW p \in Process, NEW kind \in Kind, Begin(p, kind),
           UNCHANGED <<tables, lock>>, RestType'
    PROVE  ScriptInv'
<1>1. PICK j \in Job : j = [NoJob EXCEPT !.kind = kind] /\ Located("flock", j)
  BY Begun
<1>2. Goto(p, "flock", j) /\ pc[p] = "off"
  BY <1>1 DEF Begin
<1>3. "flock" \in PC /\ "flock" \notin Locked /\ "off" \notin Locked
  BY DEF PC, Locked
<1>. QED BY <1>1, <1>2, <1>3, ContinuesSame

LEMMA LoadKeeps ==
    ASSUME ScriptInv, NEW p \in Process, Load(p)
    PROVE  ScriptInv'
<1>1. [job[p] EXCEPT !.policy = config] \in Job
  BY Here DEF Job, RestType, Policy
<1>2. PICK j \in Job : j = [job[p] EXCEPT !.policy = config]
  BY <1>1
<1>3. Goto(p, "check", j) /\ pc[p] = "load" /\ lock' = lock /\ UNCHANGED tables
  BY <1>2 DEF Load
<1>4. Located("check", j)
  <2>1. JobFits("check", j)
    BY <1>2, <1>3, Here DEF Located, JobFits, Building, Cleaning, RestType, Job
  <2>. QED BY <2>1 DEF Located, Built, Cleaned, Building, Cleaning
<1>5. RestType'
  BY Here DEF Load, RestType, units, counters
<1>6. "check" \in PC /\ "check" \in Locked /\ "load" \in Locked
  BY DEF PC, Locked
<1>. QED BY <1>3, <1>4, <1>5, <1>6, ContinuesSame

LEMMA CheckKeeps ==
    ASSUME ScriptInv, NEW p \in Process, Check(p)
    PROVE  ScriptInv'
<1>1. CASE Enforced(p)
  BY <1>1, EnforcedKeeps DEF Check
<1>2. CASE Goto(p, "create", job[p]) /\ UNCHANGED <<lock, units>>
  <2>1. pc[p] = "check" /\ UNCHANGED <<config, tables, counters>>
    BY DEF Check
  <2>2. Located("create", job[p])
    <3>1. JobFits("create", job[p]) /\ job[p].hook = "input"
      BY <2>1, Here DEF Located, JobFits, Building, Cleaning
    <3>. QED BY <3>1 DEF Located, Built, Cleaned, Building, Cleaning
  <2>3. RestType'
    BY <1>2, <2>1, Here DEF RestType, units, counters
  <2>4. "create" \in PC /\ "create" \in Locked /\ "check" \in Locked
    BY DEF PC, Locked
  <2>. QED BY <1>2, <2>1, <2>2, <2>3, <2>4, Here, ContinuesSame
<1>. QED BY <1>1, <1>2 DEF Check

LEMMA InstallKeeps ==
    ASSUME ScriptInv, NEW p \in Process, Install(p)
    PROVE  ScriptInv'
<1>1. /\ Goto(p, "unlock", job[p]) /\ pc[p] = "install"
      /\ lock' = lock /\ UNCHANGED tables
  BY DEF Install
<1>2. Located("unlock", job[p])
  <2>1. JobFits("unlock", job[p]) /\ "unlock" \notin Building \cup Cleaning
    BY <1>1, Here DEF Located, JobFits, Building, Cleaning
  <2>. QED BY <2>1, Elsewhere
<1>3. RestType'
  BY Here DEF Install, RestType, counters
<1>4. "unlock" \in PC /\ "unlock" \in Locked /\ "install" \in Locked
  BY DEF PC, Locked
<1>. QED BY <1>1, <1>2, <1>3, <1>4, Here, ContinuesSame

LEMMA DieKeeps ==
    ASSUME ScriptInv, NEW p \in Process, Die(p)
    PROVE  ScriptInv'
<1>1. Exit(p) /\ UNCHANGED tables
  BY DEF Die, ExitWith
<1>2. RestType'
  BY Here, MishapType DEF Die, ExitWith, RestType
<1>. QED BY <1>1, <1>2, ExitsSame

LEMMA StatusKeeps ==
    ASSUME ScriptInv, NEW p \in Process, Status(p)
    PROVE  ScriptInv'
<1>1. Exit(p) /\ UNCHANGED tables
  BY DEF Status, ExitWith
<1>2. RestType'
  BY Here DEF Status, ExitWith, RestType, counters
<1>. QED BY <1>1, <1>2, ExitsSame

LEMMA WaitKeeps ==
    ASSUME ScriptInv, NEW p \in Process, Wait(p)
    PROVE  ScriptInv'
<1>1. pc[p] = "wait" /\ UNCHANGED <<config, tables, counters>>
  BY DEF Wait
<1>2. CASE active
  <2>1. Goto(p, "relock", job[p]) /\ UNCHANGED <<lock, units>>
    BY <1>2 DEF Wait
  <2>2. Located("relock", job[p])
    <3>1. JobFits("relock", job[p]) /\ "relock" \notin Building \cup Cleaning
      BY <1>1, Here DEF Located, JobFits, Building, Cleaning
    <3>. QED BY <3>1, Elsewhere
  <2>3. RestType'
    BY <1>1, <2>1, Here DEF RestType, units, counters
  <2>4. "relock" \in PC /\ "relock" \notin Locked /\ "wait" \notin Locked
    BY DEF PC, Locked
  <2>. QED BY <1>1, <2>1, <2>2, <2>3, <2>4, Here, ContinuesSame
<1>3. CASE ~active
  <2>1. Exit(p) /\ RestType'
    BY <1>1, <1>3, Here DEF Wait, ExitWith, RestType, counters
  <2>. QED BY <1>1, <2>1, ExitsSame
<1>. QED BY <1>2, <1>3

\* flock: the holder's label changes with the lock.
LEMMA AcquireKeeps ==
    ASSUME ScriptInv, NEW p \in Process, Acquire(p)
    PROVE  ScriptInv'
<1>1. PICK l \in {"list", "load", "status"} :
         /\ Goto(p, l, job[p])
         /\ l = "list" => pc[p] = "flock" /\ job[p].kind = "remove"
         /\ l = "load" => pc[p] = "flock" /\ job[p].kind # "remove"
  BY DEF Acquire, AfterLock
<1>2. l \in PC /\ l \in Locked
  BY <1>1 DEF PC, Locked
<1>3. /\ pc' \in [Process -> PC] /\ job' \in [Process -> Job]
      /\ pc'[p] = l /\ job'[p] = job[p]
      /\ \A q \in Process \ {p} : pc'[q] = pc[q] /\ job'[q] = job[q]
  BY <1>1, <1>2, Here, GotoEffect
<1>4. lock = Nobody /\ lock' = p /\ UNCHANGED tables
  BY DEF Acquire
<1>5. ProcType'
  BY <1>2, <1>3, <1>4, Here, FirewallAssumption DEF ProcType
<1>6. RestType'
  BY Here DEF Acquire, RestType, units, counters
<1>7. Located(l, job[p])
  <2>1. CASE l = "status"
    <3>1. JobFits("status", job[p]) /\ "status" \notin Building \cup Cleaning
      BY <2>1, Here DEF Located, JobFits, Building, Cleaning
    <3>. QED BY <2>1, <3>1, Elsewhere
  <2>2. CASE l = "load"
    <3>1. JobFits("load", job[p]) /\ "load" \notin Building \cup Cleaning
      BY <1>1, <2>2, Here DEF Located, JobFits, Building, Cleaning
    <3>. QED BY <2>2, <3>1, Elsewhere
  <2>3. CASE l = "list"
    <3>1. JobFits("list", job[p]) /\ job[p].hook = "input"
      BY <1>1, <2>3, Here DEF Located, JobFits, Building, Cleaning
    <3>. QED BY <1>1, <2>3, <3>1 DEF Located, Built, Cleaned, Building, Cleaning
  <2>. QED BY <2>1, <2>2, <2>3
<1>8. \A q \in Process : \E k, j : pc'[q] = k /\ job'[q] = j /\ Located(k, j)
  BY <1>3, <1>7, Here
<1>. QED BY <1>4, <1>5, <1>6, <1>8, MovesSame

LEMMA UnlockKeeps ==
    ASSUME ScriptInv, NEW p \in Process, Unlock(p)
    PROVE  ScriptInv'
<1>1. Goto(p, "restart", job[p]) /\ pc[p] = "unlock" /\ lock' = Nobody /\ UNCHANGED tables
  BY DEF Unlock
<1>2. "restart" \in PC /\ "restart" \notin Locked /\ "unlock" \in Locked
  BY DEF PC, Locked
<1>3. /\ pc' \in [Process -> PC] /\ job' \in [Process -> Job]
      /\ pc'[p] = "restart" /\ job'[p] = job[p]
      /\ \A q \in Process \ {p} : pc'[q] = pc[q] /\ job'[q] = job[q]
  BY <1>1, <1>2, Here, GotoEffect
<1>4. ProcType'
  BY <1>1, <1>2, <1>3, Here, FirewallAssumption DEF ProcType
<1>5. RestType'
  BY Here DEF Unlock, RestType, units, counters
<1>6. Located("restart", job[p])
  <2>1. JobFits("restart", job[p]) /\ "restart" \notin Building \cup Cleaning
    BY <1>1, Here DEF Located, JobFits, Building, Cleaning
  <2>. QED BY <2>1, Elsewhere
<1>7. \A q \in Process : \E k, j : pc'[q] = k /\ job'[q] = j /\ Located(k, j)
  BY <1>3, <1>6, Here
<1>. QED BY <1>1, <1>4, <1>5, <1>7, MovesSame

\* systemctl restart replaces the job of the service as well.
LEMMA RestartKeeps ==
    ASSUME ScriptInv, NEW p \in Process, Restart(p)
    PROVE  ScriptInv'
<1>1. pc[p] = "restart" /\ UNCHANGED <<config, tables, counters>>
  BY DEF Restart
<1>2. CASE ~installed
  <2>1. Exit(p) /\ RestType'
    BY <1>1, <1>2, Here DEF Restart, ExitWith, RestType, counters
  <2>. QED BY <1>1, <2>1, ExitsSame
<1>3. CASE installed
  <2>. DEFINE e == [NoJob EXCEPT !.kind = "enforce"]
  <2>1. /\ pc' = [pc EXCEPT ![p] = "wait", ![Service] = "flock"]
        /\ job' = [job EXCEPT ![Service] = e]
        /\ lock' = IF lock = Service THEN Nobody ELSE lock
        /\ RestType'
    BY <1>1, <1>3, Here DEF Restart, RestType, counters
  <2>2. e \in Job /\ Located("flock", e)
    BY Begun DEF Kind
  <2>. HIDE DEF e
  <2>3. Service \in Process
    BY DEF Process
  <2>4. /\ {"wait", "flock"} \subseteq PC /\ "wait" \notin Locked
        /\ "flock" \notin Locked /\ "restart" \notin Locked
    BY DEF PC, Locked
  <2>5. /\ pc' \in [Process -> PC] /\ job' \in [Process -> Job]
        /\ pc'[Service] = "flock" /\ job'[Service] = e
        /\ p # Service => pc'[p] = "wait" /\ job'[p] = job[p]
        /\ \A q \in Process \ {p, Service} : pc'[q] = pc[q] /\ job'[q] = job[q]
    BY <2>1, <2>2, <2>3, <2>4, Here DEF ProcType
  <2>6. ProcType'
    <3>1. \A q \in Process : pc'[q] \in Locked <=> lock' = q
      BY <1>1, <2>1, <2>3, <2>4, <2>5, Here, FirewallAssumption DEF ProcType
    <3>2. lock' \in Process \cup {Nobody}
      BY <2>1, Here DEF ProcType
    <3>. QED BY <2>5, <3>1, <3>2 DEF ProcType
  <2>7. Located("wait", job[p])
    <3>1. JobFits("wait", job[p]) /\ "wait" \notin Building \cup Cleaning
      BY <1>1, Here DEF Located, JobFits, Building, Cleaning
    <3>. QED BY <3>1, Elsewhere
  <2>8. \A q \in Process : \E k, j : pc'[q] = k /\ job'[q] = j /\ Located(k, j)
    BY <2>2, <2>5, <2>7, Here
  <2>. QED BY <1>1, <2>1, <2>6, <2>8, MovesSame
<1>. QED BY <1>2, <1>3

\* The units are stopped by who holds the lock.
LEMMA UninstallKeeps ==
    ASSUME ScriptInv, NEW p \in Process, Uninstall(p)
    PROVE  ScriptInv'
<1>1. /\ pc[p] = "uninstall" /\ UNCHANGED <<config, tables, counters>>
      /\ pc' = [pc EXCEPT ![p] = "off", ![Service] = "off"]
      /\ job' = [job EXCEPT ![p] = NoJob, ![Service] = NoJob]
      /\ lock' = Nobody
  BY DEF Uninstall
<1>2. NoJob \in Job /\ Located("off", NoJob)
  BY Begun DEF Kind
<1>3. Service \in Process
  BY DEF Process
<1>4. "off" \in PC /\ "off" \notin Locked /\ "uninstall" \in Locked
  BY DEF PC, Locked
<1>5. /\ pc' \in [Process -> PC] /\ job' \in [Process -> Job]
      /\ pc'[Service] = "off" /\ job'[Service] = NoJob
      /\ pc'[p] = "off" /\ job'[p] = NoJob
      /\ \A q \in Process \ {p, Service} : pc'[q] = pc[q] /\ job'[q] = job[q]
  BY <1>1, <1>2, <1>3, <1>4, Here DEF ProcType
<1>6. ProcType'
  <2>1. \A q \in Process : pc'[q] \in Locked <=> lock' = q
    BY <1>1, <1>3, <1>4, <1>5, Here, FirewallAssumption DEF ProcType
  <2>. QED BY <1>1, <1>5, <2>1 DEF ProcType
<1>7. RestType'
  BY Here DEF Uninstall, RestType, counters
<1>8. \A q \in Process : \E k, j : pc'[q] = k /\ job'[q] = j /\ Located(k, j)
  BY <1>2, <1>5, Here
<1>. QED BY <1>1, <1>6, <1>7, <1>8, MovesSame

LEMMA ConfigureKeeps ==
    ASSUME ScriptInv, Configure
    PROVE  ScriptInv'
<1>1. UNCHANGED <<tables, lock, units, pc, job, counters>>
  BY DEF Configure
<1>2. config' \in Policy
  BY FirewallAssumption, Types DEF Configure, ScriptInv, RestType, Policy
<1>3. RestType'
  BY <1>1, <1>2, Types DEF ScriptInv, RestType, units, counters
<1>4. ProcType'
  BY <1>1, Types DEF ScriptInv, ProcType
<1>5. \A q \in Process : \E k, j : pc'[q] = k /\ job'[q] = j /\ Located(k, j)
  BY <1>1 DEF ScriptInv
<1>. QED BY <1>1, <1>3, <1>4, <1>5, MovesSame

LEMMA StartsKeep ==
    ASSUME ScriptInv,
           \/ \E p \in Operator : OperatorRuns(p)
           \/ StartService \/ StartRecover
    PROVE  ScriptInv'
<1>1. ASSUME NEW p \in Operator, OperatorRuns(p) PROVE ScriptInv'
  <2>1. PICK kind \in {"apply", "remove"} : Begin(p, kind)
    BY <1>1 DEF OperatorRuns
  <2>2. RestType'
    <3>1. runs' \in 0..MaxRuns
      BY <1>1, Types, FirewallAssumption DEF OperatorRuns, ScriptInv, RestType, Policy
    <3>. QED BY <1>1, <3>1, Types DEF OperatorRuns, ScriptInv, RestType, units
  <2>. QED BY <1>1, <2>1, <2>2, BeginKeeps DEF OperatorRuns, Process, Kind
<1>2. CASE StartService
  <2>1. RestType'
    BY <1>2, Types DEF StartService, ScriptInv, RestType, counters
  <2>. QED BY <1>2, <2>1, BeginKeeps DEF StartService, Process, Kind
<1>3. CASE StartRecover
  <2>1. RestType'
    BY <1>3, Types DEF StartRecover, ScriptInv, RestType, units, counters
  <2>. QED BY <1>3, <2>1, BeginKeeps DEF StartRecover, Process, Kind
<1>. QED BY <1>1, <1>2, <1>3

-----------------------------------------------------------------------------
(* Building and attaching.                                                 *)

LEMMA HookedSame ==
    ASSUME NEW f, NEW h, top'[f][h] = top[f][h]
    PROVE  Hooked(f, h)' = Hooked(f, h)
BY DEF Hooked

LEMMA FreshKept ==
    ASSUME NEW j, NEW h, NEW n, Fresh(j, h, n), top'[j.family][h] = top[j.family][h],
           chains'[j.family][h][j.new[h]] = chains[j.family][h][j.new[h]]
    PROVE  Fresh(j, h, n)'
BY HookedSame DEF Fresh

LEMMA HeadsKept ==
    ASSUME NEW j, NEW h, Heads(j, h), top'[j.family][h] = top[j.family][h]
    PROVE  Heads(j, h)'
BY HookedSame DEF Heads

\* A chain is there as soon as it has a policy, however many rules it has.
LEMMA ChainIsThere ==
    ASSUME NEW q \in Policy, NEW n \in 0..Rules
    PROVE  [policy |-> q, rules |-> n] \in ChainState \ {Absent}
BY FirewallAssumption DEF ChainState, Policy

\* A command on one chain that it does not delete while it is jumped to
LEMMA ChainSet ==
    ASSUME TablesType, HookedExist, JumpsOnce,
           NEW f \in Family, NEW h \in Hook, NEW c \in Chain, NEW v \in ChainState,
           SetsChain(f, h, c, v), UNCHANGED <<top, toDocker>>,
           c \in Hooked(f, h) => v # Absent
    PROVE  TablesType' /\ HookedExist' /\ JumpsOnce'
<1>1. /\ chains' \in [Family -> [Hook -> [Chain -> ChainState]]]
      /\ chains'[f][h][c] = v
      /\ \A g \in Family, k \in Hook, d \in Chain :
            g # f \/ k # h \/ d # c => chains'[g][k][d] = chains[g][k][d]
  BY ChainEffect
<1>2. \A g, k : Hooked(g, k)' = Hooked(g, k)
  BY HookedSame
<1>3. ASSUME NEW g \in Family, NEW k \in Hook, NEW d \in Chain, d \in Hooked(g, k)'
      PROVE  chains'[g][k][d] # Absent
  <2>1. d \in Hooked(g, k) /\ chains[g][k][d] # Absent
    BY <1>2, <1>3 DEF HookedExist, Exists
  <2>2. CASE g = f /\ k = h /\ d = c
    BY <1>1, <2>1, <2>2
  <2>3. CASE ~(g = f /\ k = h /\ d = c)
    BY <1>1, <2>1, <2>3
  <2>. QED BY <2>2, <2>3
<1>4. HookedExist'
  BY <1>3 DEF HookedExist, Exists
<1>. QED BY <1>1, <1>4 DEF TablesType, JumpsOnce, JumpOnce

LEMMA CreateKeeps ==
    ASSUME ScriptInv, NEW p \in Process, Create(p)
    PROVE  ScriptInv'
<1>. DEFINE f == job[p].family
            h == job[p].hook
            c == NewChain(f, h)
            v == [policy |-> job[p].policy, rules |-> 0]
<1>1. /\ pc[p] = "create" /\ \E name \in Chain : ~Exists(f, h, name)
      /\ SetsChain(f, h, c, v)
      /\ UNCHANGED <<config, top, toDocker, lock, units, counters>>
  BY DEF Create, SetsChain
<1>2. /\ f \in Family /\ h \in Hook /\ job[p].kind # "remove"
      /\ job[p].policy \in Policy /\ job[p].new \in [Hook -> Chain \cup {NoChain}]
  BY <1>1, Here DEF Job, Located, JobFits, Building, Cleaning
<1>3. c \in Chain /\ ~Exists(f, h, c)
  BY <1>1 DEF NewChain
<1>4. v \in ChainState \ {Absent}
  <2>1. 0 \in 0..Rules
    BY FirewallAssumption
  <2>. QED BY <1>2, <2>1, ChainIsThere
<1>5. c \notin Hooked(f, h)
  BY <1>2, <1>3, Here DEF HookedExist
<1>. HIDE DEF c, v
<1>6. TablesType' /\ HookedExist' /\ JumpsOnce'
  BY <1>1, <1>2, <1>3, <1>4, Here, ChainSet
<1>7. /\ chains'[f][h][c] = v
      /\ \A k \in Hook, d \in Chain : k # h => chains'[f][k][d] = chains[f][k][d]
  BY <1>1, <1>2, <1>3, <1>4, Here, ChainEffect
<1>8. RestType' /\ lock = p
  BY <1>1, Here DEF RestType, units, counters, Locked
<1>9. CASE h = "input"
  <2>1. Goto(p, "create", [job[p] EXCEPT !.new[h] = c, !.hook = "forward"])
    BY <1>9 DEF Create, c
  <2>2. PICK j : j = [job[p] EXCEPT !.new[h] = c, !.hook = "forward"]
    OBVIOUS
  <2>3. /\ j \in Job /\ j.family = f /\ j.policy = job[p].policy /\ j.kind = job[p].kind
        /\ j.hook = "forward" /\ j.new["input"] = c
    BY <1>2, <1>3, <1>9, <2>2, Here DEF Job, Hook
  <2>4. Fresh(j, "input", 0)'
    BY <1>1, <1>3, <1>5, <1>7, <1>9, <2>3, HookedSame DEF Fresh, v
  <2>5. Located("create", j)'
    <3>1. JobFits("create", j)
      BY <1>2, <2>3 DEF JobFits, Building, Cleaning
    <3>2. JobFits("create", j)'
      BY <3>1 DEF JobFits
    <3>3. Built("create", j)' /\ Cleaned("create", j)'
      BY <2>4 DEF Built, Cleaned, Cleaning
    <3>. QED BY <3>2, <3>3 DEF Located
  <2>6. "create" \in PC
    BY DEF PC, Locked
  <2>. QED BY <1>1, <1>6, <1>8, <2>1, <2>2, <2>3, <2>5, <2>6, Continues
<1>10. CASE h = "forward"
  <2>1. Goto(p, "build", [job[p] EXCEPT !.new[h] = c, !.hook = "input"])
    BY <1>10 DEF Create, c
  <2>2. PICK j : j = [job[p] EXCEPT !.new[h] = c, !.hook = "input"]
    OBVIOUS
  <2>3. /\ j \in Job /\ j.family = f /\ j.policy = job[p].policy /\ j.kind = job[p].kind
        /\ j.hook = "input" /\ j.new["forward"] = c /\ j.new["input"] = job[p].new["input"]
    BY <1>2, <1>3, <1>10, <2>2, Here DEF Job, Hook
  <2>4. Fresh(j, "forward", 0)'
    BY <1>1, <1>3, <1>5, <1>7, <1>10, <2>3, HookedSame DEF Fresh, v
  <2>5. Fresh(j, "input", 0)'
    <3>1. Fresh(j, "input", 0)
      BY <1>1, <1>10, <2>3, Here DEF Located, Built, Fresh
    <3>2. j.new["input"] \in Chain
      BY <3>1 DEF Fresh
    <3>. QED BY <1>1, <1>7, <1>10, <2>3, <3>1, <3>2, FreshKept DEF Hook
  <2>6. Located("build", j)'
    <3>1. JobFits("build", j)
      BY <1>2, <2>3 DEF JobFits, Building, Cleaning
    <3>2. JobFits("build", j)'
      BY <3>1 DEF JobFits
    <3>3. 0 \in 0..(Rules - 1)
      BY FirewallAssumption
    <3>4. Built("build", j)' /\ Cleaned("build", j)'
      BY <2>3, <2>4, <2>5, <3>3 DEF Built, Cleaned, Cleaning
    <3>. QED BY <3>2, <3>4 DEF Located
  <2>7. "build" \in PC /\ "build" \in Locked /\ "create" \in Locked
    BY DEF PC, Locked
  <2>. QED BY <1>1, <1>6, <1>8, <2>1, <2>2, <2>3, <2>6, <2>7, Continues
<1>. QED BY <1>2, <1>9, <1>10 DEF Hook

\* What Build does to the chain of the hook: the other new chain stays.
LEMMA BuildEffect ==
    ASSUME ScriptInv, NEW p \in Process, Build(p)
    PROVE  LET f == job[p].family
               h == job[p].hook
               c == job[p].new[h]
           IN  \E n \in 1..Rules :
               /\ n = chains[f][h][c].rules + 1
               /\ f \in Family /\ h \in Hook /\ c \in Chain \ Hooked(f, h)
               /\ SetsChain(f, h, c, [policy |-> job[p].policy, rules |-> n])
               /\ [policy |-> job[p].policy, rules |-> n] \in ChainState \ {Absent}
               /\ h = "input" => Fresh(job[p], "forward", 0)
               /\ h = "forward" => Fresh(job[p], "input", Rules)
               /\ job[p].kind # "remove" /\ job[p].policy \in Policy
<1>. DEFINE f == job[p].family
            h == job[p].hook
            c == job[p].new[h]
<1>1. /\ pc[p] = "build"
      /\ chains' = [chains EXCEPT ![f][h][c].rules = chains[f][h][c].rules + 1]
  BY DEF Build
<1>2. /\ f \in Family /\ h \in Hook /\ job[p].kind # "remove" /\ job[p].policy \in Policy
  BY <1>1, Here DEF Job, Located, JobFits, Building, Cleaning
<1>3. PICK m \in 0..(Rules - 1) : Fresh(job[p], h, m)
  BY <1>1, <1>2, Here DEF Located, Built, Hook
<1>4. c \in Chain \ Hooked(f, h) /\ chains[f][h][c] = [policy |-> job[p].policy, rules |-> m]
  BY <1>3 DEF Fresh
<1>5. PICK n \in 1..Rules : n = m + 1
  BY FirewallAssumption
<1>6. chains[f][h][c].rules + 1 = n
  BY <1>4, <1>5
<1>7. [policy |-> job[p].policy, rules |-> n] \in ChainState \ {Absent}
  <2>1. n \in 0..Rules
    BY FirewallAssumption
  <2>. QED BY <1>2, <2>1, ChainIsThere
<1>8. SetsChain(f, h, c, [policy |-> job[p].policy, rules |-> n])
  <2>1. [chains[f][h][c] EXCEPT !.rules = n] = [policy |-> job[p].policy, rules |-> n]
    BY <1>4
  <2>2. chains' = [chains EXCEPT ![f][h][c] = [chains[f][h][c] EXCEPT !.rules = n]]
    BY <1>1, <1>6
  <2>. QED BY <2>1, <2>2 DEF SetsChain
<1>9. /\ h = "input" => Fresh(job[p], "forward", 0)
      /\ h = "forward" => Fresh(job[p], "input", Rules)
  BY <1>1, Here DEF Located, Built
<1>. QED BY <1>2, <1>4, <1>6, <1>7, <1>8, <1>9

LEMMA BuildKeeps ==
    ASSUME ScriptInv, NEW p \in Process, Build(p)
    PROVE  ScriptInv'
<1>0. PICK f, h, c : f = job[p].family /\ h = job[p].hook /\ c = job[p].new[h]
  OBVIOUS
<1>1. PICK n \in 1..Rules :
               /\ n = chains[f][h][c].rules + 1
               /\ f \in Family /\ h \in Hook /\ c \in Chain \ Hooked(f, h)
               /\ SetsChain(f, h, c, [policy |-> job[p].policy, rules |-> n])
               /\ [policy |-> job[p].policy, rules |-> n] \in ChainState \ {Absent}
               /\ h = "input" => Fresh(job[p], "forward", 0)
               /\ h = "forward" => Fresh(job[p], "input", Rules)
               /\ job[p].kind # "remove" /\ job[p].policy \in Policy
  BY <1>0, BuildEffect
<1>2. pc[p] = "build" /\ UNCHANGED <<config, top, toDocker, lock, units, counters>>
  BY DEF Build
<1>3. TablesType' /\ HookedExist' /\ JumpsOnce'
  BY <1>1, <1>2, Here, ChainSet
<1>4. /\ chains'[f][h][c] = [policy |-> job[p].policy, rules |-> n]
      /\ \A k \in Hook, d \in Chain : k # h => chains'[f][k][d] = chains[f][k][d]
  <2>. DEFINE v == [policy |-> job[p].policy, rules |-> n]
  <2>1. /\ f \in Family /\ h \in Hook /\ c \in Chain /\ v \in ChainState
        /\ SetsChain(f, h, c, v) /\ TablesType
    BY <1>1, Here
  <2>. HIDE DEF v
  <2>2. /\ chains'[f][h][c] = v
        /\ \A k \in Hook, d \in Chain : k # h => chains'[f][k][d] = chains[f][k][d]
    BY <2>1, ChainEffect
  <2>. QED BY <2>2 DEF v
<1>5. RestType' /\ lock = p
  BY <1>2, Here DEF RestType, units, counters, Locked
<1>6. ASSUME NEW j, j.family = f, j.policy = job[p].policy, j.new = job[p].new
      PROVE  /\ Fresh(j, h, n)'
             /\ h = "input" => Fresh(j, "forward", 0)'
             /\ h = "forward" => Fresh(j, "input", Rules)'
  <2>1. Fresh(j, h, n)'
    <3>1. Hooked(f, h)' = Hooked(f, h)
      BY <1>2, HookedSame
    <3>2. c \in Chain \ Hooked(f, h)
      BY <1>1
    <3>. QED BY <1>0, <1>4, <1>6, <3>1, <3>2 DEF Fresh
  <2>2. ASSUME h = "input" PROVE Fresh(j, "forward", 0)'
    <3>1. Fresh(j, "forward", 0) /\ j.new["forward"] \in Chain
      BY <1>0, <1>1, <1>6, <2>2 DEF Fresh
    <3>. QED BY <1>1, <1>2, <1>4, <1>6, <2>2, <3>1, FreshKept DEF Hook
  <2>3. ASSUME h = "forward" PROVE Fresh(j, "input", Rules)'
    <3>1. Fresh(j, "input", Rules) /\ j.new["input"] \in Chain
      BY <1>0, <1>1, <1>6, <2>3 DEF Fresh
    <3>. QED BY <1>1, <1>2, <1>4, <1>6, <2>3, <3>1, FreshKept DEF Hook
  <2>. QED BY <2>1, <2>2, <2>3
<1>12. /\ n < Rules => Goto(p, "build", job[p])
       /\ n = Rules /\ h = "input" => Goto(p, "build", [job[p] EXCEPT !.hook = "forward"])
       /\ n = Rules /\ h = "forward" => Goto(p, "attach", [job[p] EXCEPT !.hook = "input"])
  <2>1. chains[f][h][c].rules + 1 = n
    BY <1>1
  <2>5. n \in Int /\ Rules \in Int
    BY FirewallAssumption
  <2>6. (CASE n < Rules -> Goto(p, "build", job[p])
           [] n = Rules /\ h = "input" -> Goto(p, "build", [job[p] EXCEPT !.hook = "forward"])
           [] OTHER -> Goto(p, "attach", [job[p] EXCEPT !.hook = "input"]))
    BY <1>0, <2>1 DEF Build
  <2>2. CASE n < Rules
    BY <2>2, <2>5, <2>6
  <2>3. CASE n = Rules /\ h = "input"
    BY <2>3, <2>5, <2>6
  <2>4. CASE n = Rules /\ h = "forward"
    BY <2>4, <2>5, <2>6
  <2>. QED BY <2>2, <2>3, <2>4, <2>5
<1>7. /\ {"build", "attach"} \subseteq PC /\ {"build", "attach"} \subseteq Locked
  BY DEF PC, Locked
<1>8. CASE n < Rules
  <2>1. Goto(p, "build", job[p])
    BY <1>8, <1>12
  <2>2. PICK j \in Job : j = job[p]
    BY Here
  <2>3. JobFits("build", j)'
    BY <1>0, <1>1, <2>2 DEF JobFits, Building, Cleaning
  <2>4. n \in 0..(Rules - 1)
    BY <1>8, FirewallAssumption
  <2>5. Built("build", j)' /\ Cleaned("build", j)'
    <3>1. /\ Fresh(j, h, n)' /\ j.hook = h
          /\ h = "input" => Fresh(j, "forward", 0)'
          /\ h = "forward" => Fresh(j, "input", Rules)'
      BY <1>0, <1>6, <2>2
    <3>. QED BY <1>1, <2>4, <3>1 DEF Built, Cleaned, Cleaning
  <2>. QED BY <1>2, <1>3, <1>5, <1>7, <2>1, <2>2, <2>3, <2>5, Continues DEF Located
<1>9. CASE n = Rules /\ h = "input"
  <2>1. Goto(p, "build", [job[p] EXCEPT !.hook = "forward"])
    BY <1>9, <1>12
  <2>2. PICK j : j = [job[p] EXCEPT !.hook = "forward"]
    OBVIOUS
  <2>3. /\ j \in Job /\ j.family = f /\ j.policy = job[p].policy /\ j.kind = job[p].kind
        /\ j.hook = "forward" /\ j.new = job[p].new
    BY <1>0, <2>2, Here DEF Job, Hook
  <2>4. JobFits("build", j)'
    BY <1>1, <2>3 DEF JobFits, Building, Cleaning
  <2>5. 0 \in 0..(Rules - 1)
    BY FirewallAssumption
  <2>6. Built("build", j)' /\ Cleaned("build", j)'
    <3>1. Fresh(j, "input", Rules)' /\ Fresh(j, "forward", 0)'
      BY <1>0, <1>6, <1>9, <2>3
    <3>. QED BY <2>3, <2>5, <3>1 DEF Built, Cleaned, Cleaning
  <2>. QED BY <1>2, <1>3, <1>5, <1>7, <2>1, <2>2, <2>3, <2>4, <2>6, Continues DEF Located
<1>10. CASE n = Rules /\ h = "forward"
  <2>1. Goto(p, "attach", [job[p] EXCEPT !.hook = "input"])
    BY <1>10, <1>12
  <2>2. PICK j : j = [job[p] EXCEPT !.hook = "input"]
    OBVIOUS
  <2>3. /\ j \in Job /\ j.family = f /\ j.policy = job[p].policy /\ j.kind = job[p].kind
        /\ j.hook = "input" /\ j.new = job[p].new
    BY <1>0, <2>2, Here DEF Job, Hook
  <2>4. JobFits("attach", j)'
    BY <1>1, <2>3 DEF JobFits, Building, Cleaning
  <2>5. Built("attach", j)' /\ Cleaned("attach", j)'
    <3>1. Fresh(j, "input", Rules)' /\ Fresh(j, "forward", Rules)'
      BY <1>0, <1>6, <1>10, <2>3
    <3>. QED BY <2>3, <3>1 DEF Built, Cleaned, Cleaning
  <2>. QED BY <1>2, <1>3, <1>5, <1>7, <2>1, <2>2, <2>3, <2>4, <2>5, Continues DEF Located
<1>11. n < Rules \/ n = Rules
  BY FirewallAssumption
<1>. QED BY <1>1, <1>8, <1>9, <1>10, <1>11 DEF Hook

\* Chains that nothing jumps to are deleted.
LEMMA DiscardKeeps ==
    ASSUME ScriptInv, NEW p \in Process, Discard(p)
    PROVE  ScriptInv'
<1>. DEFINE f == job[p].family
            new == job[p].new
<1>1. /\ pc[p] = "build" /\ UNCHANGED <<top, toDocker>> /\ Exit(p)
      /\ chains' = [chains EXCEPT ![f] =
                       [h \in Hook |-> [chains[f][h] EXCEPT ![new[h]] = Absent]]]
  BY DEF Discard, ExitWith
<1>2. f \in Family /\ lock = p
  BY <1>1, Here DEF Job, Locked
<1>3. ASSUME NEW h \in Hook PROVE new[h] \in Chain \ Hooked(f, h)
  <2>1. job[p].hook \in Hook
    BY Here DEF Job
  <2>2. \E n : Fresh(job[p], h, n)
    BY <1>1, <2>1, Here DEF Located, Built, Hook
  <2>. QED BY <2>2 DEF Fresh
<1>4. /\ chains' \in [Family -> [Hook -> [Chain -> ChainState]]]
      /\ \A g \in Family, h \in Hook, d \in Chain :
            g # f \/ d # new[h] => chains'[g][h][d] = chains[g][h][d]
  BY <1>1, <1>2, <1>3, Here DEF TablesType, ChainState
<1>5. \A g, h : Hooked(g, h)' = Hooked(g, h)
  BY <1>1, HookedSame
<1>6. HookedExist'
  BY <1>3, <1>4, <1>5, Here DEF HookedExist, Exists
<1>7. TablesType' /\ JumpsOnce'
  BY <1>1, <1>4, Here DEF TablesType, JumpsOnce, JumpOnce
<1>8. RestType'
  BY Here, MishapType DEF Discard, ExitWith, RestType
<1>. QED BY <1>1, <1>2, <1>6, <1>7, <1>8, Exits

LEMMA RuleInserted ==
    ASSUME TablesType, HookedExist, JumpsOnce,
           NEW f \in Family, NEW h \in Hook, NEW x \in Chain \cup {Foreign},
           InsertsRule(f, h, x), UNCHANGED chains, toDocker' \in [Family -> BOOLEAN],
           x \in Chain => x \notin Hooked(f, h) /\ Exists(f, h, x)
    PROVE  TablesType' /\ HookedExist' /\ JumpsOnce'
<1>1. x \notin Hooked(f, h) /\ JumpOnce(f, h)
  BY FirewallAssumption DEF Hooked, JumpsOnce
<1>2. /\ top' \in [Family -> [Hook -> Seq(Chain \cup {Foreign})]]
      /\ \A g \in Family, k \in Hook : g # f \/ k # h => top'[g][k] = top[g][k]
      /\ Hooked(f, h)' = Hooked(f, h) \cup ({x} \cap Chain)
      /\ JumpOnce(f, h)'
  BY <1>1, InsertEffect
<1>3. ASSUME NEW g \in Family, NEW k \in Hook
      PROVE  JumpOnce(g, k)' /\ \A d \in Chain : d \in Hooked(g, k)' => Exists(g, k, d)'
  <2>1. CASE g = f /\ k = h
    BY <1>2, <2>1 DEF HookedExist, Exists
  <2>2. CASE ~(g = f /\ k = h)
    <3>1. top'[g][k] = top[g][k]
      BY <1>2, <2>2
    <3>2. Hooked(g, k)' = Hooked(g, k)
      BY <3>1, HookedSame
    <3>. QED BY <3>1, <3>2 DEF HookedExist, Exists, JumpsOnce, JumpOnce
  <2>. QED BY <2>1, <2>2
<1>. QED BY <1>2, <1>3 DEF TablesType, HookedExist, JumpsOnce

LEMMA RuleDeleted ==
    ASSUME TablesType, HookedExist, JumpsOnce,
           NEW f \in Family, NEW h \in Hook, NEW i \in DOMAIN top[f][h], top[f][h][i] \in Chain,
           DeletesRule(f, h, i), UNCHANGED <<chains, toDocker>>
    PROVE  TablesType' /\ HookedExist' /\ JumpsOnce'
<1>1. /\ top' \in [Family -> [Hook -> Seq(Chain \cup {Foreign})]]
      /\ \A g \in Family, k \in Hook : g # f \/ k # h => top'[g][k] = top[g][k]
      /\ Hooked(f, h)' = Hooked(f, h) \ {top[f][h][i]}
      /\ JumpOnce(f, h)'
  BY DeleteEffect DEF JumpsOnce
<1>2. ASSUME NEW g \in Family, NEW k \in Hook
      PROVE  JumpOnce(g, k)' /\ \A d \in Chain : d \in Hooked(g, k)' => Exists(g, k, d)'
  <2>1. CASE g = f /\ k = h
    BY <1>1, <2>1 DEF HookedExist, Exists
  <2>2. CASE ~(g = f /\ k = h)
    <3>1. top'[g][k] = top[g][k]
      BY <1>1, <2>2
    <3>2. Hooked(g, k)' = Hooked(g, k)
      BY <3>1, HookedSame
    <3>. QED BY <3>1, <3>2 DEF HookedExist, Exists, JumpsOnce, JumpOnce
  <2>. QED BY <2>1, <2>2
<1>. QED BY <1>1, <1>2 DEF TablesType, HookedExist, JumpsOnce

\* What Attach inserts
LEMMA AttachEffect ==
    ASSUME ScriptInv, NEW p \in Process, Attach(p)
    PROVE  \E f \in Family, h \in Hook, c \in Chain :
              /\ f = job[p].family /\ h = job[p].hook /\ c = job[p].new[h]
              /\ Fresh(job[p], h, Rules)
              /\ InsertsRule(f, h, c) /\ c \notin Hooked(f, h) /\ Exists(f, h, c)
              /\ job[p].kind # "remove" /\ job[p].policy \in Policy
<1>1. pc[p] = "attach" /\ job[p].family \in Family /\ job[p].hook \in Hook
  BY Here DEF Attach, Job
<1>2. job[p].kind # "remove" /\ job[p].policy \in Policy
  BY <1>1, Here DEF Located, JobFits, Building, Cleaning
<1>3. Fresh(job[p], job[p].hook, Rules)
  BY <1>1, Here DEF Located, Built, Hook
<1>4. PICK f, h, c : /\ f = job[p].family /\ h = job[p].hook /\ c = job[p].new[h]
                     /\ f \in Family /\ h \in Hook
  BY <1>1
<1>5. c \in Chain \ Hooked(f, h) /\ chains[f][h][c] = [policy |-> job[p].policy, rules |-> Rules]
  BY <1>3, <1>4 DEF Fresh
<1>6. Exists(f, h, c)
  <2>1. Rules \in 0..Rules
    BY FirewallAssumption
  <2>. QED BY <1>2, <1>5, <2>1, ChainIsThere DEF Exists
<1>7. InsertsRule(f, h, c)
  BY <1>4 DEF Attach, InsertsRule
<1>. QED BY <1>2, <1>3, <1>4, <1>5, <1>6, <1>7

LEMMA AttachKeeps ==
    ASSUME ScriptInv, NEW p \in Process, Attach(p)
    PROVE  ScriptInv'
<1>1. PICK f \in Family, h \in Hook, c \in Chain :
              /\ f = job[p].family /\ h = job[p].hook /\ c = job[p].new[h]
              /\ Fresh(job[p], h, Rules)
              /\ InsertsRule(f, h, c) /\ c \notin Hooked(f, h) /\ Exists(f, h, c)
              /\ job[p].kind # "remove" /\ job[p].policy \in Policy
  BY AttachEffect
<1>2. pc[p] = "attach" /\ UNCHANGED <<config, toDocker, chains, lock, units, counters>>
  BY DEF Attach
<1>3. TablesType' /\ HookedExist' /\ JumpsOnce'
  <2>1. toDocker' \in [Family -> BOOLEAN]
    BY <1>2, Here DEF TablesType
  <2>. QED BY <1>1, <1>2, <2>1, Here, RuleInserted
<1>4. /\ \A k \in Hook : k # h => top'[f][k] = top[f][k]
      /\ top'[f][h] # <<>> /\ Head(top'[f][h]) = c
      /\ Hooked(f, h)' = Hooked(f, h) \cup ({c} \cap Chain)
  BY <1>1, Here, InsertEffect
<1>5. RestType' /\ lock = p
  BY <1>2, Here DEF RestType, units, counters, Locked
<1>6. /\ {"docker", "list"} \subseteq PC /\ {"attach", "docker", "list"} \subseteq Locked
  BY DEF PC, Locked
<1>7. CASE h = "input"
  <2>1. Goto(p, "docker", job[p])
    BY <1>1, <1>7 DEF Attach
  <2>2. PICK j \in Job : j = job[p]
    BY Here
  <2>3. Heads(j, "input")'
    BY <1>1, <1>4, <1>7, <2>2 DEF Heads
  <2>4. Fresh(j, "forward", Rules)'
    <3>1. Fresh(j, "forward", Rules)
      BY <1>2, <2>2, Here DEF Located, Built
    <3>. QED BY <1>1, <1>2, <1>4, <1>7, <2>2, <3>1, FreshKept DEF Hook
  <2>5. JobFits("docker", j)'
    BY <1>1, <2>2 DEF JobFits, Building, Cleaning
  <2>6. Built("docker", j)' /\ Cleaned("docker", j)'
    BY <2>3, <2>4 DEF Built, Cleaned, Cleaning
  <2>. QED BY <1>2, <1>3, <1>5, <1>6, <2>1, <2>2, <2>5, <2>6, Continues DEF Located
<1>8. CASE h = "forward"
  <2>1. Goto(p, "list", [job[p] EXCEPT !.hook = "input"])
    BY <1>1, <1>8 DEF Attach
  <2>2. PICK j : j = [job[p] EXCEPT !.hook = "input"]
    OBVIOUS
  <2>3. /\ j \in Job /\ j.family = f /\ j.policy = job[p].policy /\ j.kind = job[p].kind
        /\ j.hook = "input" /\ j.new = job[p].new
    BY <1>1, <2>2, Here DEF Job, Hook
  <2>4. Heads(j, "forward")'
    BY <1>1, <1>4, <1>8, <2>3 DEF Heads
  <2>5. Heads(j, "input")'
    <3>1. Heads(job[p], "input")
      BY <1>1, <1>2, <1>8, Here DEF Located, Built
    <3>2. Heads(j, "input")
      BY <1>1, <2>3, <3>1 DEF Heads
    <3>. QED BY <1>1, <1>4, <1>8, <2>3, <3>2, HeadsKept DEF Hook
  <2>6. JobFits("list", j)'
    BY <1>1, <2>3 DEF JobFits, Building, Cleaning
  <2>7. Built("list", j)' /\ Cleaned("list", j)'
    BY <2>3, <2>4, <2>5 DEF Built, Cleaned, Cleaning
  <2>. QED BY <1>2, <1>3, <1>5, <1>6, <2>1, <2>2, <2>3, <2>6, <2>7, Continues DEF Located
<1>. QED BY <1>7, <1>8 DEF Hook

LEMMA DockerKeeps ==
    ASSUME ScriptInv, NEW p \in Process, EnsureDocker(p)
    PROVE  ScriptInv'
<1>1. /\ pc[p] = "docker" /\ UNCHANGED <<config, top, chains, lock, units, counters>>
      /\ Goto(p, "attach", [job[p] EXCEPT !.hook = "forward"])
      /\ toDocker' = [toDocker EXCEPT ![job[p].family] = TRUE]
  BY DEF EnsureDocker
<1>2. PICK j : j = [job[p] EXCEPT !.hook = "forward"]
  OBVIOUS
<1>3. /\ j \in Job /\ j.family = job[p].family /\ j.policy = job[p].policy
      /\ j.kind = job[p].kind /\ j.hook = "forward" /\ j.new = job[p].new
  BY <1>2, Here DEF Job, Hook
<1>4. Fresh(j, "forward", Rules)' /\ Heads(j, "input")'
  <2>1. Fresh(job[p], "forward", Rules) /\ Heads(job[p], "input")
    BY <1>1, Here DEF Located, Built
  <2>2. Fresh(j, "forward", Rules) /\ Heads(j, "input")
    BY <1>3, <2>1 DEF Fresh, Heads
  <2>. QED BY <1>1, <2>2, FreshKept, HeadsKept
<1>5. JobFits("attach", j)'
  BY <1>1, <1>3, Here DEF Located, JobFits, Building, Cleaning
<1>6. Built("attach", j)' /\ Cleaned("attach", j)'
  BY <1>3, <1>4 DEF Built, Cleaned, Cleaning
<1>7. TablesType' /\ JumpsOnce'
  BY <1>1, Here DEF TablesType, JumpsOnce, JumpOnce
<1>8. HookedExist'
  BY <1>1, Here DEF HookedExist, Hooked, Exists
<1>9. RestType' /\ lock = p
  BY <1>1, Here DEF RestType, units, counters, Locked
<1>10. "attach" \in PC /\ "attach" \in Locked /\ "docker" \in Locked
  BY DEF PC, Locked
<1>. QED BY <1>1, <1>2, <1>3, <1>5, <1>6, <1>7, <1>8, <1>9, <1>10, Continues DEF Located

-----------------------------------------------------------------------------
(* Cleaning up.                                                            *)

\* What holds each time the loop over the jumps of a hook goes on
Looping(j) ==
    /\ j.kind # "remove" => j.policy \in Policy /\ Heads(j, "input") /\ Heads(j, "forward")
    /\ j.kind = "remove" => j.new = [h \in Hook |-> NoChain]
    /\ j.new[j.hook] \notin j.stale
    /\ ~j.skipped =>
          /\ Hooked(j.family, j.hook) \subseteq Mine(j, j.hook) \cup j.stale
          /\ j.hook = "forward" => Hooked(j.family, "input") \subseteq Mine(j, "input")

LEMMA LoopingSame ==
    ASSUME UNCHANGED top, NEW j, Looping(j)
    PROVE  Looping(j)'
<1>1. \A f, h : Hooked(f, h)' = Hooked(f, h)
  BY HookedSame
<1>2. \A h : Heads(j, h)' <=> Heads(j, h)
  BY <1>1 DEF Heads
<1>. QED BY <1>1, <1>2 DEF Looping, Mine

LEMMA NextJumpFits ==
    ASSUME NEW p, NEW j \in Job, NextJump(p, j), Looping(j)'
    PROVE  \E l \in {"unhook", "list", "orphans"}, k \in Job : Goto(p, l, k) /\ Located(l, k)'
<1>1. j.hook \in Hook /\ j.stale \subseteq Chain
  BY DEF Job
<1>2. CASE j.stale # {}
  <2>1. Goto(p, "unhook", j)
    BY <1>2 DEF NextJump
  <2>2. JobFits("unhook", j)' /\ Built("unhook", j)' /\ Cleaned("unhook", j)'
    BY DEF Looping, JobFits, Built, Cleaned, Building, Cleaning, Mine
  <2>. QED BY <2>1, <2>2 DEF Located
<1>3. CASE j.stale = {} /\ j.hook = "input"
  <2>1. Goto(p, "list", [j EXCEPT !.hook = "forward"])
    BY <1>3 DEF NextJump
  <2>2. PICK k : k = [j EXCEPT !.hook = "forward"]
    OBVIOUS
  <2>3. /\ k \in Job /\ k.family = j.family /\ k.policy = j.policy /\ k.kind = j.kind
        /\ k.hook = "forward" /\ k.new = j.new /\ k.skipped = j.skipped
    BY <2>2 DEF Job, Hook
  <2>4. JobFits("list", k)'
    BY <2>3 DEF Looping, JobFits, Building, Cleaning
  <2>5. Built("list", k)'
    BY <2>3 DEF Looping, Heads, Built, Cleaning
  <2>6. Cleaned("list", k)'
    BY <1>3, <2>3 DEF Looping, Cleaned, Mine
  <2>. QED BY <2>1, <2>2, <2>3, <2>4, <2>5, <2>6 DEF Located
<1>4. CASE j.stale = {} /\ j.hook = "forward"
  <2>1. Goto(p, "orphans", [j EXCEPT !.hook = "input"])
    BY <1>4 DEF NextJump
  <2>2. PICK k : k = [j EXCEPT !.hook = "input"]
    OBVIOUS
  <2>3. /\ k \in Job /\ k.family = j.family /\ k.policy = j.policy /\ k.kind = j.kind
        /\ k.hook = "input" /\ k.new = j.new /\ k.skipped = j.skipped
    BY <2>2 DEF Job, Hook
  <2>4. JobFits("orphans", k)'
    BY <2>3 DEF Looping, JobFits, Building, Cleaning
  <2>5. Built("orphans", k)'
    BY <2>3 DEF Looping, Heads, Built, Cleaning
  <2>6. Cleaned("orphans", k)'
    BY <1>4, <2>3 DEF Looping, Cleaned, Mine, Hook
  <2>. QED BY <2>1, <2>2, <2>3, <2>4, <2>5, <2>6 DEF Located
<1>. QED BY <1>1, <1>2, <1>3, <1>4 DEF Hook

LEMMA LoopKeeps ==
    ASSUME ScriptInv, NEW p \in Process, NEW j \in Job, NextJump(p, j), Looping(j)',
           pc[p] \in Locked, lock' = lock,
           RestType', TablesType', HookedExist', JumpsOnce'
    PROVE  ScriptInv'
<1>1. PICK l \in {"unhook", "list", "orphans"}, k \in Job : Goto(p, l, k) /\ Located(l, k)'
  BY NextJumpFits
<1>2. l \in PC /\ l \in Locked
  BY DEF PC, Locked
<1>3. lock = p
  BY Here
<1>. QED BY <1>1, <1>2, <1>3, Continues

\* What a process knows in every part of its clean-up
LEMMA CleaningKnows ==
    ASSUME ScriptInv, NEW p \in Process, pc[p] \in Cleaning
    PROVE  /\ pc[p] \in Locked /\ lock = p
           /\ job[p].family \in Family /\ job[p].hook \in Hook
           /\ job[p].stale \subseteq Chain
           /\ job[p].new \in [Hook -> Chain \cup {NoChain}]
           /\ job[p].kind # "remove" => /\ job[p].policy \in Policy
                                        /\ Heads(job[p], "input") /\ Heads(job[p], "forward")
           /\ job[p].kind = "remove" => job[p].new = [h \in Hook |-> NoChain]
           /\ JobFits(pc[p], job[p]) /\ Cleaned(pc[p], job[p])
<1>1. pc[p] \in Locked
  BY DEF Cleaning, Locked
<1>2. job[p] \in Job /\ JobFits(pc[p], job[p]) /\ Built(pc[p], job[p]) /\ Cleaned(pc[p], job[p])
  BY Here DEF Located
<1>3. /\ job[p].kind # "remove" => /\ job[p].policy \in Policy
                                   /\ Heads(job[p], "input") /\ Heads(job[p], "forward")
      /\ job[p].kind = "remove" => job[p].new = [h \in Hook |-> NoChain]
  BY <1>2 DEF JobFits, Built
<1>4. /\ job[p].family \in Family /\ job[p].hook \in Hook
      /\ job[p].stale \subseteq Chain
      /\ job[p].new \in [Hook -> Chain \cup {NoChain}]
  BY <1>2 DEF Job
<1>. QED BY <1>1, <1>2, <1>3, <1>4, Here

LEMMA ListKeeps ==
    ASSUME ScriptInv, NEW p \in Process, List(p)
    PROVE  ScriptInv'
<1>1. PICK fails \in BOOLEAN :
         /\ IF fails THEN Mishap ELSE UNCHANGED mishaps
         /\ NextJump(p, [job[p] EXCEPT !.stale = IF fails THEN {} ELSE Stale(p),
                                       !.skipped = @ \/ fails])
  BY DEF List
<1>2. pc[p] = "list" /\ pc[p] \in Cleaning /\ UNCHANGED <<config, tables, lock, units, runs>>
  BY DEF List, Cleaning
<1>3. Stale(p) = Hooked(job[p].family, job[p].hook) \ {job[p].new[job[p].hook]}
      /\ Stale(p) \subseteq Chain
  BY DEF Stale, Hooked
<1>4. PICK j : j = [job[p] EXCEPT !.stale = IF fails THEN {} ELSE Stale(p),
                                 !.skipped = @ \/ fails]
  OBVIOUS
<1>5. /\ j.family = job[p].family /\ j.policy = job[p].policy /\ j.kind = job[p].kind
      /\ j.hook = job[p].hook /\ j.new = job[p].new
      /\ j.stale = IF fails THEN {} ELSE Stale(p)
      /\ j.skipped = (job[p].skipped \/ fails)
      /\ j \in Job
  BY <1>3, <1>4, Here DEF Job
<1>6. Looping(j)
  <2>1. /\ j.kind # "remove" => j.policy \in Policy /\ Heads(j, "input") /\ Heads(j, "forward")
        /\ j.kind = "remove" => j.new = [h \in Hook |-> NoChain]
    BY <1>2, <1>5, CleaningKnows DEF Heads
  <2>2. j.new[j.hook] \notin j.stale
    BY <1>3, <1>5
  <2>3. ASSUME ~j.skipped
        PROVE  /\ Hooked(j.family, j.hook) \subseteq Mine(j, j.hook) \cup j.stale
               /\ j.hook = "forward" => Hooked(j.family, "input") \subseteq Mine(j, "input")
    <3>1. ~job[p].skipped /\ ~fails
      BY <1>5, <2>3
    <3>2. Hooked(j.family, j.hook) \subseteq Mine(j, j.hook) \cup j.stale
      BY <1>3, <1>5, <3>1, FirewallAssumption DEF Mine, Hooked
    <3>3. j.hook = "forward" => Hooked(j.family, "input") \subseteq Mine(j, "input")
      BY <1>2, <1>5, <3>1, CleaningKnows DEF Cleaned, Mine
    <3>. QED BY <3>2, <3>3
  <2>. QED BY <2>1, <2>2, <2>3 DEF Looping
<1>7. Looping(j)'
  BY <1>2, <1>6, LoopingSame DEF tables
<1>8. RestType'
  BY <1>1, <1>2, Here, MishapType DEF RestType, units
<1>9. TablesType' /\ HookedExist' /\ JumpsOnce'
  BY <1>2, Here, TablesSame
<1>. QED BY <1>1, <1>2, <1>4, <1>5, <1>7, <1>8, <1>9, CleaningKnows, LoopKeeps

\* The two ways in which Unhook takes a jump off its list
LEMMA UnhookCases ==
    ASSUME ScriptInv, NEW p \in Process, Unhook(p)
    PROVE  \E f \in Family, h \in Hook, c \in Chain, failed \in BOOLEAN :
              /\ f = job[p].family /\ h = job[p].hook /\ c \in job[p].stale
              /\ c # job[p].new[h]
              /\ Goto(p, "drop", [job[p] EXCEPT !.target = c, !.stale = @ \ {c},
                                                !.skipped = @ \/ failed])
              /\ failed => job[p].kind = "remove" /\ Mishap /\ UNCHANGED top
              /\ ~failed => /\ UNCHANGED mishaps
                            /\ \E i \in DOMAIN top[f][h] :
                                  top[f][h][i] = c /\ DeletesRule(f, h, i)
<1>1. pc[p] = "unhook" /\ pc[p] \in Cleaning
  BY DEF Unhook, Cleaning
<1>2. PICK f \in Family, h \in Hook : f = job[p].family /\ h = job[p].hook
  BY <1>1, CleaningKnows
<1>3. job[p].stale \subseteq Chain /\ job[p].new[h] \notin job[p].stale
  BY <1>1, <1>2, CleaningKnows DEF JobFits
<1>4. CASE \E i \in DOMAIN top[f][h] :
              /\ top[f][h][i] \in job[p].stale
              /\ top' = [top EXCEPT ![f][h] = RemoveAt(@, i)]
              /\ Goto(p, "drop", [job[p] EXCEPT !.target = top[f][h][i],
                                                !.stale = @ \ {top[f][h][i]}])
              /\ UNCHANGED mishaps
  <2>1. PICK i \in DOMAIN top[f][h] :
              /\ top[f][h][i] \in job[p].stale
              /\ top' = [top EXCEPT ![f][h] = RemoveAt(@, i)]
              /\ Goto(p, "drop", [job[p] EXCEPT !.target = top[f][h][i],
                                                !.stale = @ \ {top[f][h][i]}])
              /\ UNCHANGED mishaps
    BY <1>4
  <2>2. PICK c : c = top[f][h][i]
    OBVIOUS
  <2>3. c \in Chain /\ c \in job[p].stale /\ c # job[p].new[h]
    BY <1>3, <2>1, <2>2
  <2>4. DeletesRule(f, h, i)
    BY <2>1 DEF DeletesRule
  <2>5. [job[p] EXCEPT !.target = c, !.stale = @ \ {c}, !.skipped = @ \/ FALSE]
           = [job[p] EXCEPT !.target = c, !.stale = @ \ {c}]
    <3>1. job[p].skipped \in BOOLEAN
      BY Here DEF Job
    <3>2. (job[p].skipped \/ FALSE) = job[p].skipped
      BY <3>1
    <3>. QED BY <3>2, Here DEF Job
  <2>. QED BY <1>2, <2>1, <2>2, <2>3, <2>4, <2>5
<1>5. CASE /\ job[p].kind = "remove"
           /\ Mishap
           /\ \E c \in job[p].stale :
                 Goto(p, "drop", [job[p] EXCEPT !.target = c, !.skipped = TRUE,
                                                !.stale = @ \ {c}])
           /\ UNCHANGED top
  <2>1. PICK c \in job[p].stale :
                 Goto(p, "drop", [job[p] EXCEPT !.target = c, !.skipped = TRUE,
                                                !.stale = @ \ {c}])
    BY <1>5
  <2>2. c \in Chain /\ c # job[p].new[h]
    BY <1>3
  <2>3. [job[p] EXCEPT !.target = c, !.stale = @ \ {c}, !.skipped = @ \/ TRUE]
           = [job[p] EXCEPT !.target = c, !.skipped = TRUE, !.stale = @ \ {c}]
    BY Here DEF Job
  <2>. QED BY <1>2, <1>5, <2>1, <2>2, <2>3
<1>. QED BY <1>2, <1>4, <1>5 DEF Unhook

LEMMA UnhookKeeps ==
    ASSUME ScriptInv, NEW p \in Process, Unhook(p)
    PROVE  ScriptInv'
<1>1. PICK f \in Family, h \in Hook, c \in Chain, failed \in BOOLEAN :
              /\ f = job[p].family /\ h = job[p].hook /\ c \in job[p].stale
              /\ c # job[p].new[h]
              /\ Goto(p, "drop", [job[p] EXCEPT !.target = c, !.stale = @ \ {c},
                                                !.skipped = @ \/ failed])
              /\ failed => job[p].kind = "remove" /\ Mishap /\ UNCHANGED top
              /\ ~failed => /\ UNCHANGED mishaps
                            /\ \E i \in DOMAIN top[f][h] :
                                  top[f][h][i] = c /\ DeletesRule(f, h, i)
  BY UnhookCases
<1>2. /\ pc[p] = "unhook" /\ pc[p] \in Cleaning
      /\ UNCHANGED <<config, toDocker, chains, lock, units, runs>>
  BY DEF Unhook, Cleaning
<1>3. PICK j : j = [job[p] EXCEPT !.target = c, !.stale = @ \ {c}, !.skipped = @ \/ failed]
  OBVIOUS
<1>4. /\ j.family = f /\ j.policy = job[p].policy /\ j.kind = job[p].kind
      /\ j.hook = h /\ j.new = job[p].new /\ j.target = c
      /\ j.stale = job[p].stale \ {c} /\ j.skipped = (job[p].skipped \/ failed)
      /\ j \in Job
  BY <1>1, <1>3, Here DEF Job
<1>5. RestType'
  BY <1>1, <1>2, Here, MishapType DEF RestType, units
<1>6. JobFits("drop", j)'
  <2>1. JobFits("unhook", job[p])
    BY <1>2, CleaningKnows
  <2>. QED BY <1>1, <1>4, <2>1 DEF JobFits, Building, Cleaning
<1>7. CASE failed
  <2>1. UNCHANGED tables /\ job[p].kind = "remove"
    BY <1>1, <1>2, <1>7 DEF tables
  <2>2. TablesType' /\ HookedExist' /\ JumpsOnce'
    BY <2>1, Here, TablesSame
  <2>3. Built("drop", j)' /\ Cleaned("drop", j)'
    BY <1>4, <1>7, <2>1 DEF Built, Cleaned
  <2>. QED BY <1>1, <1>2, <1>3, <1>4, <1>5, <1>6, <2>2, <2>3, CleaningKnows, Continues
       DEF Located, PC, Locked
<1>8. CASE ~failed
  <2>1. PICK i \in DOMAIN top[f][h] : top[f][h][i] = c /\ DeletesRule(f, h, i)
    BY <1>1, <1>8
  <2>2. TablesType' /\ HookedExist' /\ JumpsOnce'
    BY <1>2, <2>1, Here, RuleDeleted
  <2>3. /\ \A k \in Hook : k # h => top'[f][k] = top[f][k]
        /\ Hooked(f, h)' = Hooked(f, h) \ {c}
        /\ Head(top[f][h]) # c => Head(top'[f][h]) = Head(top[f][h])
    BY <2>1, Here, DeleteEffect DEF JumpsOnce
  <2>4. ASSUME job[p].kind # "remove", NEW k \in Hook PROVE Heads(j, k)'
    <3>1. Heads(job[p], k)
      BY <1>2, <2>4, CleaningKnows DEF Hook
    <3>2. Heads(j, k)
      BY <1>1, <1>4, <3>1 DEF Heads
    <3>3. CASE k = h
      BY <1>1, <1>4, <2>3, <3>2, <3>3, FirewallAssumption DEF Heads
    <3>4. CASE k # h
      BY <1>4, <2>3, <3>2, <3>4, HeadsKept
    <3>. QED BY <3>3, <3>4
  <2>5. Built("drop", j)'
    BY <1>4, <2>4 DEF Built, Hook
  <2>6. Cleaned("drop", j)'
    <3>1. Cleaned("unhook", job[p])
      BY <1>2, CleaningKnows
    <3>2. h = "forward" => Hooked(f, "input")' = Hooked(f, "input")
      BY <2>3, HookedSame DEF Hook
    <3>. QED BY <1>1, <1>4, <2>3, <3>1, <3>2 DEF Cleaned, Mine
  <2>. QED BY <1>1, <1>2, <1>3, <1>4, <1>5, <1>6, <2>2, <2>5, <2>6, CleaningKnows, Continues
       DEF Located, PC, Locked
<1>. QED BY <1>7, <1>8

\* -F and -X of a chain: only a chain that nothing jumps to goes away.
LEMMA DropEffect ==
    ASSUME TablesType, HookedExist, JumpsOnce, mishaps \in 0..MaxMishaps,
           NEW f \in Family, NEW h \in Hook, NEW c \in Chain, NEW fails \in BOOLEAN,
           DropChain(f, h, c, fails), UNCHANGED <<top, toDocker>>
    PROVE  /\ TablesType' /\ HookedExist' /\ JumpsOnce' /\ mishaps' \in 0..MaxMishaps
           /\ \A g \in Family, k \in Hook, d \in Chain :
                 g # f \/ k # h \/ d # c => chains'[g][k][d] = chains[g][k][d]
           /\ ~fails /\ c \notin Hooked(f, h) => chains'[f][h][c] = Absent
<1>1. CASE fails
  <2>1. UNCHANGED tables /\ Mishap
    BY <1>1 DEF DropChain, tables
  <2>. QED BY <1>1, <2>1, TablesSame, MishapType DEF tables
<1>2. CASE ~fails
  <2>. DEFINE v == Dropped(f, h, c)
  <2>1. SetsChain(f, h, c, v) /\ UNCHANGED mishaps
    BY <1>2 DEF DropChain, SetsChain
  <2>2. chains[f][h][c] \in ChainState
    BY DEF TablesType
  <2>3. /\ v \in ChainState
        /\ c \in Hooked(f, h) => v # Absent
        /\ c \notin Hooked(f, h) => v = Absent
    <3>1. CASE c \notin Hooked(f, h)
      BY <3>1 DEF Dropped, ChainState
    <3>2. CASE c \in Hooked(f, h)
      <4>1. chains[f][h][c] # Absent
        BY <3>2 DEF HookedExist, Exists
      <4>2. v = [chains[f][h][c] EXCEPT !.rules = 0]
        BY <3>2, <4>1 DEF Dropped
      <4>3. chains[f][h][c] \in [policy : Policy, rules : 0..Rules]
        BY <2>2, <4>1 DEF ChainState
      <4>4. v = [policy |-> chains[f][h][c].policy, rules |-> 0]
        BY <4>2, <4>3
      <4>5. 0 \in 0..Rules /\ chains[f][h][c].policy \in Policy
        BY <4>3, FirewallAssumption
      <4>. QED BY <3>2, <4>4, <4>5, ChainIsThere
    <3>. QED BY <3>1, <3>2
  <2>. HIDE DEF v
  <2>4. TablesType' /\ HookedExist' /\ JumpsOnce'
    BY <2>1, <2>3, ChainSet
  <2>5. /\ chains'[f][h][c] = v
        /\ \A g \in Family, k \in Hook, d \in Chain :
              g # f \/ k # h \/ d # c => chains'[g][k][d] = chains[g][k][d]
    BY <2>1, <2>3, ChainEffect
  <2>. QED BY <2>1, <2>3, <2>4, <2>5
<1>. QED BY <1>1, <1>2

LEMMA DropKeeps ==
    ASSUME ScriptInv, NEW p \in Process, Drop(p)
    PROVE  ScriptInv'
<1>1. PICK fails \in BOOLEAN :
         /\ DropChain(job[p].family, job[p].hook, job[p].target, fails)
         /\ NextJump(p, [job[p] EXCEPT !.target = NoChain, !.skipped = @ \/ fails])
  BY DEF Drop
<1>2. /\ pc[p] = "drop" /\ pc[p] \in Cleaning
      /\ UNCHANGED <<config, top, toDocker, lock, units, runs>>
  BY DEF Drop, Cleaning
<1>3. job[p].target \in Chain
  BY <1>2, CleaningKnows DEF JobFits
<1>4. PICK j : j = [job[p] EXCEPT !.target = NoChain, !.skipped = @ \/ fails]
  OBVIOUS
<1>5. /\ j.family = job[p].family /\ j.policy = job[p].policy /\ j.kind = job[p].kind
      /\ j.hook = job[p].hook /\ j.new = job[p].new /\ j.stale = job[p].stale
      /\ j.skipped = (job[p].skipped \/ fails)
      /\ j \in Job
  BY <1>4, Here DEF Job
<1>6. Looping(j)
  <2>1. /\ j.kind # "remove" => j.policy \in Policy /\ Heads(j, "input") /\ Heads(j, "forward")
        /\ j.kind = "remove" => j.new = [h \in Hook |-> NoChain]
    BY <1>2, <1>5, CleaningKnows DEF Heads
  <2>2. j.new[j.hook] \notin j.stale
    BY <1>2, <1>5, CleaningKnows DEF JobFits
  <2>3. ~j.skipped =>
           /\ Hooked(j.family, j.hook) \subseteq Mine(j, j.hook) \cup j.stale
           /\ j.hook = "forward" => Hooked(j.family, "input") \subseteq Mine(j, "input")
    BY <1>2, <1>5, CleaningKnows DEF Cleaned, Mine
  <2>. QED BY <2>1, <2>2, <2>3 DEF Looping
<1>7. Looping(j)'
  BY <1>2, <1>6, LoopingSame
<1>8. mishaps' \in 0..MaxMishaps /\ TablesType' /\ HookedExist' /\ JumpsOnce'
  BY <1>1, <1>2, <1>3, Here, CleaningKnows, DropEffect DEF RestType
<1>9. RestType'
  BY <1>2, <1>8, Here DEF RestType, units
<1>. QED BY <1>1, <1>2, <1>4, <1>5, <1>7, <1>8, <1>9, CleaningKnows, LoopKeeps

LEMMA ListOrphansKeeps ==
    ASSUME ScriptInv, NEW p \in Process, ListOrphans(p)
    PROVE  ScriptInv'
<1>1. PICK fails \in BOOLEAN :
         /\ IF fails THEN Mishap ELSE UNCHANGED mishaps
         /\ Goto(p, "sweep", [job[p] EXCEPT !.stale = IF fails THEN {} ELSE Orphans(p),
                                            !.skipped = @ \/ fails])
  BY DEF ListOrphans
<1>2. pc[p] = "orphans" /\ pc[p] \in Cleaning /\ UNCHANGED <<config, tables, lock, units, runs>>
  BY DEF ListOrphans, Cleaning
<1>3. /\ Orphans(p) = Existing(job[p].family, job[p].hook) \ {job[p].new[job[p].hook]}
      /\ Orphans(p) \subseteq Chain
  BY DEF Orphans, Existing
<1>4. PICK j : j = [job[p] EXCEPT !.stale = IF fails THEN {} ELSE Orphans(p),
                                 !.skipped = @ \/ fails]
  OBVIOUS
<1>5. /\ j.family = job[p].family /\ j.policy = job[p].policy /\ j.kind = job[p].kind
      /\ j.hook = job[p].hook /\ j.new = job[p].new
      /\ j.stale = IF fails THEN {} ELSE Orphans(p)
      /\ j.skipped = (job[p].skipped \/ fails)
      /\ j \in Job
  BY <1>3, <1>4, Here DEF Job
<1>6. JobFits("sweep", j)
  BY <1>2, <1>3, <1>5, CleaningKnows DEF JobFits, Building, Cleaning
<1>7. Built("sweep", j)
  BY <1>2, <1>5, CleaningKnows DEF Built, Heads
<1>8. Cleaned("sweep", j)
  <2>. SUFFICES ASSUME ~j.skipped PROVE Cleaned("sweep", j)
    BY DEF Cleaned
  <2>1. ~job[p].skipped /\ ~fails
    BY <1>5
  <2>2. Existing(j.family, j.hook) \subseteq Mine(j, j.hook) \cup j.stale
    BY <1>3, <1>5, <2>1, FirewallAssumption DEF Mine, Existing
  <2>3. Cleaned("orphans", job[p])
    BY <1>2, CleaningKnows
  <2>. QED BY <1>5, <2>1, <2>2, <2>3 DEF Cleaned, Mine
<1>9. RestType'
  BY <1>1, <1>2, Here, MishapType DEF RestType, units
<1>10. "sweep" \in PC /\ "sweep" \in Locked
  BY DEF PC, Locked
<1>. QED BY <1>1, <1>2, <1>4, <1>5, <1>6, <1>7, <1>8, <1>9, <1>10, CleaningKnows, ContinuesSame
     DEF Located

LEMMA SweepKeeps ==
    ASSUME ScriptInv, NEW p \in Process, Sweep(p)
    PROVE  ScriptInv'
<1>1. PICK c \in job[p].stale, fails \in BOOLEAN :
         /\ DropChain(job[p].family, job[p].hook, c, fails)
         /\ Goto(p, "sweep", [job[p] EXCEPT !.stale = @ \ {c}, !.skipped = @ \/ fails])
  BY DEF Sweep
<1>2. /\ pc[p] = "sweep" /\ pc[p] \in Cleaning
      /\ UNCHANGED <<config, top, toDocker, lock, units, runs>>
  BY DEF Sweep, Cleaning
<1>3. PICK f \in Family, h \in Hook : f = job[p].family /\ h = job[p].hook
  BY <1>2, CleaningKnows
<1>4. c \in Chain /\ c # job[p].new[h]
  BY <1>2, <1>3, CleaningKnows DEF JobFits
<1>5. PICK j : j = [job[p] EXCEPT !.stale = @ \ {c}, !.skipped = @ \/ fails]
  OBVIOUS
<1>6. /\ j.family = f /\ j.policy = job[p].policy /\ j.kind = job[p].kind
      /\ j.hook = h /\ j.new = job[p].new
      /\ j.stale = job[p].stale \ {c} /\ j.skipped = (job[p].skipped \/ fails)
      /\ j \in Job
  BY <1>3, <1>5, Here DEF Job
<1>7. /\ TablesType' /\ HookedExist' /\ JumpsOnce' /\ mishaps' \in 0..MaxMishaps
      /\ \A g \in Family, k \in Hook, d \in Chain :
            g # f \/ k # h \/ d # c => chains'[g][k][d] = chains[g][k][d]
      /\ ~fails /\ c \notin Hooked(f, h) => chains'[f][h][c] = Absent
  <2>1. DropChain(f, h, c, fails) /\ UNCHANGED <<top, toDocker>>
    BY <1>1, <1>2, <1>3
  <2>. QED BY <1>4, <2>1, Here, DropEffect DEF RestType
<1>8. JobFits("sweep", j)'
  BY <1>2, <1>3, <1>6, CleaningKnows DEF JobFits, Building, Cleaning
<1>9. Built("sweep", j)'
  <2>1. Heads(job[p], "input") /\ Heads(job[p], "forward") => Heads(j, "input") /\ Heads(j, "forward")
    BY <1>3, <1>6 DEF Heads
  <2>2. j.kind # "remove" => Heads(j, "input")' /\ Heads(j, "forward")'
    BY <1>2, <1>6, <2>1, CleaningKnows, HeadsKept
  <2>. QED BY <2>2 DEF Built
<1>10. Cleaned("sweep", j)'
  <2>. SUFFICES ASSUME ~j.skipped PROVE Cleaned("sweep", j)'
    BY DEF Cleaned
  <2>1. ~job[p].skipped /\ ~fails
    BY <1>6
  <2>2. \A g, k : Hooked(g, k)' = Hooked(g, k)
    BY <1>2, HookedSame
  <2>3. Cleaned("sweep", job[p])
    BY <1>2, CleaningKnows
  <2>4. \A k \in Hook : Hooked(f, k) \subseteq Mine(j, k)
    BY <1>3, <1>6, <2>1, <2>3 DEF Cleaned, Mine
  <2>5. Existing(f, h) \subseteq Mine(j, h) \cup job[p].stale
    BY <1>3, <1>6, <2>1, <2>3 DEF Cleaned, Mine
  <2>6. Existing(f, h)' \subseteq Mine(j, h) \cup j.stale
    <3>1. c \notin Hooked(f, h)
      BY <1>4, <1>6, <2>4 DEF Mine
    <3>2. chains'[f][h][c] = Absent
      BY <1>7, <2>1, <3>1
    <3>. QED BY <1>6, <1>7, <2>5, <3>2 DEF Existing, Exists
  <2>7. h = "forward" => Existing(f, "input")' = Existing(f, "input")
    BY <1>7 DEF Existing, Exists, Hook
  <2>8. h = "forward" => Existing(f, "input") \subseteq Mine(j, "input")
    BY <1>3, <1>6, <2>1, <2>3 DEF Cleaned, Mine
  <2>. QED BY <1>6, <2>2, <2>4, <2>6, <2>7, <2>8 DEF Cleaned, Mine
<1>11. RestType'
  BY <1>2, <1>7, Here DEF RestType, units
<1>12. "sweep" \in PC /\ "sweep" \in Locked
  BY DEF PC, Locked
<1>. QED BY <1>1, <1>2, <1>5, <1>6, <1>7, <1>8, <1>9, <1>10, <1>11, <1>12, CleaningKnows, Continues
     DEF Located

\* The next hook, the next family, or what follows
LEMMA EndSweepKeeps ==
    ASSUME ScriptInv, NEW p \in Process, EndSweep(p)
    PROVE  ScriptInv'
<1>1. /\ pc[p] = "sweep" /\ pc[p] \in Cleaning /\ job[p].stale = {}
      /\ UNCHANGED <<config, tables, counters>>
  BY DEF EndSweep, Cleaning
<1>2. /\ {"orphans", "list", "create", "uninstall"} \subseteq PC
      /\ {"orphans", "list", "create", "uninstall"} \subseteq Locked
  BY DEF PC, Locked
<1>. DEFINE done == [job[p] EXCEPT !.hook = "input", !.new = [h \in Hook |-> NoChain]]
<1>3. CASE job[p].hook = "input"
  <2>1. Goto(p, "orphans", [job[p] EXCEPT !.hook = "forward"]) /\ UNCHANGED <<lock, units>>
    BY <1>3 DEF EndSweep
  <2>2. PICK j : j = [job[p] EXCEPT !.hook = "forward"]
    OBVIOUS
  <2>3. /\ j \in Job /\ j.family = job[p].family /\ j.policy = job[p].policy
        /\ j.kind = job[p].kind /\ j.hook = "forward" /\ j.new = job[p].new
        /\ j.skipped = job[p].skipped
    BY <2>2, Here DEF Job, Hook
  <2>4. JobFits("orphans", j)
    BY <1>1, <2>3, CleaningKnows DEF JobFits, Building, Cleaning
  <2>5. Built("orphans", j)
    BY <1>1, <2>3, CleaningKnows DEF Built, Heads
  <2>6. Cleaned("orphans", j)
    <3>1. Cleaned("sweep", job[p])
      BY <1>1, CleaningKnows
    <3>. QED BY <1>1, <1>3, <2>3, <3>1 DEF Cleaned, Mine
  <2>7. RestType'
    BY <1>1, <2>1, Here DEF RestType, units, counters
  <2>. QED BY <1>1, <1>2, <2>1, <2>2, <2>3, <2>4, <2>5, <2>6, <2>7, CleaningKnows, ContinuesSame
       DEF Located
<1>4. CASE job[p].hook = "forward" /\ job[p].family = "v4"
  <2>1. PICK l : l = IF job[p].kind = "remove" THEN "list" ELSE "create"
    OBVIOUS
  <2>2. Goto(p, l, [done EXCEPT !.family = "v6", !.skipped = FALSE]) /\ UNCHANGED <<lock, units>>
    BY <1>4, <2>1 DEF EndSweep
  <2>3. PICK j : j = [done EXCEPT !.family = "v6", !.skipped = FALSE]
    OBVIOUS
  <2>4. /\ j \in Job /\ j.policy = job[p].policy
        /\ j.kind = job[p].kind /\ j.hook = "input" /\ j.new = [h \in Hook |-> NoChain]
    <3>1. [h \in Hook |-> NoChain] \in [Hook -> Chain \cup {NoChain}]
      OBVIOUS
    <3>. QED BY <2>3, <3>1, Here DEF Job, Hook, Family
  <2>5. JobFits(l, j)
    BY <1>1, <2>1, <2>4, CleaningKnows DEF JobFits, Building, Cleaning
  <2>6. Built(l, j) /\ Cleaned(l, j)
    BY <2>1, <2>4 DEF Built, Cleaned, Cleaning
  <2>7. RestType'
    BY <1>1, <2>2, Here DEF RestType, units, counters
  <2>. QED BY <1>1, <1>2, <2>1, <2>2, <2>3, <2>4, <2>5, <2>6, <2>7, CleaningKnows, ContinuesSame
       DEF Located
<1>5. CASE job[p].hook = "forward" /\ job[p].family # "v4" /\ job[p].kind = "remove"
  <2>1. Goto(p, "uninstall", done) /\ UNCHANGED <<lock, units>>
    BY <1>5 DEF EndSweep
  <2>2. PICK j : j = done
    OBVIOUS
  <2>3. j \in Job /\ j.new = [h \in Hook |-> NoChain]
    <3>1. [h \in Hook |-> NoChain] \in [Hook -> Chain \cup {NoChain}]
      OBVIOUS
    <3>. QED BY <2>2, <3>1, Here DEF Job, Hook
  <2>4. JobFits("uninstall", j) /\ "uninstall" \notin Building \cup Cleaning
    BY <2>3 DEF JobFits, Building, Cleaning
  <2>5. RestType'
    BY <1>1, <2>1, Here DEF RestType, units, counters
  <2>. QED BY <1>1, <1>2, <2>1, <2>2, <2>3, <2>4, <2>5, CleaningKnows, Elsewhere, ContinuesSame
<1>6. CASE job[p].hook = "forward" /\ job[p].family # "v4" /\ job[p].kind # "remove"
  <2>1. Enforced(p)
    BY <1>6 DEF EndSweep
  <2>. QED BY <1>1, <2>1, EnforcedKeeps
<1>. QED BY <1>1, <1>3, <1>4, <1>5, <1>6, CleaningKnows DEF Hook

-----------------------------------------------------------------------------
(* The environment.                                                        *)

\* A rule of others before ours hides a new chain's jump, and takes none away.
LEMMA IntrudeKeeps ==
    ASSUME ScriptInv, Intrude
    PROVE  ScriptInv'
<1>1. Mishap /\ UNCHANGED <<config, chains, lock, units, pc, job, runs>>
  BY DEF Intrude
<1>2. /\ RestType /\ TablesType /\ ProcType /\ HookedExist /\ JumpsOnce
      /\ \A p \in Process : Located(pc[p], job[p])
  BY Types DEF ScriptInv
<1>3. RestType'
  BY <1>1, <1>2, MishapType DEF RestType, units
<1>4. ProcType'
  BY <1>1, <1>2 DEF ProcType
<1>5. /\ TablesType' /\ HookedExist' /\ JumpsOnce'
      /\ \A g \in Family, k \in Hook :
            /\ Hooked(g, k)' = Hooked(g, k)
            /\ Head(top'[g][k]) \in {Head(top[g][k]), Foreign}
  <2>1. CASE \E f \in Family : /\ \E h \in Hook : top' = [top EXCEPT ![f][h] = <<Foreign>> \o @]
                               /\ UNCHANGED toDocker
    <3>1. PICK f \in Family, h \in Hook : InsertsRule(f, h, Foreign)
      BY <2>1 DEF InsertsRule
    <3>2. Foreign \in Chain \cup {Foreign} /\ Foreign \notin Chain
      BY FirewallAssumption
    <3>3. toDocker' \in [Family -> BOOLEAN]
      BY <1>2, <2>1 DEF TablesType
    <3>4. TablesType' /\ HookedExist' /\ JumpsOnce'
      BY <1>1, <1>2, <3>1, <3>2, <3>3, RuleInserted
    <3>5. /\ \A g \in Family, k \in Hook : g # f \/ k # h => top'[g][k] = top[g][k]
          /\ Head(top'[f][h]) = Foreign
          /\ Hooked(f, h)' = Hooked(f, h) \cup ({Foreign} \cap Chain)
      BY <1>2, <3>1, <3>2, InsertEffect
    <3>6. ASSUME NEW g \in Family, NEW k \in Hook
          PROVE  /\ Hooked(g, k)' = Hooked(g, k)
                 /\ Head(top'[g][k]) \in {Head(top[g][k]), Foreign}
      <4>1. CASE g = f /\ k = h
        BY <3>2, <3>5, <4>1
      <4>2. CASE ~(g = f /\ k = h)
        BY <3>5, <4>2, HookedSame
      <4>. QED BY <4>1, <4>2
    <3>. QED BY <3>4, <3>6
  <2>2. CASE \E f \in Family : toDocker[f] /\ toDocker' = [toDocker EXCEPT ![f] = FALSE] /\ UNCHANGED top
    <3>1. \A g, k : Hooked(g, k)' = Hooked(g, k)
      BY <2>2, HookedSame
    <3>2. TablesType' /\ JumpsOnce'
      BY <1>1, <1>2, <2>2 DEF TablesType, JumpsOnce, JumpOnce
    <3>3. HookedExist'
      BY <1>1, <1>2, <3>1 DEF HookedExist, Exists
    <3>. QED BY <2>2, <3>1, <3>2, <3>3
  <2>. QED BY <2>1, <2>2 DEF Intrude
<1>6. ASSUME NEW p \in Process PROVE Located(pc[p], job[p])'
  <2>1. PICK l, j : l = pc[p] /\ j = job[p]
    OBVIOUS
  <2>2. j.family \in Family /\ j.hook \in Hook /\ Located(l, j)
    BY <1>2, <2>1 DEF ProcType, Job
  <2>3. \A k \in Hook : Heads(j, k) => Heads(j, k)'
    BY <1>5, <2>2 DEF Heads
  <2>4. \A k \in Hook : \A n : Fresh(j, k, n) => Fresh(j, k, n)'
    BY <1>1, <1>5, <2>2 DEF Fresh
  <2>5. JobFits(l, j)'
    BY <2>2 DEF Located, JobFits
  <2>6. Built(l, j)'
    BY <2>2, <2>3, <2>4 DEF Located, Built, Hook
  <2>7. Cleaned(l, j)'
    <3>1. \A g, k : Existing(g, k)' = Existing(g, k)
      BY <1>1 DEF Existing, Exists
    <3>. QED BY <1>5, <2>2, <3>1 DEF Located, Cleaned, Mine, Hook
  <2>. QED BY <1>1, <2>1, <2>5, <2>6, <2>7 DEF Located
<1>. QED BY <1>3, <1>4, <1>5, <1>6, TypesNext DEF ScriptInv

\* After a boot, and at first, no table has anything in it and nobody runs.
Blank ==
    /\ top = [f \in Family |-> [h \in Hook |-> <<>>]]
    /\ toDocker = [f \in Family |-> FALSE]
    /\ chains = [f \in Family |-> [h \in Hook |-> [c \in Chain |-> Absent]]]
    /\ lock = Nobody
    /\ pc = [p \in Process |-> "off"] /\ job = [p \in Process |-> NoJob]
    /\ RestType

LEMMA BlankFits == Blank => ScriptInv
<1>. SUFFICES ASSUME Blank PROVE ScriptInv
  OBVIOUS
<1>1. \A f \in Family, h \in Hook :
         top[f][h] = <<>> /\ <<>> \in Seq(Chain \cup {Foreign}) /\ DOMAIN <<>> = {}
  BY DEF Blank
<1>2. TablesType
  BY <1>1 DEF Blank, TablesType, ChainState
<1>3. NoJob \in Job /\ Located("off", NoJob) /\ "off" \in PC /\ "off" \notin Locked
  BY Begun DEF Kind, PC, Locked
<1>4. ProcType
  BY <1>3, FirewallAssumption DEF Blank, ProcType
<1>5. HookedExist
  <2>1. \A f \in Family, h \in Hook : Hooked(f, h) = {}
    BY <1>1, <1>2, HookedIs
  <2>. QED BY <2>1 DEF HookedExist
<1>6. JumpsOnce
  BY <1>1 DEF JumpsOnce, JumpOnce
<1>. QED BY <1>2, <1>3, <1>4, <1>5, <1>6, Types DEF ScriptInv, Blank

LEMMA BlankFitsNext == Blank' => ScriptInv'
BY BlankFits, PTL

LEMMA RebootKeeps ==
    ASSUME ScriptInv, Reboot
    PROVE  ScriptInv'
<1>1. RestType'
  BY Types, MishapType DEF Reboot, ScriptInv, RestType
<1>. QED BY <1>1, BlankFitsNext DEF Reboot, Blank

-----------------------------------------------------------------------------
(* Theorems.                                                               *)

LEMMA ScriptInit == Init => ScriptInv
<1>1. Init => RestType
  <2>1. 1 \in Policy /\ 0 \in 0..MaxRuns /\ 0 \in 0..MaxMishaps
    BY FirewallAssumption DEF Policy
  <2>. QED BY <2>1 DEF Init, RestType
<1>. QED BY <1>1, BlankFits DEF Init, Blank

LEMMA ScriptNext == ScriptInv /\ [Next]_vars => ScriptInv'
<1>. SUFFICES ASSUME ScriptInv, [Next]_vars PROVE ScriptInv'
  OBVIOUS
<1>1. ASSUME NEW p \in Process, Step(p) PROVE ScriptInv'
  BY <1>1, LoadKeeps, CheckKeeps, CreateKeeps, BuildKeeps, AttachKeeps, DockerKeeps,
     ListKeeps, UnhookKeeps, DropKeeps, ListOrphansKeeps, SweepKeeps, EndSweepKeeps,
     InstallKeeps, UnlockKeeps, RestartKeeps, WaitKeeps, StatusKeeps, UninstallKeeps DEF Step
<1>2. ASSUME NEW p \in Process, Acquire(p) \/ Discard(p) \/ Die(p) PROVE ScriptInv'
  BY <1>2, AcquireKeeps, DiscardKeeps, DieKeeps
<1>3. CASE Configure \/ Intrude \/ Reboot
  BY <1>3, ConfigureKeeps, IntrudeKeeps, RebootKeeps
<1>4. CASE UNCHANGED vars
  <2>1. UNCHANGED tables /\ ProcType' /\ RestType'
    BY <1>4, Types DEF vars, tables, units, counters, ScriptInv, ProcType, RestType
  <2>2. \A q \in Process : \E l, j : pc'[q] = l /\ job'[q] = j /\ Located(l, j)
    BY <1>4 DEF vars, ScriptInv
  <2>. QED BY <2>1, <2>2, MovesSame
<1>. QED BY <1>1, <1>2, <1>3, <1>4, StartsKeep DEF Next

\* What the script knows at each of its labels holds in every reachable state:
\* nobody else changes a table while it holds the lock (origin-firewall.sh:488).
THEOREM ScriptInvariant == Spec => []ScriptInv
BY ScriptInit, ScriptNext, PTL DEF Spec

\* Every reachable state has its type: the tables, the shell variables of each
\* process, and who is at a label behind the lock (FirewallTypeOK).
THEOREM FirewallTyped == Spec => []FirewallTypeOK
<1>1. ScriptInv => FirewallTypeOK
  BY DEF ScriptInv
<1>. QED BY <1>1, ScriptInvariant, PTL

\* origin-firewall.sh:244 cleanup_orphan_chains: when the clean-up of a family
\* has ignored no failure, what is left is the new chain of each hook, or none
\* after a removal (NothingIsLeft).
THEOREM CleanUpIsComplete == Spec => NothingIsLeft
<1>1. ASSUME ScriptInv, NEW p \in Process, EndSweep(p), job[p].hook = "forward", ~job[p].skipped
      PROVE  CleansUp(p, job[p].family)
  <2>1. pc[p] = "sweep" /\ pc[p] \in Cleaning /\ job[p].stale = {}
    BY <1>1 DEF EndSweep, Cleaning
  <2>2. PICK f \in Family : f = job[p].family
    BY <1>1, <2>1, CleaningKnows
  <2>3. ASSUME NEW h \in Hook
        PROVE  Hooked(f, h) = Mine(job[p], h) /\ Existing(f, h) = Mine(job[p], h)
    <3>1. Hooked(f, h) \subseteq Mine(job[p], h)
      BY <1>1, <2>1, <2>2, CleaningKnows DEF Cleaned
    <3>2. Existing(f, h) \subseteq Mine(job[p], h)
      BY <1>1, <2>1, <2>2, CleaningKnows DEF Cleaned, Hook, Mine
    <3>3. Mine(job[p], h) \subseteq Hooked(f, h)
      <4>1. CASE job[p].kind = "remove"
        BY <1>1, <2>1, <4>1, CleaningKnows DEF Mine
      <4>2. CASE job[p].kind # "remove"
        BY <1>1, <2>1, <2>2, <4>2, CleaningKnows DEF Mine, Heads, Hook
      <4>. QED BY <4>1, <4>2
    <3>4. Hooked(f, h) \subseteq Existing(f, h)
      BY <1>1, Here DEF HookedExist, Existing, Hooked
    <3>. QED BY <3>1, <3>2, <3>3, <3>4
  <2>. QED BY <2>2, <2>3 DEF CleansUp, Mine, Existing
<1>2. ScriptInv /\ [Next]_vars =>
         [\A p \in Process :
             EndSweep(p) /\ job[p].hook = "forward" /\ ~job[p].skipped =>
                 CleansUp(p, job[p].family)]_vars
  BY <1>1
<1>. QED BY <1>2, ScriptInvariant, PTL DEF Spec, NothingIsLeft

-----------------------------------------------------------------------------
(* The policy in force.                                                    *)

\* It depends on the first rule, on the chain that rule jumps to and, in
\* FORWARD, on the jump to DOCKER-USER.
LEMMA InForceSame ==
    ASSUME NEW f \in Family, NEW h \in Hook,
           top'[f][h] # <<>> <=> top[f][h] # <<>>,
           top[f][h] # <<>> => Head(top'[f][h]) = Head(top[f][h]),
           h = "forward" => toDocker'[f] = toDocker[f],
           \A c \in Chain : top[f][h] # <<>> /\ Head(top[f][h]) = c =>
                             chains'[f][h][c] = chains[f][h][c]
    PROVE  InForce(f, h)' = InForce(f, h)
<1>1. ASSUME NEW q \in Policy
      PROVE  (/\ top[f][h] # <<>>
              /\ \E c \in Chain : Head(top[f][h]) = c /\ Complete(f, h, c, q)
              /\ h = "forward" => toDocker[f])'
             <=>
             (/\ top[f][h] # <<>>
              /\ \E c \in Chain : Head(top[f][h]) = c /\ Complete(f, h, c, q)
              /\ h = "forward" => toDocker[f])
  BY DEF Complete
<1>. QED BY <1>1 DEF InForce

\* A first rule that is a managed jump is one of the jumps.
LEMMA HeadIsHooked ==
    ASSUME TablesType, NEW f \in Family, NEW h \in Hook, NEW c \in Chain,
           top[f][h] # <<>>, Head(top[f][h]) = c
    PROVE  c \in Hooked(f, h)
BY HookedIs, FirewallAssumption

\* The jump that a clean-up of a reconciliation must not touch
LEMMA HeadIsMine ==
    ASSUME ScriptInv, NEW p \in Process, pc[p] \in Cleaning, job[p].kind # "remove",
           NEW h \in Hook
    PROVE  /\ top[job[p].family][h] # <<>>
           /\ Head(top[job[p].family][h]) \in {job[p].new[h], Foreign}
<1>1. Heads(job[p], h) /\ job[p].family \in Family
  BY CleaningKnows DEF Hook
<1>. QED BY <1>1, Here, HookedIs DEF Heads

\* Where the proofs of the steps lead: the policies of a hook stay, there were
\* none, or they become that of the holder of the lock.
Switches(f, h) ==
    \/ InForce(f, h) = {} \/ InForce(f, h)' = InForce(f, h)
    \/ Removing
    \/ Intrude \/ Reboot
    \/ \E p \in Process : lock = p /\ InForce(f, h)' = {job[p].policy}

LEMMA CreateSwitches ==
    ASSUME ScriptInv, NEW p \in Process, Create(p), NEW g \in Family, NEW k \in Hook
    PROVE  InForce(g, k)' = InForce(g, k)
<1>1. PICK f, h, c : f = job[p].family /\ h = job[p].hook /\ c = NewChain(f, h)
  OBVIOUS
<1>2. /\ pc[p] = "create" /\ \E name \in Chain : ~Exists(f, h, name)
      /\ SetsChain(f, h, c, [policy |-> job[p].policy, rules |-> 0])
      /\ UNCHANGED <<top, toDocker>>
  BY <1>1 DEF Create, SetsChain
<1>3. f \in Family /\ h \in Hook /\ job[p].policy \in Policy
  BY <1>1, <1>2, Here DEF Job, Located, JobFits, Building, Cleaning
<1>4. c \in Chain /\ c \notin Hooked(f, h)
  <2>1. c \in Chain /\ ~Exists(f, h, c)
    BY <1>1, <1>2 DEF NewChain
  <2>. QED BY <1>3, <2>1, Here DEF HookedExist
<1>5. PICK v \in ChainState : SetsChain(f, h, c, v)
  <2>1. 0 \in 0..Rules
    BY FirewallAssumption
  <2>. QED BY <1>2, <1>3, <2>1, ChainIsThere
<1>6. \A d \in Chain : g # f \/ k # h \/ d # c => chains'[g][k][d] = chains[g][k][d]
  BY <1>3, <1>4, <1>5, Here, ChainEffect
<1>7. ASSUME NEW d \in Chain, top[g][k] # <<>>, Head(top[g][k]) = d
      PROVE  chains'[g][k][d] = chains[g][k][d]
  BY <1>4, <1>6, <1>7, Here, HeadIsHooked
<1>. QED BY <1>2, <1>7, InForceSame

LEMMA BuildSwitches ==
    ASSUME ScriptInv, NEW p \in Process, Build(p), NEW g \in Family, NEW k \in Hook
    PROVE  InForce(g, k)' = InForce(g, k)
<1>1. PICK f \in Family, h \in Hook, c \in Chain, v \in ChainState :
         SetsChain(f, h, c, v) /\ c \notin Hooked(f, h)
  BY BuildEffect
<1>2. UNCHANGED <<top, toDocker>>
  BY DEF Build
<1>3. \A d \in Chain : g # f \/ k # h \/ d # c => chains'[g][k][d] = chains[g][k][d]
  BY <1>1, Here, ChainEffect
<1>4. ASSUME NEW d \in Chain, top[g][k] # <<>>, Head(top[g][k]) = d
      PROVE  chains'[g][k][d] = chains[g][k][d]
  BY <1>1, <1>3, <1>4, Here, HeadIsHooked
<1>. QED BY <1>2, <1>4, InForceSame

LEMMA DiscardSwitches ==
    ASSUME ScriptInv, NEW p \in Process, Discard(p), NEW g \in Family, NEW k \in Hook
    PROVE  InForce(g, k)' = InForce(g, k)
<1>1. PICK f, new : f = job[p].family /\ new = job[p].new
  OBVIOUS
<1>2. /\ pc[p] = "build" /\ UNCHANGED <<top, toDocker>>
      /\ chains' = [chains EXCEPT ![f] =
                       [h \in Hook |-> [chains[f][h] EXCEPT ![new[h]] = Absent]]]
  BY <1>1 DEF Discard
<1>3. f \in Family /\ job[p].hook \in Hook
  BY <1>1, Here DEF Job
<1>4. new[k] \in Chain \ Hooked(f, k)
  <2>1. \E n : Fresh(job[p], k, n)
    BY <1>2, <1>3, Here DEF Located, Built, Hook
  <2>. QED BY <1>1, <2>1 DEF Fresh
<1>5. ASSUME NEW d \in Chain, top[g][k] # <<>>, Head(top[g][k]) = d
      PROVE  chains'[g][k][d] = chains[g][k][d]
  <2>1. d \in Hooked(g, k)
    BY <1>5, Here, HeadIsHooked
  <2>2. g # f \/ d # new[k]
    BY <1>4, <2>1
  <2>. QED BY <1>2, <1>3, <2>2, Here DEF TablesType
<1>. QED BY <1>2, <1>5, InForceSame

LEMMA AttachSwitches ==
    ASSUME ScriptInv, NEW p \in Process, Attach(p), NEW g \in Family, NEW k \in Hook
    PROVE  Switches(g, k)
<1>1. PICK f \in Family, h \in Hook, c \in Chain :
              /\ f = job[p].family /\ h = job[p].hook /\ c = job[p].new[h]
              /\ Fresh(job[p], h, Rules)
              /\ InsertsRule(f, h, c) /\ c \notin Hooked(f, h) /\ Exists(f, h, c)
              /\ job[p].kind # "remove" /\ job[p].policy \in Policy
  BY AttachEffect
<1>2. pc[p] = "attach" /\ UNCHANGED <<toDocker, chains>>
  BY DEF Attach
<1>3. /\ \A a \in Family, b \in Hook : a # f \/ b # h => top'[a][b] = top[a][b]
      /\ top'[f][h] # <<>> /\ Head(top'[f][h]) = c
  BY <1>1, Here, InsertEffect
<1>4. CASE ~(g = f /\ k = h)
  <2>1. top'[g][k] = top[g][k]
    BY <1>3, <1>4
  <2>. QED BY <1>2, <2>1, InForceSame DEF Switches
<1>5. CASE g = f /\ k = h /\ h = "forward" /\ ~toDocker[f]
  BY <1>5 DEF Switches, InForce
<1>6. CASE g = f /\ k = h /\ (h = "forward" => toDocker[f])
  <2>1. chains'[f][h][c] = [policy |-> job[p].policy, rules |-> Rules]
    BY <1>1, <1>2 DEF Fresh
  <2>2. \A q \in Policy : Complete(f, h, c, q)' <=> q = job[p].policy
    BY <2>1 DEF Complete
  <2>3. h = "forward" => toDocker'[f]
    BY <1>2, <1>6
  <2>4. InForce(f, h)' = {job[p].policy}
    BY <1>1, <1>3, <2>2, <2>3 DEF InForce
  <2>5. lock = p
    BY <1>2, Here DEF Locked
  <2>. QED BY <1>6, <2>4, <2>5 DEF Switches
<1>. QED BY <1>4, <1>5, <1>6

LEMMA DockerSwitches ==
    ASSUME ScriptInv, NEW p \in Process, EnsureDocker(p), NEW g \in Family, NEW k \in Hook
    PROVE  Switches(g, k)
<1>1. /\ UNCHANGED <<top, chains>>
      /\ toDocker' = [toDocker EXCEPT ![job[p].family] = TRUE]
  BY DEF EnsureDocker
<1>2. CASE k = "forward" /\ ~toDocker[g]
  BY <1>2 DEF Switches, InForce
<1>3. CASE k = "forward" => toDocker[g]
  <2>1. k = "forward" => toDocker'[g] = toDocker[g]
    BY <1>1, <1>3, Here DEF TablesType
  <2>. QED BY <1>1, <2>1, InForceSame DEF Switches
<1>. QED BY <1>2, <1>3

LEMMA UnhookSwitches ==
    ASSUME ScriptInv, NEW p \in Process, Unhook(p), NEW g \in Family, NEW k \in Hook
    PROVE  Switches(g, k)
<1>1. PICK f \in Family, h \in Hook, c \in Chain, failed \in BOOLEAN :
              /\ f = job[p].family /\ h = job[p].hook
              /\ c # job[p].new[h]
              /\ failed => job[p].kind = "remove"
              /\ ~failed => \E i \in DOMAIN top[f][h] :
                                top[f][h][i] = c /\ DeletesRule(f, h, i)
  BY UnhookCases
<1>2. pc[p] \in Cleaning /\ UNCHANGED <<toDocker, chains>>
  BY DEF Unhook, Cleaning
<1>3. CASE job[p].kind = "remove"
  BY <1>2, <1>3, CleaningKnows DEF Switches, Removing
<1>4. CASE job[p].kind # "remove"
  <2>1. PICK i \in DOMAIN top[f][h] : top[f][h][i] = c /\ DeletesRule(f, h, i)
    BY <1>1, <1>4
  <2>2. /\ \A a \in Family, b \in Hook : a # f \/ b # h => top'[a][b] = top[a][b]
        /\ top[f][h] # <<>>
        /\ Head(top[f][h]) # c =>
              top'[f][h] # <<>> /\ Head(top'[f][h]) = Head(top[f][h])
    BY <2>1, Here, DeleteEffect DEF JumpsOnce
  <2>3. Head(top[f][h]) # c
    BY <1>1, <1>2, <1>4, HeadIsMine, FirewallAssumption
  <2>4. /\ top'[g][k] # <<>> <=> top[g][k] # <<>>
        /\ top[g][k] # <<>> => Head(top'[g][k]) = Head(top[g][k])
    BY <2>2, <2>3
  <2>. QED BY <1>2, <2>4, InForceSame DEF Switches
<1>. QED BY <1>3, <1>4

\* -F and -X of a chain other than the new one
LEMMA DropSwitches ==
    ASSUME ScriptInv, NEW p \in Process, pc[p] \in Cleaning,
           NEW c \in Chain, c # job[p].new[job[p].hook], NEW fails \in BOOLEAN,
           DropChain(job[p].family, job[p].hook, c, fails), UNCHANGED <<top, toDocker>>,
           NEW g \in Family, NEW k \in Hook
    PROVE  Switches(g, k)
<1>1. CASE job[p].kind = "remove"
  BY <1>1, CleaningKnows DEF Switches, Removing
<1>2. CASE job[p].kind # "remove"
  <2>1. PICK f \in Family, h \in Hook : f = job[p].family /\ h = job[p].hook
    BY CleaningKnows
  <2>2. \A d \in Chain : g # f \/ k # h \/ d # c => chains'[g][k][d] = chains[g][k][d]
    <3>1. DropChain(f, h, c, fails)
      BY <2>1
    <3>. QED BY <3>1, Here, DropEffect DEF RestType
  <2>3. Head(top[f][h]) # c
    BY <1>2, <2>1, HeadIsMine, FirewallAssumption
  <2>4. ASSUME NEW d \in Chain, top[g][k] # <<>>, Head(top[g][k]) = d
        PROVE  chains'[g][k][d] = chains[g][k][d]
    BY <2>2, <2>3, <2>4
  <2>. QED BY <2>4, InForceSame DEF Switches
<1>. QED BY <1>1, <1>2

LEMMA StillSwitches ==
    ASSUME UNCHANGED tables, NEW g \in Family, NEW k \in Hook
    PROVE  Switches(g, k)
BY InForceSame DEF Switches, tables

LEMMA NextSwitches ==
    ASSUME ScriptInv, [Next]_vars, NEW g \in Family, NEW k \in Hook
    PROVE  Switches(g, k)
<1>1. ASSUME NEW p \in Process, Step(p) PROVE Switches(g, k)
  <2>1. CASE Create(p) \/ Build(p)
    BY <2>1, CreateSwitches, BuildSwitches DEF Switches
  <2>2. CASE Attach(p) \/ EnsureDocker(p) \/ Unhook(p)
    BY <2>2, AttachSwitches, DockerSwitches, UnhookSwitches
  <2>3. CASE Drop(p)
    <3>1. pc[p] = "drop" /\ pc[p] \in Cleaning /\ UNCHANGED <<top, toDocker>>
      BY <2>3 DEF Drop, Cleaning
    <3>2. job[p].target \in Chain /\ job[p].target # job[p].new[job[p].hook]
      BY <3>1, CleaningKnows DEF JobFits
    <3>3. \E fails \in BOOLEAN : DropChain(job[p].family, job[p].hook, job[p].target, fails)
      BY <2>3 DEF Drop
    <3>. QED BY <3>1, <3>2, <3>3, DropSwitches
  <2>4. CASE Sweep(p)
    <3>1. pc[p] = "sweep" /\ pc[p] \in Cleaning /\ UNCHANGED <<top, toDocker>>
      BY <2>4 DEF Sweep, Cleaning
    <3>2. PICK c \in job[p].stale, fails \in BOOLEAN :
             DropChain(job[p].family, job[p].hook, c, fails)
      BY <2>4 DEF Sweep
    <3>3. c \in Chain /\ c # job[p].new[job[p].hook]
      BY <3>1, CleaningKnows DEF JobFits
    <3>. QED BY <3>1, <3>2, <3>3, DropSwitches
  <2>5. CASE \/ Load(p) \/ Check(p) \/ List(p) \/ ListOrphans(p) \/ EndSweep(p)
             \/ Install(p) \/ Unlock(p) \/ Restart(p) \/ Wait(p) \/ Status(p)
             \/ Uninstall(p)
    <3>1. UNCHANGED tables
      BY <2>5 DEF Load, Check, List, ListOrphans, EndSweep, Install, Unlock, Restart, Wait,
                  Status, Uninstall
    <3>. QED BY <3>1, StillSwitches
  <2>. QED BY <1>1, <2>1, <2>2, <2>3, <2>4, <2>5 DEF Step
<1>2. ASSUME NEW p \in Process, Discard(p) PROVE Switches(g, k)
  BY <1>2, DiscardSwitches DEF Switches
<1>3. CASE Intrude \/ Reboot
  BY <1>3 DEF Switches
<1>4. CASE \/ \E p \in Operator : OperatorRuns(p)
           \/ StartService \/ StartRecover
           \/ \E p \in Process : Acquire(p) \/ Die(p)
           \/ Configure \/ UNCHANGED vars
  <2>1. UNCHANGED tables
    BY <1>4 DEF OperatorRuns, StartService, StartRecover, Acquire, Die, Configure, vars, tables
  <2>. QED BY <2>1, StillSwitches
<1>. QED BY <1>1, <1>2, <1>3, <1>4 DEF Next

\* origin-firewall.sh:498 "this hand-off never opens the origin": a policy in
\* force stays until the complete chain of the holder of the lock takes its
\* place, whatever fails, is killed or comes between; only a removal, others
\* and a reboot can end it (SwitchIsSeamless).
THEOREM HandOffNeverOpens == Spec => SwitchIsSeamless
<1>1. ScriptInv /\ [Next]_vars =>
         [\A f \in Family, h \in Hook :
             \/ InForce(f, h) = {} \/ InForce(f, h)' = InForce(f, h)
             \/ Removing
             \/ Intrude \/ Reboot
             \/ \E p \in Process : lock = p /\ InForce(f, h)' = {job[p].policy}]_vars
  BY NextSwitches DEF Switches
<1>. QED BY <1>1, ScriptInvariant, PTL DEF Spec, SwitchIsSeamless

=============================================================================

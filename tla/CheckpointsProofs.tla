------------------------- MODULE CheckpointsProofs -------------------------
(***************************************************************************)
(* Theorems about Checkpoints, for any runs, agents, keys and number of    *)
(* training periods, with and without crashes.                             *)
(***************************************************************************)
EXTENDS Checkpoints, WellFoundedInduction, TLAPS

LEMMA AgentNumbers == Learners \subseteq Nat /\ Learners \subseteq Agents
BY CheckpointAssumption DEF Agents

\* The first by id of some agents is one of them.
LEMMA MinIsMember ==
  ASSUME NEW S, S \subseteq Learners, S # {}
  PROVE  Min(S) \in S
<1>1. S \subseteq Nat
  BY AgentNumbers
<1>2. PICK x \in S : \A y \in S : ~ (<<y, x>> \in OpToRel(<, Nat))
  BY <1>1, NatLessThanWellFounded, WFMin, Zenon
<1>3. \A y \in S : x <= y
  <2> SUFFICES ASSUME NEW y \in S PROVE x <= y
    OBVIOUS
  <2>1. x \in Nat /\ y \in Nat
    BY <1>1
  <2>2. y < x => <<y, x>> \in OpToRel(<, Nat)
    BY <2>1 DEF OpToRel
  <2>3. ~ (y < x)
    BY <2>2, <1>2, Zenon
  <2> QED
    BY <2>1, <2>3
<1> QED
  BY <1>3 DEF Min
-----------------------------------------------------------------------------
(***************************************************************************)
(* Files and rows.  A run has checkpoints only when its process has ended; *)
(* the files that wait to be removed are those of its deleted rows.        *)
(***************************************************************************)

Saves(r) ==
  /\ Saved(r) # {} => Saved(r) = Learners /\ state[r] = "FINISHED" /\ pc[r] = "ended"
  /\ pc[r] = "saving" => state[r] \in {"absent", "FINISHED"}
  /\ \A a \in Learners :
       /\ row[r][a] # NoRow => file[r][a] # NoFile
       /\ <<r, a>> \in unlink => pc[r] = "ended" /\ row[r][a] = NoRow
       /\ file[r][a] # NoFile /\ row[r][a] = NoRow =>
            pc[r] \in {"saving", "killed"} \/ <<r, a>> \in unlink

(***************************************************************************)
(* Policies.  From the moment a policy is matched to the moment its        *)
(* successor is saved, the number in its row agrees with the policy, also  *)
(* if the row or the file it was taken from is removed meanwhile.          *)
(***************************************************************************)

Own == \A a, b \in Agents : Key[a] = Key[b] => a = b

Trained(r) ==
  /\ pc[r] \in {"none", "checked", "created", "read"} =>
       \A a \in Learners : parent[r][a] = NoParent /\ policy[r][a] = Fresh(a)
  /\ \A a \in Learners :
       /\ row[r][a] # NoRow => row[r][a] = file[r][a].trained
       /\ pc[r] = "saving" /\ file[r][a] # NoFile => file[r][a] = policy[r][a]
       /\ pc[r] = "resolved" /\ parent[r][a] # NoParent =>
            /\ origin[r] \in Runs /\ parent[r][a].agent \in Learners
            /\ pc[origin[r]] = "ended"
            /\ file[origin[r]][parent[r][a].agent] # NoFile =>
                 file[origin[r]][parent[r][a].agent].trained = parent[r][a].trained
       /\ pc[r] = "training" => policy[r][a].trained = parent[r][a].trained
       /\ pc[r] = "saving" => policy[r][a].trained = PeriodsTrained(r, a)

Owned(r) ==
  \A a \in Learners :
    /\ policy[r][a].owner = a
    /\ file[r][a] # NoFile => file[r][a].owner = a
    /\ pc[r] = "resolved" /\ parent[r][a] # NoParent => parent[r][a].agent = a

IInv == TypeOK /\ \A r \in Runs : Saves(r) /\ Trained(r)
POwn == \A r \in Runs : Owned(r)

-----------------------------------------------------------------------------
LEMMA Distinct ==
  /\ NoFile \notin Policies /\ NoRow \notin Nat
  /\ NoParent \notin Parents
BY DEF NoFile, Policies, NoRow, NoParent, Parents, Agents

LEMMA Types ==
  ASSUME TypeOK, NEW r \in Runs
  PROVE  /\ origin[r] \in Runs \cup {NoRun} /\ pc[r] \in Places
         /\ \A a \in Learners : /\ row[r][a] \in Nat \cup {NoRow}
                             /\ file[r][a] \in Policies \cup {NoFile}
                             /\ parent[r][a] \in Parents \cup {NoParent}
                             /\ policy[r][a] \in Policies
BY DEF TypeOK

LEMMA InitHolds == Init => IInv /\ POwn
BY CheckpointAssumption
   DEF Init, IInv, POwn, TypeOK, Saves, Trained, Owned, Places, Saved, Fresh, Policies,
       Parents, Agents, NoFile, NoRow, NoParent

-----------------------------------------------------------------------------
(***************************************************************************)
(* One lemma per action.                                                   *)
(***************************************************************************)

USE CheckpointAssumption, Distinct DEF Places, rows, files, process, Goto, SetState

LEMMA RequestColdKeeps ==
  ASSUME IInv, NEW r \in Runs, RequestCold(r)
  PROVE  IInv'
<1>1. TypeOK'
  BY DEF IInv, TypeOK, RequestCold
<1>2. ASSUME NEW x \in Runs
      PROVE  Saves(x)'
  BY DEF IInv, TypeOK, Saves, Saved, RequestCold
<1>3. ASSUME NEW x \in Runs
      PROVE  Trained(x)'
  BY DEF IInv, TypeOK, Saves, Saved, Trained, PeriodsTrained, RequestCold, Frozen, Matched
<1> QED
  BY <1>1, <1>2, <1>3 DEF IInv

LEMMA CheckWarmStartKeeps ==
  ASSUME IInv, NEW r \in Runs, CheckWarmStart(r)
  PROVE  IInv'
<1>1. TypeOK'
  BY DEF IInv, TypeOK, CheckWarmStart, Resolvable
<1>2. ASSUME NEW x \in Runs
      PROVE  Saves(x)'
  BY DEF IInv, TypeOK, Saves, Saved, CheckWarmStart, Resolvable
<1>3. ASSUME NEW x \in Runs
      PROVE  Trained(x)'
  BY DEF IInv, TypeOK, Saves, Saved, Trained, PeriodsTrained, CheckWarmStart, Resolvable,
         Frozen, Matched
<1> QED
  BY <1>1, <1>2, <1>3 DEF IInv

LEMMA CloneKeeps ==
  ASSUME IInv, NEW r \in Runs, Clone(r)
  PROVE  IInv'
<1>1. TypeOK'
  BY DEF IInv, TypeOK, Clone, Resolvable
<1>2. ASSUME NEW x \in Runs
      PROVE  Saves(x)'
  BY DEF IInv, TypeOK, Saves, Saved, Clone, Resolvable
<1>3. ASSUME NEW x \in Runs
      PROVE  Trained(x)'
  <2>1. CASE x = r
    BY <2>1 DEF IInv, TypeOK, Saves, Saved, Trained, Clone, Resolvable
  <2>2. CASE x # r
    BY <2>2 DEF IInv, TypeOK, Saves, Saved, Trained, PeriodsTrained, Frozen, Matched,
                Clone, Resolvable
  <2> QED
    BY <2>1, <2>2
<1> QED
  BY <1>1, <1>2, <1>3 DEF IInv

LEMMA DeleteKeeps ==
  ASSUME IInv, NEW r \in Runs, Delete(r)
  PROVE  IInv'
<1>1. TypeOK'
  BY DEF IInv, TypeOK, Delete, Saved
<1>2. ASSUME NEW x \in Runs
      PROVE  Saves(x)'
  BY DEF IInv, TypeOK, Saves, Saved, Delete
<1>3. ASSUME NEW x \in Runs
      PROVE  Trained(x)'
  BY DEF IInv, TypeOK, Saves, Saved, Trained, PeriodsTrained, Delete, Frozen, Matched
<1> QED
  BY <1>1, <1>2, <1>3 DEF IInv

LEMMA ReadRunKeeps ==
  ASSUME IInv, NEW r \in Runs, ReadRun(r)
  PROVE  IInv'
<1>1. TypeOK'
  BY DEF IInv, TypeOK, ReadRun
<1>2. ASSUME NEW x \in Runs
      PROVE  Saves(x)'
  BY DEF IInv, TypeOK, Saves, Saved, ReadRun
<1>3. ASSUME NEW x \in Runs
      PROVE  Trained(x)'
  BY DEF IInv, TypeOK, Saves, Saved, Trained, PeriodsTrained, ReadRun, Frozen, Matched
<1> QED
  BY <1>1, <1>2, <1>3 DEF IInv

\* A step of one process leaves what is known of the others, as long as it
\* changes no rows and no files and does not start over.
LEMMA Moved ==
  ASSUME TypeOK, NEW r \in Runs, NEW x \in Runs, x # r, Trained(x),
         pc[r] # "ended", \E there \in Places : pc' = [pc EXCEPT ![r] = there],
         row' = row, file' = file, freeze' = freeze, origin' = origin,
         parent'[x] = parent[x], policy'[x] = policy[x]
  PROVE  Trained(x)'
<1>1. pc'[x] = pc[x] /\ \A o \in Runs : pc[o] = "ended" => pc'[o] = "ended"
  BY DEF TypeOK
<1>2. \A a \in Learners : PeriodsTrained(x, a)' = PeriodsTrained(x, a)
  BY DEF PeriodsTrained, Frozen, Matched
<1>3. ASSUME NEW a \in Learners
      PROVE  /\ row'[x][a] # NoRow => row'[x][a] = file'[x][a].trained
             /\ pc'[x] = "saving" /\ file'[x][a] # NoFile => file'[x][a] = policy'[x][a]
             /\ pc'[x] = "training" => policy'[x][a].trained = parent'[x][a].trained
             /\ pc'[x] = "saving" => policy'[x][a].trained = PeriodsTrained(x, a)'
  BY <1>1, <1>2 DEF Trained
<1>4. ASSUME NEW a \in Learners, pc'[x] = "resolved", parent'[x][a] # NoParent
      PROVE  /\ origin'[x] \in Runs /\ parent'[x][a].agent \in Learners
             /\ pc'[origin'[x]] = "ended"
             /\ file'[origin'[x]][parent'[x][a].agent] # NoFile =>
                  file'[origin'[x]][parent'[x][a].agent].trained = parent'[x][a].trained
  <2>1. /\ origin[x] \in Runs /\ parent[x][a].agent \in Learners
        /\ pc[origin[x]] = "ended"
        /\ file[origin[x]][parent[x][a].agent] # NoFile =>
             file[origin[x]][parent[x][a].agent].trained = parent[x][a].trained
    BY <1>1, <1>4 DEF Trained
  <2> QED
    BY <1>1, <2>1
<1>5. pc'[x] \in {"none", "checked", "created", "read"} =>
        \A a \in Learners : parent'[x][a] = NoParent /\ policy'[x][a] = Fresh(a)
  BY <1>1 DEF Trained
<1> QED
  BY <1>3, <1>4, <1>5 DEF Trained

\* What resolve_warm_start finds for an agent: nothing, or a checkpoint of its
\* key with the number in its row.
LEMMA MatchIsSaved ==
  ASSUME TypeOK, NEW s \in Runs, NEW a \in Learners
  PROVE  \/ Match(s, a) = NoParent
         \/ /\ Match(s, a) \in Parents
            /\ Match(s, a).agent \in Saved(s) /\ Key[Match(s, a).agent] = Key[a]
            /\ Match(s, a).trained = row[s][Match(s, a).agent]
<1>1. CASE Candidates(s, a) = {}
  BY <1>1 DEF Match
<1>2. CASE Candidates(s, a) # {}
  <2>1. Candidates(s, a) \subseteq Learners
    BY DEF Candidates, Saved
  <2>2. PICK b \in Candidates(s, a) : b = Min(Candidates(s, a))
    BY <1>2, <2>1, MinIsMember
  <2>3. b \in Saved(s) /\ Key[b] = Key[a]
    BY DEF Candidates
  <2>4. b \in Agents /\ row[s][b] \in Nat
    <3>1. b \in Learners /\ row[s][b] # NoRow
      BY <2>3 DEF Saved
    <3> QED
      BY <3>1, AgentNumbers DEF TypeOK
  <2>5. Match(s, a) = [agent |-> b, trained |-> row[s][b]]
    BY <1>2, <2>2 DEF Match
  <2> QED
    BY <2>3, <2>4, <2>5 DEF Parents
<1> QED
  BY <1>1, <1>2

LEMMA ResolveKeeps ==
  ASSUME IInv, NEW r \in Runs, Resolve(r)
  PROVE  IInv'
<1>1. TypeOK'
  <2>1. ASSUME origin[r] \in Runs, NEW a \in Learners
        PROVE  Match(origin[r], a) \in Parents \cup {NoParent}
    BY <2>1, MatchIsSaved DEF IInv
  <2>2. parent' \in [Runs -> [Learners -> Parents \cup {NoParent}]]
    <3>1. CASE parent' = parent
      BY <3>1 DEF IInv, TypeOK
    <3>2. CASE parent' # parent
      <4>1. /\ origin[r] \in Runs
            /\ parent' = [parent EXCEPT ![r] = [a \in Learners |-> Match(origin[r], a)]]
        BY <3>2 DEF IInv, TypeOK, Resolve
      <4>2. [a \in Learners |-> Match(origin[r], a)] \in [Learners -> Parents \cup {NoParent}]
        BY <2>1, <4>1
      <4> QED
        BY <4>1, <4>2 DEF IInv, TypeOK
    <3> QED
      BY <3>1, <3>2
  <2>3. state' = state \/ state' = [state EXCEPT ![r] = IF @ = "absent" THEN @ ELSE "FAILED"]
    BY DEF Resolve, FailRun
  <2>4. state' \in [Runs -> {"absent", "CREATED", "STARTED", "FINISHED", "FAILED"}]
    BY <2>3 DEF IInv, TypeOK
  <2>5. \E there \in Places : pc' = [pc EXCEPT ![r] = there]
    BY DEF Resolve, FailRun
  <2>6. pc' \in [Runs -> Places]
    BY <2>5 DEF IInv, TypeOK
  <2> QED
    BY <2>2, <2>4, <2>6 DEF IInv, TypeOK, Resolve
<1>2. ASSUME NEW x \in Runs
      PROVE  Saves(x)'
  BY DEF IInv, TypeOK, Saves, Saved, Resolve, FailRun, Resolvable
<1>3. ASSUME NEW x \in Runs
      PROVE  Trained(x)'
  <2>1. CASE x = r /\ pc'[r] = "resolved"
    <3>1. /\ origin[r] \in Runs /\ pc[origin[r]] = "ended" /\ origin[r] # r
          /\ pc[r] = "read" /\ parent'[r] = [a \in Learners |-> Match(origin[r], a)]
          /\ UNCHANGED <<row, file, origin, policy>>
      <4>1. ~ FailRun(r) /\ pc[r] = "read" /\ pc' # [pc EXCEPT ![r] = "training"]
        BY <2>1 DEF IInv, TypeOK, FailRun, Resolve
      <4>2. /\ origin[r] # NoRun /\ Saved(origin[r]) # {}
            /\ parent' = [parent EXCEPT ![r] = [a \in Learners |-> Match(origin[r], a)]]
        BY <4>1 DEF Resolve, Resolvable
      <4>3. origin[r] \in Runs
        BY <4>2 DEF IInv, TypeOK
      <4>4. pc[origin[r]] = "ended"
        BY <4>2, <4>3 DEF IInv, Saves
      <4>5. parent'[r] = [a \in Learners |-> Match(origin[r], a)]
        BY <4>2 DEF IInv, TypeOK
      <4> QED
        BY <4>1, <4>3, <4>4, <4>5 DEF Resolve
    <3>2. ASSUME NEW a \in Learners, parent'[r][a] # NoParent
          PROVE  /\ parent'[r][a].agent \in Learners
                 /\ row[origin[r]][parent'[r][a].agent] # NoRow
                 /\ parent'[r][a].trained = row[origin[r]][parent'[r][a].agent]
      <4>1. parent'[r][a] = Match(origin[r], a) /\ Match(origin[r], a) # NoParent
        BY <3>1, <3>2
      <4>2. TypeOK /\ origin[r] \in Runs
        BY <3>1 DEF IInv
      <4>3. /\ Match(origin[r], a).agent \in Saved(origin[r])
            /\ Match(origin[r], a).trained = row[origin[r]][Match(origin[r], a).agent]
        BY <4>1, <4>2, MatchIsSaved
      <4> QED
        BY <4>1, <4>3 DEF Saved
    <3>3. pc'[origin[r]] = "ended" /\ pc' = [pc EXCEPT ![r] = "resolved"]
      BY <2>1, <3>1 DEF IInv, TypeOK, Resolve, FailRun
    <3>4. Trained(r) /\ Trained(origin[r])
      BY <3>1 DEF IInv
    <3>5. pc'[r] = "resolved" /\ UNCHANGED <<row, file, origin>>
      BY <2>1, <3>1
    <3>6. ASSUME NEW a \in Learners, parent'[r][a] # NoParent
          PROVE  file[origin[r]][parent'[r][a].agent].trained = parent'[r][a].trained
      <4>1. /\ parent'[r][a].agent \in Learners
            /\ row[origin[r]][parent'[r][a].agent] # NoRow
            /\ parent'[r][a].trained = row[origin[r]][parent'[r][a].agent]
        BY <3>2, <3>6
      <4>2. file[origin[r]][parent'[r][a].agent].trained = row[origin[r]][parent'[r][a].agent]
        BY <3>4, <4>1 DEF Trained
      <4> QED
        BY <4>1, <4>2
    <3> QED
      BY <2>1, <3>1, <3>2, <3>3, <3>4, <3>5, <3>6 DEF Trained
  <2>2. CASE x = r /\ pc'[r] # "resolved"
    <3>1. CASE FailRun(r)
      BY <2>2, <3>1 DEF IInv, TypeOK, Trained, Resolve, FailRun
    <3>2. CASE ~ FailRun(r)
      <4>1. pc[r] = "read" /\ pc' = [pc EXCEPT ![r] = "training"] /\ parent' = parent
        BY <2>2, <3>2 DEF IInv, TypeOK, Resolve
      <4>2. pc'[r] = "training" /\ UNCHANGED <<row, file, origin, policy>>
        BY <4>1 DEF IInv, TypeOK, Resolve
      <4>3. \A a \in Learners : policy'[r][a].trained = parent'[r][a].trained
        <5>1. \A a \in Learners : parent[r][a] = NoParent /\ policy[r][a] = Fresh(a)
          BY <4>1 DEF IInv, Trained
        <5>2. parent' = parent /\ policy' = policy
          BY <4>1, <4>2
        <5>3. \A a \in Learners : Fresh(a).trained = NoParent.trained
          BY DEF Fresh, NoParent
        <5> QED
          BY <5>1, <5>2, <5>3
      <4>4. Trained(r)
        BY DEF IInv
      <4> QED
        BY <2>2, <4>2, <4>3, <4>4 DEF Trained
    <3> QED
      BY <3>1, <3>2
  <2>3. CASE x # r
    <3>1. \E there \in Places : pc' = [pc EXCEPT ![r] = there]
      BY DEF Resolve, FailRun
    <3>2. parent'[x] = parent[x]
      BY <2>3 DEF IInv, TypeOK, Resolve
    <3> QED
      BY <2>3, <3>1, <3>2, Moved DEF IInv, Resolve
  <2> QED
    BY <2>1, <2>2, <2>3
<1> QED
  BY <1>1, <1>2, <1>3 DEF IInv

LEMMA LoadKeeps ==
  ASSUME IInv, NEW r \in Runs, Load(r)
  PROVE  IInv'
<1>1. TypeOK'
  <2>1. PICK fits \in SUBSET Matched(r) :
          \/ FailRun(r) /\ UNCHANGED <<parent, policy>>
          \/ /\ \A a \in Matched(r) : Loaded(r, a) # NoFile
             /\ policy' = [policy EXCEPT ![r] = [a \in Learners |->
                   IF a \in fits THEN Loaded(r, a) ELSE Fresh(a)]]
             /\ parent' = [parent EXCEPT ![r] = [a \in Learners |->
                   IF a \in fits THEN parent[r][a] ELSE NoParent]]
             /\ pc' = [pc EXCEPT ![r] = "training"]
             /\ UNCHANGED state
    BY DEF Load
  <2>2. ASSUME NEW a \in Matched(r), Loaded(r, a) # NoFile
        PROVE  Loaded(r, a) \in Policies
    <3>1. a \in Learners /\ origin[r] \in Runs /\ parent[r][a].agent \in Learners
      BY DEF IInv, Trained, Load, Matched
    <3>2. TypeOK
      BY DEF IInv
    <3> QED
      BY <2>2, <3>1, <3>2, Types DEF Loaded
  <2>3. \A a \in Learners : Fresh(a) \in Policies
    BY DEF Fresh, Policies, Agents
  <2>4. TypeOK /\ Matched(r) \subseteq Learners
    BY DEF IInv, Matched
  <2>5. CASE FailRun(r) /\ UNCHANGED <<parent, policy>>
    BY <2>4, <2>5 DEF TypeOK, Load, FailRun
  <2>6. CASE ~ (FailRun(r) /\ UNCHANGED <<parent, policy>>)
    <3>1. [a \in Learners |-> IF a \in fits THEN Loaded(r, a) ELSE Fresh(a)]
            \in [Learners -> Policies]
      BY <2>1, <2>2, <2>3, <2>6
    <3>2. [a \in Learners |-> IF a \in fits THEN parent[r][a] ELSE NoParent]
            \in [Learners -> Parents \cup {NoParent}]
      BY <2>4 DEF TypeOK
    <3>3. policy' \in [Runs -> [Learners -> Policies]]
      BY <2>1, <2>4, <2>6, <3>1 DEF TypeOK
    <3>4. parent' \in [Runs -> [Learners -> Parents \cup {NoParent}]]
      BY <2>1, <2>4, <2>6, <3>2 DEF TypeOK
    <3> QED
      BY <2>1, <2>4, <2>6, <3>3, <3>4 DEF TypeOK, Load
  <2> QED
    BY <2>5, <2>6
<1>2. ASSUME NEW x \in Runs
      PROVE  Saves(x)'
  BY DEF IInv, TypeOK, Saves, Saved, Load, FailRun, Loaded, Matched
<1>3. ASSUME NEW x \in Runs
      PROVE  Trained(x)'
  <2>1. CASE x = r /\ pc'[r] = "training"
    <3>1. ASSUME NEW a \in Matched(r), Loaded(r, a) # NoFile
          PROVE  Loaded(r, a).trained = parent[r][a].trained
      BY <3>1 DEF IInv, Trained, Load, Loaded, Matched
    <3>2. PICK fits \in SUBSET Matched(r) :
            /\ \A a \in Matched(r) : Loaded(r, a) # NoFile
            /\ policy' = [policy EXCEPT ![r] = [a \in Learners |->
                  IF a \in fits THEN Loaded(r, a) ELSE Fresh(a)]]
            /\ parent' = [parent EXCEPT ![r] = [a \in Learners |->
                  IF a \in fits THEN parent[r][a] ELSE NoParent]]
      BY <2>1 DEF Load, FailRun, IInv, TypeOK
    <3>3. ASSUME NEW a \in Learners
          PROVE  policy'[r][a].trained = parent'[r][a].trained
      BY <3>1, <3>2 DEF Fresh, NoParent, IInv, TypeOK
    <3>4. \A a \in Learners : row'[r][a] # NoRow => row'[r][a] = file'[r][a].trained
      BY DEF IInv, Trained, Load
    <3> QED
      BY <2>1, <3>3, <3>4 DEF Trained
  <2>2. CASE x = r /\ pc'[r] # "training"
    BY <2>2 DEF IInv, TypeOK, Trained, Load, FailRun
  <2>3. CASE x # r
    <3>1. \E there \in Places : pc' = [pc EXCEPT ![r] = there]
      BY DEF Load, FailRun
    <3>2. policy'[x] = policy[x] /\ parent'[x] = parent[x]
      BY <2>3 DEF IInv, TypeOK, Load
    <3> QED
      BY <2>3, <3>1, <3>2, Moved DEF IInv, Load
  <2> QED
    BY <2>1, <2>2, <2>3
<1> QED
  BY <1>1, <1>2, <1>3 DEF IInv

LEMMA TrainKeeps ==
  ASSUME IInv, NEW r \in Runs, Train(r)
  PROVE  IInv'
<1>1. TypeOK'
  <2>1. ASSUME NEW a \in Learners
        PROVE  [policy[r][a] EXCEPT !.trained = @ + Trains] \in Policies
    <3>1. policy[r][a] \in Policies
      BY Types DEF IInv
    <3>2. PICK o \in Agents, n \in Nat : policy[r][a] = [owner |-> o, trained |-> n]
      BY <3>1 DEF Policies
    <3>3. [policy[r][a] EXCEPT !.trained = @ + Trains] = [owner |-> o, trained |-> n + Trains]
      BY <3>2
    <3> QED
      BY <3>3 DEF Policies
  <2>2. [a \in Learners |-> IF a \in Frozen(r) THEN policy[r][a]
                            ELSE [policy[r][a] EXCEPT !.trained = @ + Trains]]
          \in [Learners -> Policies]
    BY <2>1 DEF IInv, TypeOK
  <2>3. policy' \in [Runs -> [Learners -> Policies]]
    BY <2>2 DEF IInv, TypeOK, Train
  <2> QED
    BY <2>3 DEF IInv, TypeOK, Train, FailRun
<1>2. ASSUME NEW x \in Runs
      PROVE  Saves(x)'
  BY DEF IInv, TypeOK, Saves, Saved, Train, FailRun, Frozen, Matched
<1>3. ASSUME NEW x \in Runs
      PROVE  Trained(x)'
  <2>1. CASE x = r /\ pc'[r] = "saving"
    <3>1. ASSUME NEW a \in Learners
          PROVE  policy'[r][a].trained = PeriodsTrained(r, a)'
      <4>1. policy[r][a] \in Policies /\ policy[r][a].trained = parent[r][a].trained
        BY DEF IInv, TypeOK, Trained, Train
      <4>2. policy'[r][a] = IF a \in Frozen(r) THEN policy[r][a]
                            ELSE [policy[r][a] EXCEPT !.trained = @ + Trains]
        BY DEF IInv, TypeOK, Train
      <4>3. PeriodsTrained(r, a)' = (IF a \in Frozen(r) THEN 0 ELSE Trains) + parent[r][a].trained
        BY DEF PeriodsTrained, Frozen, Matched, Train
      <4> QED
        BY <4>1, <4>2, <4>3 DEF Policies
    <3>2. \A a \in Learners : file'[r][a] = NoFile /\ row'[r][a] = NoRow
      BY DEF IInv, Saves, Saved, Train
    <3> QED
      BY <2>1, <3>1, <3>2 DEF Trained
  <2>2. CASE x = r /\ pc'[r] # "saving"
    BY <2>2 DEF IInv, TypeOK, Trained, Train, FailRun
  <2>3. CASE x # r
    BY <2>3 DEF IInv, TypeOK, Saves, Saved, Trained, PeriodsTrained, Frozen, Matched,
                Train, FailRun
  <2> QED
    BY <2>1, <2>2, <2>3
<1> QED
  BY <1>1, <1>2, <1>3 DEF IInv

LEMMA RunFailsKeeps ==
  ASSUME IInv, NEW r \in Runs, RunFails(r)
  PROVE  IInv'
<1>1. TypeOK'
  BY DEF IInv, TypeOK, RunFails, FailRun
<1>2. ASSUME NEW x \in Runs
      PROVE  Saves(x)'
  BY DEF IInv, TypeOK, Saves, Saved, RunFails, FailRun
<1>3. ASSUME NEW x \in Runs
      PROVE  Trained(x)'
  BY DEF IInv, TypeOK, Saves, Saved, Trained, PeriodsTrained, RunFails, FailRun, Frozen, Matched
<1> QED
  BY <1>1, <1>2, <1>3 DEF IInv

LEMMA WriteFileKeeps ==
  ASSUME IInv, NEW r \in Runs, WriteFile(r)
  PROVE  IInv'
<1>1. TypeOK'
  <2>1. Min(Learners \ Written(r)) \in Learners
    <3>1. Learners \ Written(r) # {}
      BY DEF WriteFile, Written
    <3> QED
      BY <3>1, MinIsMember
  <2>2. PICK a \in Learners : a = Min(Learners \ Written(r))
    BY <2>1
  <2>3. file' = [file EXCEPT ![r][a] = policy[r][a]]
    BY <2>2 DEF WriteFile
  <2>4. file' \in [Runs -> [Learners -> Policies \cup {NoFile}]]
    BY <2>3 DEF IInv, TypeOK
  <2> QED
    BY <2>4 DEF IInv, TypeOK, WriteFile
<1>2. ASSUME NEW x \in Runs
      PROVE  Saves(x)'
  BY DEF IInv, TypeOK, Saves, Saved, WriteFile, Written
<1>3. ASSUME NEW x \in Runs
      PROVE  Trained(x)'
  BY DEF IInv, TypeOK, Saves, Saved, Trained, PeriodsTrained, WriteFile, Written, Frozen, Matched
<1> QED
  BY <1>1, <1>2, <1>3 DEF IInv

LEMMA CommitRowsKeeps ==
  ASSUME IInv, NEW r \in Runs, CommitRows(r)
  PROVE  IInv'
<1>1. TypeOK'
  <2>1. ASSUME NEW a \in Learners
        PROVE  PeriodsTrained(r, a) \in Nat
    <3>1. parent[r][a] \in Parents \cup {NoParent}
      BY DEF IInv, TypeOK
    <3>2. parent[r][a].trained \in Nat
      BY <3>1 DEF Parents, NoParent
    <3> QED
      BY <3>2 DEF PeriodsTrained
  <2>2. [a \in Learners |-> PeriodsTrained(r, a)] \in [Learners -> Nat \cup {NoRow}]
    BY <2>1
  <2> QED
    BY <2>2 DEF IInv, TypeOK, CommitRows
<1>2. ASSUME NEW x \in Runs
      PROVE  Saves(x)'
  <2>1. ASSUME NEW a \in Learners
        PROVE  PeriodsTrained(r, a) \in Nat
    <3>1. parent[r][a] \in Parents \cup {NoParent}
      BY DEF IInv, TypeOK
    <3>2. parent[r][a].trained \in Nat
      BY <3>1 DEF Parents, NoParent
    <3> QED
      BY <3>2 DEF PeriodsTrained
  <2>2. CASE x = r
    <3>1. \A a \in Learners : row'[r][a] # NoRow /\ file'[r][a] # NoFile /\ <<r, a>> \notin unlink
      BY <2>1 DEF IInv, TypeOK, Saves, CommitRows, Written
    <3>2. Saved(r)' = Learners
      BY <3>1 DEF Saved
    <3>3. state'[r] = "FINISHED" /\ pc'[r] = "ended"
      BY DEF IInv, TypeOK, Saves, CommitRows, ReferencesExist
    <3> QED
      BY <2>2, <3>1, <3>2, <3>3 DEF Saves, CommitRows
  <2>3. CASE x # r
    <3>1. row'[x] = row[x] /\ pc'[x] = pc[x] /\ UNCHANGED <<state, file, unlink>>
      BY <2>3 DEF IInv, TypeOK, CommitRows
    <3> QED
      BY <3>1 DEF IInv, Saves, Saved
  <2> QED
    BY <2>2, <2>3
<1>3. ASSUME NEW x \in Runs
      PROVE  Trained(x)'
  BY DEF IInv, TypeOK, Saves, Saved, Trained, PeriodsTrained, CommitRows, Written, Frozen, Matched
<1> QED
  BY <1>1, <1>2, <1>3 DEF IInv

LEMMA SaveFailsKeeps ==
  ASSUME IInv, NEW r \in Runs, SaveFails(r)
  PROVE  IInv'
<1>1. TypeOK'
  BY DEF IInv, TypeOK, SaveFails, Written
<1>2. ASSUME NEW x \in Runs
      PROVE  Saves(x)'
  BY DEF IInv, TypeOK, Saves, Saved, SaveFails, Written
<1>3. ASSUME NEW x \in Runs
      PROVE  Trained(x)'
  <2>1. CASE x = r
    BY <2>1 DEF IInv, TypeOK, Saves, Saved, Trained, SaveFails
  <2>2. CASE x # r
    BY <2>2 DEF IInv, TypeOK, Saves, Saved, Trained, PeriodsTrained, Frozen, Matched,
                SaveFails
  <2> QED
    BY <2>1, <2>2
<1> QED
  BY <1>1, <1>2, <1>3 DEF IInv

LEMMA KillKeeps ==
  ASSUME IInv, NEW r \in Runs, Kill(r)
  PROVE  IInv'
<1>1. TypeOK'
  BY DEF IInv, TypeOK, Kill
<1>2. ASSUME NEW x \in Runs
      PROVE  Saves(x)'
  BY DEF IInv, TypeOK, Saves, Saved, Kill
<1>3. ASSUME NEW x \in Runs
      PROVE  Trained(x)'
  BY DEF IInv, TypeOK, Saves, Saved, Trained, PeriodsTrained, Kill, Frozen, Matched
<1> QED
  BY <1>1, <1>2, <1>3 DEF IInv

LEMMA UnlinkKeeps ==
  ASSUME IInv, Unlink
  PROVE  IInv'
<1>1. PICK s \in Runs, b \in Learners :
        /\ <<s, b>> \in unlink
        /\ unlink' = unlink \ {<<s, b>>}
        /\ file' = [file EXCEPT ![s][b] = NoFile]
        /\ UNCHANGED <<rows, pc, process>>
  <2>1. PICK u \in unlink : /\ unlink' = unlink \ {u}
                            /\ file' = [file EXCEPT ![u[1]][u[2]] = NoFile]
    BY DEF Unlink
  <2>2. u \in Runs \X Learners
    BY DEF IInv, TypeOK
  <2>3. PICK s \in Runs, b \in Learners : u = <<s, b>>
    <3>1. u[1] \in Runs /\ u[2] \in Learners /\ u = <<u[1], u[2]>>
      BY <2>2
    <3> QED
      BY <3>1
  <2> QED
    BY <2>1, <2>3 DEF Unlink
<1>2. TypeOK'
  BY <1>1 DEF IInv, TypeOK
<1>3. ASSUME NEW x \in Runs, NEW a \in Learners
      PROVE  file'[x][a] = IF <<x, a>> = <<s, b>> THEN NoFile ELSE file[x][a]
  BY <1>1 DEF IInv, TypeOK
<1>4. row[s][b] = NoRow /\ pc[s] = "ended"
  BY <1>1 DEF IInv, Saves
<1>5. ASSUME NEW x \in Runs
      PROVE  Saves(x)'
  BY <1>1, <1>3, <1>4 DEF IInv, Saves, Saved
<1>6. ASSUME NEW x \in Runs
      PROVE  Trained(x)'
  <2>1. Trained(x) /\ UNCHANGED <<row, pc, origin, parent, policy, freeze>>
    BY <1>1 DEF IInv
  <2>2. ASSUME NEW a \in Learners
        PROVE  PeriodsTrained(x, a)' = PeriodsTrained(x, a)
    BY <2>1 DEF PeriodsTrained, Frozen, Matched
  <2>3. ASSUME NEW a \in Learners, row[x][a] # NoRow
        PROVE  row[x][a] = file'[x][a].trained
    BY <1>3, <1>4, <2>1, <2>3 DEF Trained
  <2>4. ASSUME NEW a \in Learners, pc[x] = "saving", file'[x][a] # NoFile
        PROVE  file'[x][a] = policy[x][a]
    BY <1>3, <2>1, <2>4 DEF Trained
  <2>5. ASSUME NEW a \in Learners, pc[x] = "resolved", parent[x][a] # NoParent
        PROVE  /\ origin[x] \in Runs /\ parent[x][a].agent \in Learners
               /\ pc[origin[x]] = "ended"
               /\ file'[origin[x]][parent[x][a].agent] # NoFile =>
                    file'[origin[x]][parent[x][a].agent].trained = parent[x][a].trained
    <3>1. origin[x] \in Runs /\ parent[x][a].agent \in Learners
      BY <2>1, <2>5 DEF Trained
    <3>2. file'[origin[x]][parent[x][a].agent] # NoFile =>
            file'[origin[x]][parent[x][a].agent] = file[origin[x]][parent[x][a].agent]
      BY <1>3, <3>1
    <3> QED
      BY <2>1, <2>5, <3>1, <3>2 DEF Trained
  <2> QED
    BY <2>1, <2>2, <2>3, <2>4, <2>5 DEF Trained
<1> QED
  BY <1>2, <1>5, <1>6 DEF IInv

\* The invariant is preserved by every step and implies that files match rows.
LEMMA Invariance == Spec => []IInv
<1>1. Init => IInv
  BY InitHolds
<1>2. IInv /\ [Next]_vars => IInv'
  <2> SUFFICES ASSUME IInv, [Next]_vars
               PROVE  IInv'
    OBVIOUS
  <2>1. CASE UNCHANGED vars
    BY <2>1 DEF vars, IInv, TypeOK, Saves, Saved, Trained, PeriodsTrained, Frozen, Matched
  <2>2. CASE Unlink
    BY <2>2, UnlinkKeeps
  <2>3. ASSUME NEW r \in Runs,
               \/ RequestCold(r) \/ CheckWarmStart(r) \/ Clone(r) \/ Delete(r)
               \/ ReadRun(r) \/ Resolve(r) \/ Load(r) \/ Train(r) \/ RunFails(r)
               \/ WriteFile(r) \/ CommitRows(r) \/ SaveFails(r) \/ Kill(r)
        PROVE  IInv'
    BY <2>3, RequestColdKeeps, CheckWarmStartKeeps, CloneKeeps, DeleteKeeps, ReadRunKeeps,
       ResolveKeeps, LoadKeeps, TrainKeeps, RunFailsKeeps, WriteFileKeeps, CommitRowsKeeps,
       SaveFailsKeeps, KillKeeps, Zenon
  <2> QED
    BY <2>1, <2>2, <2>3, Zenon DEF Next
<1> QED
  BY <1>1, <1>2, PTL DEF Spec

\* Files and rows agree in the middle of every save, deletion and crash, for any
\* number of runs (checkpoints.py).
THEOREM FilesAreRight == Spec => []FilesMatchRows
<1>1. IInv => FilesMatchRows
  BY DEF IInv, Saves, FilesMatchRows, RowsHaveFiles, AllOrNothing, NoStrayFiles
<1> QED
  BY <1>1, Invariance, PTL

-----------------------------------------------------------------------------
(***************************************************************************)
(* Whose policy it is.                                                     *)
(***************************************************************************)

LEMMA OwnKept ==
  ASSUME Own, IInv, POwn, [Next]_vars
  PROVE  POwn'
<1> SUFFICES ASSUME NEW x \in Runs
             PROVE  Owned(x)'
  BY DEF POwn
<1>0. Owned(x)
  BY DEF POwn
<1>1. CASE UNCHANGED vars
  BY <1>1 DEF vars, POwn, Owned
<1>2. CASE Unlink
  <2>1. UNCHANGED <<pc, parent, policy>>
    BY <1>2 DEF Unlink
  <2>2. ASSUME NEW a \in Learners
        PROVE  file'[x][a] = file[x][a] \/ file'[x][a] = NoFile
    BY <1>2 DEF IInv, TypeOK, Unlink
  <2> QED
    BY <1>0, <2>1, <2>2 DEF Owned
<1>3. ASSUME NEW r \in Runs, RequestCold(r) \/ CheckWarmStart(r) \/ Clone(r) \/ Delete(r)
                             \/ ReadRun(r) \/ RunFails(r) \/ CommitRows(r) \/ Kill(r)
      PROVE  Owned(x)'
  <2>1. UNCHANGED <<file, parent, policy>> /\ (pc'[x] = "resolved" => pc[x] = "resolved")
    BY <1>3 DEF IInv, TypeOK, RequestCold, CheckWarmStart, Clone, Delete, ReadRun, RunFails,
                FailRun, CommitRows, Kill
  <2> QED
    BY <2>1 DEF POwn, Owned
<1>4. ASSUME NEW r \in Runs, Resolve(r)
      PROVE  Owned(x)'
  <2>1. UNCHANGED <<file, policy>>
    BY <1>4 DEF Resolve
  <2>2. CASE x = r
    <3>1. ASSUME NEW a \in Learners, pc'[r] = "resolved", parent'[r][a] # NoParent
          PROVE  parent'[r][a].agent = a
      <4>1. ~ FailRun(r) /\ pc' # [pc EXCEPT ![r] = "training"]
        BY <3>1 DEF IInv, TypeOK, FailRun
      <4>2. /\ origin[r] # NoRun
            /\ parent' = [parent EXCEPT ![r] = [c \in Learners |-> Match(origin[r], c)]]
        BY <1>4, <4>1 DEF Resolve
      <4>3. origin[r] \in Runs /\ parent'[r][a] = Match(origin[r], a)
        BY <4>2 DEF IInv, TypeOK
      <4>4. Match(origin[r], a).agent \in Learners /\ Key[Match(origin[r], a).agent] = Key[a]
        BY <3>1, <4>3, MatchIsSaved DEF IInv, Saved
      <4> QED
        BY <4>3, <4>4, AgentNumbers DEF Own
    <3> QED
      BY <2>1, <2>2, <3>1 DEF POwn, Owned
  <2>3. CASE x # r
    <3>1. pc'[x] = pc[x] /\ parent'[x] = parent[x]
      BY <1>4, <2>3 DEF IInv, TypeOK, Resolve, FailRun
    <3> QED
      BY <1>0, <2>1, <3>1 DEF Owned
  <2> QED
    BY <2>2, <2>3
<1>5. ASSUME NEW r \in Runs, Load(r)
      PROVE  Owned(x)'
  <2>1. UNCHANGED file
    BY <1>5 DEF Load
  <2>2. CASE x = r
    <3>1. pc'[r] # "resolved"
      BY <1>5 DEF IInv, TypeOK, Load, FailRun
    <3>2. ASSUME NEW a \in Matched(r), Loaded(r, a) # NoFile
          PROVE  Loaded(r, a).owner = a
      <4>1. a \in Learners /\ pc[r] = "resolved" /\ parent[r][a] # NoParent
        BY <1>5 DEF Load, Matched
      <4>2. origin[r] \in Runs /\ parent[r][a].agent = a
        BY <4>1 DEF IInv, Trained, POwn, Owned
      <4> QED
        BY <3>2, <4>1, <4>2 DEF POwn, Owned, Loaded
    <3>3. PICK fits \in SUBSET Matched(r) :
            \/ policy' = policy
            \/ /\ \A a \in Matched(r) : Loaded(r, a) # NoFile
               /\ policy' = [policy EXCEPT ![r] = [a \in Learners |->
                     IF a \in fits THEN Loaded(r, a) ELSE Fresh(a)]]
      BY <1>5 DEF Load
    <3>4. ASSUME NEW a \in Learners
          PROVE  policy'[r][a].owner = a
      <4>1. CASE policy' = policy
        BY <4>1 DEF POwn, Owned
      <4>2. CASE policy' # policy
        <5>1. policy'[r][a] = IF a \in fits THEN Loaded(r, a) ELSE Fresh(a)
          BY <3>3, <4>2 DEF IInv, TypeOK
        <5>2. Fresh(a).owner = a
          BY DEF Fresh
        <5>3. a \in fits => Loaded(r, a).owner = a
          BY <3>2, <3>3, <4>2
        <5> QED
          BY <5>1, <5>2, <5>3
      <4> QED
        BY <4>1, <4>2
    <3> QED
      BY <2>1, <2>2, <3>1, <3>4 DEF POwn, Owned
  <2>3. CASE x # r
    <3>1. pc'[x] = pc[x] /\ parent'[x] = parent[x] /\ policy'[x] = policy[x]
      BY <1>5, <2>3 DEF IInv, TypeOK, Load, FailRun
    <3> QED
      BY <1>0, <2>1, <3>1 DEF Owned
  <2> QED
    BY <2>2, <2>3
<1>6. ASSUME NEW r \in Runs, Train(r)
      PROVE  Owned(x)'
  <2>1. UNCHANGED <<file, parent>> /\ (pc'[x] = "resolved" => pc[x] = "resolved")
    BY <1>6 DEF IInv, TypeOK, Train, FailRun
  <2>2. ASSUME NEW a \in Learners
        PROVE  policy'[x][a].owner = policy[x][a].owner
    <3>1. policy[x][a] \in Policies
      BY Types DEF IInv
    <3>2. PICK o \in Agents, n \in Nat : policy[x][a] = [owner |-> o, trained |-> n]
      BY <3>1 DEF Policies
    <3>3. [policy[x][a] EXCEPT !.trained = @ + Trains].owner = policy[x][a].owner
      BY <3>2
    <3>4. policy'[x][a] \in {policy[x][a], [policy[x][a] EXCEPT !.trained = @ + Trains]}
      BY <1>6 DEF IInv, TypeOK, Train
    <3> QED
      BY <3>3, <3>4
  <2> QED
    BY <2>1, <2>2 DEF POwn, Owned
<1>7. ASSUME NEW r \in Runs, WriteFile(r)
      PROVE  Owned(x)'
  <2>1. UNCHANGED <<pc, parent, policy>>
    BY <1>7 DEF WriteFile
  <2>2. ASSUME NEW a \in Learners
        PROVE  file'[x][a] = file[x][a] \/ file'[x][a] = policy[x][a]
    BY <1>7 DEF IInv, TypeOK, WriteFile
  <2> QED
    BY <1>0, <2>1, <2>2 DEF Owned
<1>8. ASSUME NEW r \in Runs, SaveFails(r)
      PROVE  Owned(x)'
  <2>1. UNCHANGED <<parent, policy>> /\ (pc'[x] = "resolved" => pc[x] = "resolved")
    BY <1>8 DEF IInv, TypeOK, SaveFails
  <2>2. ASSUME NEW a \in Learners
        PROVE  file'[x][a] = file[x][a] \/ file'[x][a] = NoFile
    BY <1>8 DEF IInv, TypeOK, SaveFails
  <2> QED
    BY <1>0, <2>1, <2>2 DEF Owned
<1> QED
  BY <1>1, <1>2, <1>3, <1>4, <1>5, <1>6, <1>7, <1>8, Zenon DEF Next

\* Whatever is deleted, frozen, refused or started fresh in between: a checkpoint
\* row counts the periods its policy was trained, and if no two agents of the
\* scenario share a key, every agent is given its own policy (checkpoints.py).
THEOREM PoliciesAreRight ==
  ASSUME Own
  PROVE  Spec => []PoliciesAreTrue
<1>1. Init => POwn
  BY InitHolds
<1>2. IInv /\ POwn /\ [Next]_vars => POwn'
  BY OwnKept
<1>3. IInv /\ POwn => PoliciesAreTrue
  BY DEF IInv, Trained, POwn, Owned, PoliciesAreTrue, PeriodsTrainedIsTrue, OwnPolicyOnly
<1> QED
  BY <1>1, <1>2, <1>3, Invariance, PTL DEF Spec
=============================================================================

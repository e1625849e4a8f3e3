------------------------- MODULE ScenarioStoreProofs -------------------------
(***************************************************************************)
(* Theorems about ScenarioStore, for any names, letter cases, resources,   *)
(* contents, files and numbers of library agents, scenarios and runs: what *)
(* refers to what, who may break the rule of the energy types, what an     *)
(* export and an import keep, and what a wizard page writes.               *)
(*                                                                         *)
(* The invariant says of the library, and of the agents of every scenario  *)
(* and run, that plants, sources and names are as the constraints of the   *)
(* database have them. It is stated for a set A of the types and plants an *)
(* agent may have, so that the same lemmas about copies, wizard pages and  *)
(* imports prove that plants exist and that they obey the rule.            *)
(***************************************************************************)
EXTENDS ScenarioStore, FiniteSetTheorems, WellFoundedInduction, TLAPS

-----------------------------------------------------------------------------
(* Folds: each is the end of a chain of steps.                             *)

\* Some numbers have a least one.
LEMMA LeastOf ==
  ASSUME NEW S, S \subseteq Nat, S # {}
  PROVE  \E x \in S : \A y \in S : x <= y
<1>1. PICK x \in S : \A y \in S : ~ (<<y, x>> \in OpToRel(<, Nat))
  BY NatLessThanWellFounded, WFMin, Zenon
<1>2. ASSUME NEW y \in S PROVE x <= y
  <2>1. x \in Nat /\ y \in Nat
    OBVIOUS
  <2>2. y < x => <<y, x>> \in OpToRel(<, Nat)
    BY <2>1 DEF OpToRel
  <2>3. ~ (y < x)
    BY <2>2, <1>1, Zenon
  <2> QED
    BY <2>1, <2>3
<1> QED
  BY <1>2

\* What is left of a set of numbers without its largest one lies below it.
LEMMA BelowMax ==
  ASSUME NEW m \in Nat, NEW s \in SUBSET (1 .. m), s # {}
  PROVE  /\ Max(s) \in s
         /\ s \ {Max(s)} \in SUBSET (1 .. m - 1)
<1> DEFINE gaps == {m - x : x \in s}
<1>1. gaps \subseteq Nat /\ gaps # {}
  OBVIOUS
<1>2. PICK e \in gaps : \A y \in gaps : e <= y
  BY <1>1, LeastOf
<1>3. PICK x \in s : e = m - x
  BY <1>2
<1>4. \A y \in s : x >= y
  <2> TAKE y \in s
  <2>1. m - y \in gaps
    OBVIOUS
  <2>2. m - x <= m - y
    BY <1>2, <1>3, <2>1
  <2> QED
    BY <2>2
<1>5. Max(s) \in s /\ \A y \in s : Max(s) >= y
  BY <1>4 DEF Max
<1> DEFINE top == Max(s)
<1> HIDE DEF top
<1>6. ASSUME NEW y \in s, y # top PROVE y \in 1 .. m - 1
  <2>1. y \in 1 .. m
    OBVIOUS
  <2>2. top \in 1 .. m
    BY <1>5 DEF top
  <2>3. top >= y
    BY <1>5 DEF top
  <2> QED
    BY <1>6, <2>1, <2>2, <2>3
<1> QED
  BY <1>5, <1>6 DEF top

LEMMA MaxTo ==
  ASSUME NEW k \in Nat \ {0}
  PROVE  /\ 1 .. k # {}
         /\ Max(1 .. k) = k
         /\ (1 .. k) \ {Max(1 .. k)} = 1 .. k - 1
<1>1. Max(1 .. k) = k
  BY DEF Max
<1> QED
  BY <1>1

\* A set of numbers that holds 0 and goes on from k - 1 to k holds them all.
LEMMA Climb ==
  ASSUME NEW n \in Nat, NEW S, 0 \in S, \A k \in 1 .. n : k - 1 \in S => k \in S
  PROVE  \A k \in 0 .. n : k \in S
<1> DEFINE bad == (0 .. n) \ S
<1> SUFFICES ASSUME bad # {} PROVE FALSE
  OBVIOUS
<1>1. PICK m \in bad : \A x \in bad : m <= x
  <2>1. bad \subseteq Nat
    OBVIOUS
  <2> QED
    BY <2>1, LeastOf
<1>2. m \in 1 .. n /\ m - 1 \in 0 .. n
  BY <1>1
<1>3. m - 1 \in S
  BY <1>1, <1>2
<1> QED
  BY <1>1, <1>2, <1>3

LEMMA AppendIs ==
  ASSUME NEW S, NEW q \in Seq(S), NEW x \in S
  PROVE  /\ Append(q, x) \in Seq(S)
         /\ Len(Append(q, x)) = Len(q) + 1 /\ DOMAIN Append(q, x) = 1 .. Len(q) + 1
         /\ \A i \in 1 .. Len(q) : Append(q, x)[i] = q[i]
         /\ Append(q, x)[Len(q) + 1] = x
         /\ Len(q) \in Nat /\ DOMAIN q = 1 .. Len(q)
  OBVIOUS

-----------------------------------------------------------------------------
(* Names.                                                                  *)

\* A candidate is a name that ends in its number, which its lower case keeps.
LEMMA CandidateIs ==
  ASSUME NEW base \in AgentNames
  PROVE  \E n \in Nat \ {0, 1} : \A k \in Nat :
           /\ Candidate(base, k) \in AgentNames
           /\ Lower(Candidate(base, k))[n] = k
<1> DEFINE T == Stems \cup Nat
           p == IF Len(base) < NAME_MAX_LENGTH THEN Len(base) ELSE NAME_MAX_LENGTH - 1
           q == SubSeq(base, 1, p)
<1>1. base \in Seq(T) /\ Len(base) \in Nat \ {0}
  BY DEF AgentNames
<1>2. p \in 1 .. Len(base) /\ p \in Nat \ {0}
  BY <1>1, StoreAssumption
<1> HIDE DEF p
<1>3. q \in Seq(T) /\ Len(q) = p
  BY <1>1, <1>2
<1> HIDE DEF q, T
<1>4. ASSUME NEW k \in Nat
      PROVE  /\ Candidate(base, k) \in AgentNames
             /\ Lower(Candidate(base, k))[p + 1] = k
  <2> DEFINE c == Append(q, k)
  <2>1. Candidate(base, k) = c
    BY DEF Candidate, p, q
  <2>2. k \in T
    BY DEF T
  <2>3. c \in Seq(T) /\ Len(c) = p + 1 /\ DOMAIN c = 1 .. p + 1 /\ c[p + 1] = k
    BY <1>3, <2>2, AppendIs
  <2> HIDE DEF c
  <2>4. c # <<>>
    BY <1>2, <2>3
  <2>5. Lower(c)[p + 1] = k
    BY <1>2, <2>3 DEF Lower
  <2> QED
    BY <2>1, <2>3, <2>4, <2>5 DEF AgentNames, T
<1>5. p + 1 \in Nat \ {0, 1}
  BY <1>2
<1> QED
  BY <1>4, <1>5

\* free_agent_name finds a name whose lower case is not taken, however many
\* names are taken, as long as the numbers it tries outnumber them.
LEMMA FreeNameIs ==
  ASSUME NEW base \in AgentNames, NEW taken, IsFiniteSet(taken),
         Cardinality(taken) < MaxSuffix - 1
  PROVE  /\ free_agent_name(base, taken) \in AgentNames
         /\ \A x \in taken : Lower(x) # Lower(free_agent_name(base, taken))
<1> DEFINE used == {Lower(x) : x \in taken}
           free == {k \in 2 .. MaxSuffix : Lower(Candidate(base, k)) \notin used}
<1>1. MaxSuffix \in Nat /\ NAME_MAX_LENGTH \in Nat
  BY StoreAssumption
<1>2. PICK n \in Nat \ {0, 1} : \A k \in Nat :
           /\ Candidate(base, k) \in AgentNames
           /\ Lower(Candidate(base, k))[n] = k
  BY CandidateIs
<1>3. IsFiniteSet(used) /\ Cardinality(used) <= Cardinality(taken)
  <2> DEFINE f == [x \in taken |-> Lower(x)]
  <2>1. f \in Surjection(taken, used)
    BY DEF Surjection, Range
  <2> QED
    BY <2>1, FS_Surjection
<1>4. free # {}
  <2> SUFFICES ASSUME free = {} PROVE FALSE
    OBVIOUS
  <2> DEFINE D == 2 .. MaxSuffix
             f == [k \in D |-> Lower(Candidate(base, k))]
  <2>1. f \in [D -> used]
    OBVIOUS
  <2>2. IsFiniteSet(D) /\ Cardinality(D) = MaxSuffix - 1
    <3>1. 2 <= MaxSuffix
      BY StoreAssumption
    <3>2. /\ IsFiniteSet(2 .. MaxSuffix)
          /\ Cardinality(2 .. MaxSuffix) = IF 2 > MaxSuffix THEN 0 ELSE MaxSuffix - 2 + 1
      <4>1. 2 \in Int /\ MaxSuffix \in Int
        BY <1>1
      <4> QED
        BY <4>1, FS_Interval
    <3> HIDE DEF D
    <3>3. MaxSuffix - 2 + 1 = MaxSuffix - 1 /\ ~ (2 > MaxSuffix)
      BY <1>1, <3>1
    <3> QED
      BY <3>2, <3>3 DEF D
  <2>3. Cardinality(used) < Cardinality(D)
    <3>1. Cardinality(used) \in Nat /\ Cardinality(taken) \in Nat
      BY <1>3, FS_CardinalityType
    <3> QED
      BY <1>1, <1>3, <2>2, <3>1
  <2> HIDE DEF f, D, used
  <2>4. PICK x, y \in D : x # y /\ f[x] = f[y]
    BY <1>3, <2>1, <2>2, <2>3, FS_PigeonHole
  <2>5. x \in Nat /\ y \in Nat
    BY <1>1 DEF D
  <2>6. Lower(Candidate(base, x)) = Lower(Candidate(base, y))
    BY <2>4 DEF f
  <2>7. Lower(Candidate(base, x))[n] = x /\ Lower(Candidate(base, y))[n] = y
    BY <1>2, <2>5
  <2> QED
    BY <2>4, <2>6, <2>7
<1> DEFINE k == CHOOSE k \in free : \A j \in free : k <= j
<1>5. k \in free
  <2>1. free \subseteq Nat
    BY <1>1
  <2>2. \E x \in free : \A j \in free : x <= j
    BY <1>4, <2>1, LeastOf
  <2> QED
    BY <2>2
<1>6. free_agent_name(base, taken) = IF Lower(base) \notin used THEN base ELSE Candidate(base, k)
  BY DEF free_agent_name
<1>7. k \in Nat /\ Lower(Candidate(base, k)) \notin used
  BY <1>1, <1>5
<1> HIDE DEF k, free
<1>8. Candidate(base, k) \in AgentNames
  BY <1>2, <1>7
<1>9. /\ free_agent_name(base, taken) \in AgentNames
      /\ Lower(free_agent_name(base, taken)) \notin used
  BY <1>6, <1>7, <1>8
<1> HIDE DEF used
<1>10. \A x \in taken : Lower(x) \in used
  BY DEF used
<1> QED
  BY <1>9, <1>10

-----------------------------------------------------------------------------
(* Rows.                                                                   *)

MarketAgents == [name : AgentNames, alg : Algorithms, type : AgentTypes,
                 params : Params, plants : SUBSET Resources,
                 source : LibraryIds \cup {NoSource}]

Key(row) == <<row.type, row.plants>>

Distinct(rows) == \A i, j \in DOMAIN rows : rows[i].name = rows[j].name => i = j

(* The agents of a scenario or a run: A holds the types with the plants    *)
(* they may own, L the library agents that may be a source.                *)
MarketOK(rows, A, L) ==
    /\ rows \in Seq(MarketAgents)
    /\ \A i \in DOMAIN rows : Key(rows[i]) \in A /\ rows[i].source \in L \cup {NoSource}
    /\ Distinct(rows)

Configs == [alg : Algorithms, type : AgentTypes, params : Params, plants : SUBSET Resources]

LEMMA RowsAre ==
  ASSUME NEW rows \in Seq(MarketAgents)
  PROVE  /\ Len(rows) \in Nat /\ DOMAIN rows = 1 .. Len(rows)
         /\ \A i \in 1 .. Len(rows) : rows[i] \in MarketAgents
<1> HIDE DEF MarketAgents
<1> QED
  OBVIOUS

LEMMA AgentRowIs ==
  ASSUME NEW name \in AgentNames, NEW config \in Configs,
         NEW source \in LibraryIds \cup {NoSource}
  PROVE  /\ AgentRow(name, config, source) \in MarketAgents
         /\ AgentRow(name, config, source).name = name
         /\ AgentRow(name, config, source).source = source
         /\ Config(AgentRow(name, config, source)) = config
         /\ Key(AgentRow(name, config, source)) = Key(config)
  BY DEF AgentRow, MarketAgents, Configs, Config, Key

LEMMA ConfigIs ==
  ASSUME NEW row, row \in MarketAgents \/ row \in LibraryAgents \/ row \in FileAgents
  PROVE  Config(row) \in Configs /\ Key(Config(row)) = Key(row)
  BY DEF MarketAgents, LibraryAgents, FileAgents, Configs, Config, Key

\* The names of n agents are at most n.
LEMMA NamesAreFew ==
  ASSUME NEW rows \in Seq(MarketAgents)
  PROVE  IsFiniteSet(Names(rows)) /\ Cardinality(Names(rows)) <= Len(rows)
<1> DEFINE n == Len(rows)
           f == [i \in 1 .. n |-> rows[i].name]
<1>1. n \in Nat /\ DOMAIN rows = 1 .. n
  BY RowsAre
<1>2. f \in Surjection(1 .. n, Names(rows))
  BY <1>1 DEF Surjection, Names
<1>3. 0 \in Int /\ n \in Int
  BY <1>1
<1>4. IsFiniteSet(1 .. n) /\ Cardinality(1 .. n) = n
  <2>1. IsFiniteSet(1 .. n) /\ Cardinality(1 .. n) = IF 1 > n THEN 0 ELSE n - 1 + 1
    BY <1>3, FS_Interval
  <2> HIDE DEF n
  <2> QED
    BY <1>1, <2>1
<1> QED
  BY <1>2, <1>4, FS_Surjection

-----------------------------------------------------------------------------
(* Copies of a whole scenario.                                             *)

CopyOf(copy, rows, k) ==
    /\ copy \in Seq(MarketAgents) /\ Len(copy) = k
    /\ \A i \in 1 .. k :
          Config(copy[i]) = Config(rows[i]) /\ copy[i].source = rows[i].source
    /\ Distinct(copy)

\* One more agent is copied, under a name that no copied agent has.
LEMMA CopyIntoIs ==
  ASSUME NEW rows \in Seq(MarketAgents), Len(rows) < MaxSuffix,
         NEW k \in 1 .. Len(rows), NEW copy, CopyOf(copy, rows, k - 1)
  PROVE  CopyOf(CopyInto(copy, rows[k]), rows, k)
<1> DEFINE row == rows[k]
           name == free_agent_name(row.name, Names(copy))
           new == AgentRow(name, Config(row), row.source)
<1>1. copy \in Seq(MarketAgents) /\ Len(copy) = k - 1
  BY DEF CopyOf
<1>2. row \in MarketAgents
  BY RowsAre
<1>3. Config(row) \in Configs
  BY <1>2, ConfigIs
<1>4. row.name \in AgentNames /\ row.source \in LibraryIds \cup {NoSource}
  BY <1>2 DEF MarketAgents
<1>5. k \in Nat /\ Len(rows) \in Nat /\ k <= Len(rows) /\ MaxSuffix \in Nat
  BY RowsAre, StoreAssumption
<1>6. IsFiniteSet(Names(copy)) /\ Cardinality(Names(copy)) < MaxSuffix - 1
  <2>1. IsFiniteSet(Names(copy)) /\ Cardinality(Names(copy)) <= k - 1
    BY <1>1, NamesAreFew
  <2>2. Cardinality(Names(copy)) \in Nat
    BY <2>1, FS_CardinalityType
  <2> QED
    BY <1>5, <2>1, <2>2
<1>7. name \in AgentNames /\ \A x \in Names(copy) : Lower(x) # Lower(name)
  BY <1>4, <1>6, FreeNameIs
<1> HIDE DEF name, row
<1>8. /\ new \in MarketAgents
      /\ new.name = name /\ new.source = row.source /\ Config(new) = Config(row)
  BY <1>3, <1>4, <1>7, AgentRowIs
<1>9. CopyInto(copy, row) = Append(copy, new)
  BY DEF CopyInto, name
<1> HIDE DEF new
<1> DEFINE c == Append(copy, new)
<1>10. /\ c \in Seq(MarketAgents) /\ Len(c) = k /\ DOMAIN c = 1 .. k
       /\ \A i \in 1 .. k - 1 : c[i] = copy[i]
       /\ c[k] = new /\ DOMAIN copy = 1 .. k - 1
  BY <1>1, <1>5, <1>8, AppendIs
<1> HIDE DEF c
<1>11. ASSUME NEW i \in 1 .. k
       PROVE  Config(c[i]) = Config(rows[i]) /\ c[i].source = rows[i].source
  <2>1. CASE i = k
    BY <1>8, <1>10, <2>1 DEF row
  <2>2. CASE i # k
    <3>1. i \in 1 .. k - 1
      BY <1>5, <2>2
    <3> QED
      BY <1>10, <3>1 DEF CopyOf
  <2> QED
    BY <2>1, <2>2
<1>12. ASSUME NEW i \in 1 .. k - 1 PROVE c[i].name # name /\ c[i] = copy[i]
  <2>1. copy[i].name \in Names(copy)
    BY <1>10 DEF Names
  <2> QED
    BY <1>7, <1>10, <2>1
<1>13. Distinct(c)
  <2> SUFFICES ASSUME NEW i \in 1 .. k, NEW j \in 1 .. k, c[i].name = c[j].name PROVE i = j
    BY <1>10 DEF Distinct
  <2>1. CASE i = k \/ j = k
    <3>1. i \in 1 .. k - 1 \/ i = k
      BY <1>5
    <3>2. j \in 1 .. k - 1 \/ j = k
      BY <1>5
    <3> QED
      BY <1>8, <1>10, <1>12, <2>1, <3>1, <3>2
  <2>2. CASE i # k /\ j # k
    <3>1. i \in 1 .. k - 1 /\ j \in 1 .. k - 1
      BY <1>5, <2>2
    <3>2. copy[i].name = copy[j].name
      BY <1>12, <3>1
    <3> QED
      BY <1>10, <3>1, <3>2 DEF CopyOf, Distinct
  <2> QED
    BY <2>1, <2>2
<1>14. CopyOf(c, rows, k)
  BY <1>10, <1>11, <1>13 DEF CopyOf
<1> QED
  BY <1>9, <1>14 DEF c, row

\* CopyAll copies one agent after the other.
LEMMA CopyAllChain ==
  ASSUME NEW q, NEW n \in Nat, DOMAIN q = 1 .. n
  PROVE  \E h : /\ h[0] = <<>>
                /\ \A k \in 1 .. n : h[k] = CopyInto(h[k - 1], q[k])
                /\ CopyAll(q) = h[n]
<1> DEFINE first == <<>>
           Step(g, s) == IF s = {} THEN first
                         ELSE CopyInto(g[s \ {Max(s)}], q[Max(s)])
           Solves(g, m) == \A s \in SUBSET (1 .. m) : g[s] = Step(g, s)
<1>1. ASSUME NEW g, NEW m \in Nat \ {0}, Solves(g, m - 1)
      PROVE  Solves([s \in SUBSET (1 .. m) |-> Step(g, s)], m)
  <2> DEFINE f == [s \in SUBSET (1 .. m) |-> Step(g, s)]
  <2>1. ASSUME NEW s \in SUBSET (1 .. m) PROVE f[s] = Step(f, s)
    <3>1. CASE s = {}
      BY <3>1
    <3>2. CASE s # {}
      <4> DEFINE r == s \ {Max(s)}
      <4>1. r \in SUBSET (1 .. m - 1) /\ r \in SUBSET (1 .. m)
        BY <3>2, BelowMax
      <4>2. f[r] = Step(g, r) /\ g[r] = Step(g, r)
        BY <4>1, <1>1
      <4>3. f[s] = Step(g, s)
        OBVIOUS
      <4> HIDE DEF f
      <4> QED
        BY <3>2, <4>2, <4>3
    <3> QED
      BY <3>1, <3>2
  <2> QED
    BY <2>1
<1>2. Solves([s \in {{}} |-> first], 0)
  <2>1. \A s \in SUBSET (1 .. 0) : s = {}
    OBVIOUS
  <2> QED
    BY <2>1
<1> HIDE DEF Solves
<1>3. \A m \in 0 .. n : \E g : Solves(g, m)
  <2> DEFINE bad == {m \in 0 .. n : ~ \E g : Solves(g, m)}
  <2> SUFFICES ASSUME bad # {} PROVE FALSE
    OBVIOUS
  <2>1. PICK m \in bad : \A x \in bad : m <= x
    <3>1. bad \subseteq Nat
      OBVIOUS
    <3> QED
      BY <3>1, LeastOf
  <2>2. m \in Nat \ {0} /\ m - 1 \in 0 .. n
    BY <1>2, <2>1
  <2>3. PICK g : Solves(g, m - 1)
    BY <2>1, <2>2
  <2>4. \E f : Solves(f, m)
    BY <1>1, <2>2, <2>3
  <2> QED
    BY <2>1, <2>4
<1>4. PICK g : Solves(g, n)
  BY <1>3
<1> DEFINE c == [s \in SUBSET (1 .. n) |-> g[s]]
           d == CHOOSE f : f = [s \in SUBSET (1 .. n) |-> Step(f, s)]
<1>5. d = [s \in SUBSET (1 .. n) |-> Step(d, s)]
  <2>1. ASSUME NEW s \in SUBSET (1 .. n) PROVE g[s] = Step(c, s)
    <3>1. g[s] = Step(g, s)
      BY <1>4 DEF Solves
    <3>2. CASE s # {}
      <4>1. c[s \ {Max(s)}] = g[s \ {Max(s)}]
        OBVIOUS
      <4> HIDE DEF c
      <4> QED
        BY <3>1, <4>1
    <3> QED
      BY <3>1, <3>2
  <2>2. c = [s \in SUBSET (1 .. n) |-> Step(c, s)]
    BY <2>1
  <2> HIDE DEF c, Step
  <2> QED
    BY <2>2
<1>6. CopyAll(q) = d[1 .. n]
  BY DEF CopyAll, FoldLeft, MapThenFoldSet
<1> HIDE DEF d
<1>7. \A k \in 0 .. n : d[1 .. k] = Step(d, 1 .. k)
  <2> TAKE k \in 0 .. n
  <2>1. (1 .. k) \in SUBSET (1 .. n)
    OBVIOUS
  <2> HIDE DEF Step
  <2> QED
    BY <1>5, <2>1
<1> DEFINE h == [k \in 0 .. n |-> d[1 .. k]]
<1>8. h[0] = first /\ h[n] = d[1 .. n]
  <2>1. 0 \in 0 .. n /\ n \in 0 .. n /\ 1 .. 0 = {}
    OBVIOUS
  <2>2. d[1 .. 0] = first
    BY <1>7, <2>1
  <2> QED
    BY <2>1, <2>2
<1>9. ASSUME NEW k \in 1 .. n
      PROVE  h[k] = CopyInto(h[k - 1], q[k])
  <2>1. 1 .. k # {} /\ Max(1 .. k) = k /\ (1 .. k) \ {Max(1 .. k)} = 1 .. k - 1
    <3>1. k \in Nat \ {0}
      OBVIOUS
    <3> QED
      BY <3>1, MaxTo
  <2>2. h[k] = d[1 .. k] /\ h[k - 1] = d[1 .. k - 1]
    <3>1. k \in 0 .. n /\ k - 1 \in 0 .. n
      OBVIOUS
    <3> QED
      BY <3>1
  <2>3. d[1 .. k] = Step(d, 1 .. k)
    <3>1. k \in 0 .. n
      OBVIOUS
    <3> HIDE DEF Step
    <3> QED
      BY <1>7, <3>1
  <2> HIDE DEF h
  <2> QED
    BY <2>1, <2>2, <2>3
<1> HIDE DEF h
<1> QED
  BY <1>6, <1>8, <1>9
\* A copied scenario has the agents of the original, each with its own source,
\* under names that differ.
LEMMA CopyAllIs ==
  ASSUME NEW rows \in Seq(MarketAgents), Len(rows) < MaxSuffix
  PROVE  CopyOf(CopyAll(rows), rows, Len(rows))
<1> DEFINE n == Len(rows)
<1>1. n \in Nat /\ DOMAIN rows = 1 .. n
  BY RowsAre
<1>2. PICK h : /\ h[0] = <<>>
               /\ \A k \in 1 .. n : h[k] = CopyInto(h[k - 1], rows[k])
               /\ CopyAll(rows) = h[n]
  BY <1>1, CopyAllChain
<1> DEFINE S == {k \in 0 .. n : CopyOf(h[k], rows, k)}
<1>3. 0 \in S
  <2>1. <<>> \in Seq(MarketAgents) /\ Len(<<>>) = 0 /\ DOMAIN <<>> = {}
    OBVIOUS
  <2>2. CopyOf(<<>>, rows, 0)
    BY <2>1 DEF CopyOf, Distinct
  <2> QED
    BY <1>1, <1>2, <2>2
<1>4. ASSUME NEW k \in 1 .. n, k - 1 \in S PROVE k \in S
  <2>1. CopyOf(h[k - 1], rows, k - 1)
    BY <1>4
  <2>2. CopyOf(h[k], rows, k)
    BY <1>2, <2>1, CopyIntoIs
  <2>3. k \in 0 .. n
    BY <1>1
  <2> QED
    BY <2>2, <2>3
<1> HIDE DEF S
<1>5. \A k \in 0 .. n : k \in S
  BY <1>1, <1>3, <1>4, Climb
<1>6. CopyOf(h[n], rows, n)
  <2>1. n \in 0 .. n
    BY <1>1
  <2>2. n \in S
    BY <1>5, <2>1
  <2> QED
    BY <2>2 DEF S
<1> QED
  BY <1>2, <1>6

\* A copy is as sound as the original.
LEMMA CopyIsOK ==
  ASSUME NEW rows, NEW A, NEW L, MarketOK(rows, A, L), Len(rows) < MaxSuffix
  PROVE  MarketOK(CopyAll(rows), A, L)
<1> DEFINE c == CopyAll(rows)
           n == Len(rows)
<1>1. rows \in Seq(MarketAgents)
  BY DEF MarketOK
<1>2. CopyOf(c, rows, n)
  BY <1>1, CopyAllIs
<1> HIDE DEF c
<1>3. n \in Nat /\ DOMAIN rows = 1 .. n
  BY <1>1, RowsAre
<1> HIDE DEF n
<1>4. c \in Seq(MarketAgents) /\ DOMAIN c = 1 .. n /\ Distinct(c)
  BY <1>2, RowsAre DEF CopyOf
<1>5. ASSUME NEW i \in 1 .. n
      PROVE  Key(c[i]) \in A /\ c[i].source \in L \cup {NoSource}
  <2>1. Config(c[i]) = Config(rows[i]) /\ c[i].source = rows[i].source
    BY <1>2 DEF CopyOf
  <2>2. Key(c[i]) = Key(rows[i])
    <3>1. Config(c[i]).type = c[i].type /\ Config(c[i]).plants = c[i].plants
      BY DEF Config
    <3>2. Config(rows[i]).type = rows[i].type /\ Config(rows[i]).plants = rows[i].plants
      BY DEF Config
    <3> QED
      BY <2>1, <3>1, <3>2 DEF Key
  <2> QED
    BY <1>3, <2>1, <2>2 DEF MarketOK
<1> QED
  BY <1>4, <1>5 DEF MarketOK, c

-----------------------------------------------------------------------------
(* Payloads.                                                               *)

LibOK(lib, A) ==
    /\ lib \in [LibraryIds -> LibraryAgents \cup {NoRow}]
    /\ \A l \in LibraryRows(lib) :
          /\ Key(lib[l]) \in A
          /\ \A k \in LibraryRows(lib) : Lower(lib[k].name) = Lower(lib[l].name) => k = l

LEMMA LibraryRowIs ==
  ASSUME NEW lib, NEW A, LibOK(lib, A), NEW l \in LibraryRows(lib)
  PROVE  l \in LibraryIds /\ lib[l] \in LibraryAgents /\ lib[l].name \in AgentNames
<1>1. l \in LibraryIds /\ lib[l] \in LibraryAgents
  BY DEF LibOK, LibraryRows
<1> QED
  BY <1>1 DEF LibraryAgents

(* An entry about a scenario whose rows have the positions dom.            *)
IsEntry(e, dom) ==
    /\ e.mode \in {"new", "library", "scenario"}
    /\ e.name \in AgentNames \cup {AutoName}
    /\ e.content \in Contents \cup {NoContent}
    /\ e.mode = "library" => e.lib \in LibraryIds
    /\ e.mode # "library" => e.name # AutoName /\ e.content # NoContent
    /\ e.mode = "scenario" => e.pos \in dom

IsPayload(entries, dom, n) ==
    /\ n \in Nat /\ n <= MaxAgents /\ DOMAIN entries = 1 .. n /\ Len(entries) = n
    /\ \A i \in 1 .. n : IsEntry(entries[i], dom)

LEMMA NameChoicesAre == NameChoices \subseteq AgentNames
<1>1. ASSUME NEW x \in Typed PROVE <<x>> \in AgentNames
  <2>1. x \in Stems
    BY StoreAssumption
  <2>2. <<x>> \in Seq(Stems \cup Nat) /\ <<x>> # <<>>
    BY <2>1
  <2> QED
    BY <2>2 DEF AgentNames
<1> QED
  BY <1>1 DEF NameChoices

LEMMA PayloadIs ==
  ASSUME NEW agents, NEW entries \in Payloads(agents)
  PROVE  IsPayload(entries, DOMAIN agents, Len(entries))
<1> DEFINE E == Entries(agents)
<1>1. PICK n \in 0 .. MaxAgents : entries \in [1 .. n -> E]
  BY DEF Payloads, SeqOf
<1>2. NameChoices \subseteq AgentNames
  BY NameChoicesAre
<1>3. ASSUME NEW e \in E PROVE IsEntry(e, DOMAIN agents)
  <2>0. AutoName \notin AgentNames /\ NoContent \notin Contents
    BY StoreAssumption
  <2>1. CASE e \in [mode : {"new"}, name : NameChoices, content : Contents]
    <3>1. e.mode = "new" /\ e.name \in NameChoices /\ e.content \in Contents
      BY <2>1
    <3> QED
      BY <1>2, <2>0, <3>1 DEF IsEntry
  <2>2. CASE e \in [mode : {"library"}, name : NameChoices \cup {AutoName},
                    lib : LibraryIds, content : Contents \cup {NoContent}]
    <3>1. /\ e.mode = "library" /\ e.name \in NameChoices \cup {AutoName}
          /\ e.lib \in LibraryIds /\ e.content \in Contents \cup {NoContent}
      BY <2>2
    <3> QED
      BY <1>2, <2>0, <3>1 DEF IsEntry
  <2>3. CASE e \in [mode : {"scenario"}, name : NameChoices, pos : DOMAIN agents,
                    content : Contents]
    <3>1. /\ e.mode = "scenario" /\ e.name \in NameChoices /\ e.content \in Contents
          /\ e.pos \in DOMAIN agents
      BY <2>3
    <3> QED
      BY <1>2, <2>0, <3>1 DEF IsEntry
  <2> QED
    BY <2>1, <2>2, <2>3 DEF Entries
<1> HIDE DEF E
<1>4. n \in Nat /\ n <= MaxAgents
  BY StoreAssumption
<1>5. entries \in Seq(E) /\ DOMAIN entries = 1 .. n /\ Len(entries) = n
  BY <1>1, <1>4
<1>6. \A i \in 1 .. n : entries[i] \in E
  BY <1>1
<1> QED
  BY <1>3, <1>4, <1>5, <1>6 DEF IsPayload

(* The names given to the first k entries.                                 *)
NamesSoFar(acc, entries, k) ==
    /\ acc.names \in Seq(AgentNames) /\ Len(acc.names) = k
    /\ \A i \in 1 .. k : entries[i].name # AutoName => acc.names[i] = entries[i].name
    /\ acc.taken = Explicit(entries) \cup {acc.names[i] : i \in 1 .. k}

(* Library agents that entries copy exist.                                 *)
CopiesExist(entries, n) ==
    \A i \in 1 .. n : entries[i].mode = "library" => entries[i].lib \in LibraryRows(library)

LEMMA NameEntryIs ==
  ASSUME NEW entries, NEW dom, NEW n, IsPayload(entries, dom, n), CopiesExist(entries, n),
         NEW A, LibOK(library, A),
         NEW k \in 1 .. n, NEW acc, NamesSoFar(acc, entries, k - 1)
  PROVE  NamesSoFar(NameEntry(acc, entries[k]), entries, k)
<1> DEFINE e == entries[k]
           name == IF e.name # AutoName THEN e.name
                   ELSE free_agent_name(library[e.lib].name, acc.taken)
<1>1. n \in Nat /\ k \in Nat /\ k - 1 \in Nat /\ DOMAIN entries = 1 .. n /\ n < MaxSuffix - 1
  BY StoreAssumption DEF IsPayload
<1>2. acc.names \in Seq(AgentNames) /\ Len(acc.names) = k - 1
  BY DEF NamesSoFar
<1>3. IsFiniteSet(acc.taken) /\ Cardinality(acc.taken) < MaxSuffix - 1
  <2> DEFINE D == {i \in 1 .. n : entries[i].name # AutoName \/ i <= k - 1}
             f == [i \in D |-> IF entries[i].name # AutoName THEN entries[i].name
                               ELSE acc.names[i]]
  <2>1. acc.taken = Explicit(entries) \cup {acc.names[i] : i \in 1 .. k - 1}
    BY DEF NamesSoFar
  <2>2. \A i \in 1 .. k - 1 : i \in D
    BY <1>1
  <2>3. \A x \in acc.taken : \E i \in D : f[i] = x
    <3>1. ASSUME NEW i \in 1 .. k - 1 PROVE i \in D /\ f[i] = acc.names[i]
      BY <2>2 DEF NamesSoFar
    <3>2. ASSUME NEW i \in 1 .. n, entries[i].name # AutoName
          PROVE  i \in D /\ f[i] = entries[i].name
      BY <3>2
    <3> HIDE DEF f, D
    <3> QED
      BY <1>1, <2>1, <3>1, <3>2 DEF Explicit
  <2>4. \A i \in D : f[i] \in acc.taken
    <3>1. ASSUME NEW i \in D, entries[i].name = AutoName PROVE i \in 1 .. k - 1
      BY <1>1, <3>1
    <3> QED
      BY <1>1, <2>1, <3>1 DEF Explicit
  <2>5. f \in Surjection(D, acc.taken)
    BY <2>3, <2>4 DEF Surjection
  <2>6. IsFiniteSet(D) /\ Cardinality(D) <= n
    <3>1. IsFiniteSet(1 .. n) /\ Cardinality(1 .. n) = IF 1 > n THEN 0 ELSE n - 1 + 1
      BY <1>1, FS_Interval
    <3>2. D \in SUBSET (1 .. n)
      OBVIOUS
    <3> HIDE DEF D
    <3>3. IsFiniteSet(D) /\ Cardinality(D) <= Cardinality(1 .. n)
      BY <3>1, <3>2, FS_Subset
    <3>4. Cardinality(1 .. n) = n
      BY <1>1, <3>1
    <3> QED
      BY <3>3, <3>4
  <2> HIDE DEF D, f
  <2>7. IsFiniteSet(acc.taken) /\ Cardinality(acc.taken) <= Cardinality(D)
    BY <2>5, <2>6, FS_Surjection
  <2>8. Cardinality(acc.taken) \in Nat /\ Cardinality(D) \in Nat /\ MaxSuffix \in Nat
    BY <2>6, <2>7, FS_CardinalityType, StoreAssumption
  <2> QED
    BY <1>1, <2>6, <2>7, <2>8
<1>4. name \in AgentNames
  <2>1. CASE e.name # AutoName
    BY <2>1 DEF IsPayload, IsEntry
  <2>2. CASE e.name = AutoName
    <3>1. e.mode = "library"
      BY <2>2 DEF IsPayload, IsEntry
    <3>2. library[e.lib].name \in AgentNames
      BY <3>1, LibraryRowIs DEF CopiesExist
    <3>3. free_agent_name(library[e.lib].name, acc.taken) \in AgentNames
      BY <1>3, <3>2, FreeNameIs
    <3> QED
      BY <2>2, <3>3
  <2> QED
    BY <2>1, <2>2
<1>5. e.name # AutoName => name = e.name
  OBVIOUS
<1>6. NameEntry(acc, e) = [names |-> Append(acc.names, name), taken |-> acc.taken \cup {name}]
  BY DEF NameEntry
<1> HIDE DEF name
<1> DEFINE c == Append(acc.names, name)
<1>7. /\ c \in Seq(AgentNames) /\ Len(c) = k
      /\ \A i \in 1 .. k - 1 : c[i] = acc.names[i]
      /\ c[k] = name
  <2>1. k - 1 + 1 = k
    BY <1>1
  <2> HIDE DEF c
  <2> QED
    BY <1>2, <1>4, <2>1, AppendIs DEF c
<1> HIDE DEF c
<1>8. 1 .. k = (1 .. k - 1) \cup {k}
  BY <1>1
<1>9. {c[i] : i \in 1 .. k} = {acc.names[i] : i \in 1 .. k - 1} \cup {name}
  BY <1>7, <1>8
<1>10. acc.taken \cup {name} = Explicit(entries) \cup {c[i] : i \in 1 .. k}
  BY <1>9 DEF NamesSoFar
<1>11. \A i \in 1 .. k : entries[i].name # AutoName => c[i] = entries[i].name
  BY <1>5, <1>7, <1>8 DEF NamesSoFar
<1> QED
  BY <1>6, <1>7, <1>10, <1>11 DEF NamesSoFar, c

\* The names of a payload are given one entry after the other.
LEMMA NamesChain ==
  ASSUME NEW entries, NEW n \in Nat, DOMAIN entries = 1 .. n
  PROVE  \E h : /\ h[0] = [names |-> <<>>, taken |-> Explicit(entries)]
                /\ \A k \in 1 .. n : h[k] = NameEntry(h[k - 1], entries[k])
                /\ FoldLeft(NameEntry, [names |-> <<>>, taken |-> Explicit(entries)],
                        entries) = h[n]
<1> DEFINE first == [names |-> <<>>, taken |-> Explicit(entries)]
           Step(g, s) == IF s = {} THEN first
                         ELSE NameEntry(g[s \ {Max(s)}], entries[Max(s)])
           Solves(g, m) == \A s \in SUBSET (1 .. m) : g[s] = Step(g, s)
<1>1. ASSUME NEW g, NEW m \in Nat \ {0}, Solves(g, m - 1)
      PROVE  Solves([s \in SUBSET (1 .. m) |-> Step(g, s)], m)
  <2> DEFINE f == [s \in SUBSET (1 .. m) |-> Step(g, s)]
  <2>1. ASSUME NEW s \in SUBSET (1 .. m) PROVE f[s] = Step(f, s)
    <3>1. CASE s = {}
      BY <3>1
    <3>2. CASE s # {}
      <4> DEFINE r == s \ {Max(s)}
      <4>1. r \in SUBSET (1 .. m - 1) /\ r \in SUBSET (1 .. m)
        BY <3>2, BelowMax
      <4>2. f[r] = Step(g, r) /\ g[r] = Step(g, r)
        BY <4>1, <1>1
      <4>3. f[s] = Step(g, s)
        OBVIOUS
      <4> HIDE DEF f
      <4> QED
        BY <3>2, <4>2, <4>3
    <3> QED
      BY <3>1, <3>2
  <2> QED
    BY <2>1
<1>2. Solves([s \in {{}} |-> first], 0)
  <2>1. \A s \in SUBSET (1 .. 0) : s = {}
    OBVIOUS
  <2> QED
    BY <2>1
<1> HIDE DEF Solves
<1>3. \A m \in 0 .. n : \E g : Solves(g, m)
  <2> DEFINE bad == {m \in 0 .. n : ~ \E g : Solves(g, m)}
  <2> SUFFICES ASSUME bad # {} PROVE FALSE
    OBVIOUS
  <2>1. PICK m \in bad : \A x \in bad : m <= x
    <3>1. bad \subseteq Nat
      OBVIOUS
    <3> QED
      BY <3>1, LeastOf
  <2>2. m \in Nat \ {0} /\ m - 1 \in 0 .. n
    BY <1>2, <2>1
  <2>3. PICK g : Solves(g, m - 1)
    BY <2>1, <2>2
  <2>4. \E f : Solves(f, m)
    BY <1>1, <2>2, <2>3
  <2> QED
    BY <2>1, <2>4
<1>4. PICK g : Solves(g, n)
  BY <1>3
<1> DEFINE c == [s \in SUBSET (1 .. n) |-> g[s]]
           d == CHOOSE f : f = [s \in SUBSET (1 .. n) |-> Step(f, s)]
<1>5. d = [s \in SUBSET (1 .. n) |-> Step(d, s)]
  <2>1. ASSUME NEW s \in SUBSET (1 .. n) PROVE g[s] = Step(c, s)
    <3>1. g[s] = Step(g, s)
      BY <1>4 DEF Solves
    <3>2. CASE s # {}
      <4>1. c[s \ {Max(s)}] = g[s \ {Max(s)}]
        OBVIOUS
      <4> HIDE DEF c
      <4> QED
        BY <3>1, <4>1
    <3> QED
      BY <3>1, <3>2
  <2>2. c = [s \in SUBSET (1 .. n) |-> Step(c, s)]
    BY <2>1
  <2> HIDE DEF c, Step
  <2> QED
    BY <2>2
<1>6. FoldLeft(NameEntry, [names |-> <<>>, taken |-> Explicit(entries)], entries) = d[1 .. n]
  BY DEF EntryNames, FoldLeft, MapThenFoldSet
<1> HIDE DEF d
<1>7. \A k \in 0 .. n : d[1 .. k] = Step(d, 1 .. k)
  <2> TAKE k \in 0 .. n
  <2>1. (1 .. k) \in SUBSET (1 .. n)
    OBVIOUS
  <2> HIDE DEF Step
  <2> QED
    BY <1>5, <2>1
<1> DEFINE h == [k \in 0 .. n |-> d[1 .. k]]
<1>8. h[0] = first /\ h[n] = d[1 .. n]
  <2>1. 0 \in 0 .. n /\ n \in 0 .. n /\ 1 .. 0 = {}
    OBVIOUS
  <2>2. d[1 .. 0] = first
    BY <1>7, <2>1
  <2> QED
    BY <2>1, <2>2
<1>9. ASSUME NEW k \in 1 .. n
      PROVE  h[k] = NameEntry(h[k - 1], entries[k])
  <2>1. 1 .. k # {} /\ Max(1 .. k) = k /\ (1 .. k) \ {Max(1 .. k)} = 1 .. k - 1
    <3>1. k \in Nat \ {0}
      OBVIOUS
    <3> QED
      BY <3>1, MaxTo
  <2>2. h[k] = d[1 .. k] /\ h[k - 1] = d[1 .. k - 1]
    <3>1. k \in 0 .. n /\ k - 1 \in 0 .. n
      OBVIOUS
    <3> QED
      BY <3>1
  <2>3. d[1 .. k] = Step(d, 1 .. k)
    <3>1. k \in 0 .. n
      OBVIOUS
    <3> HIDE DEF Step
    <3> QED
      BY <1>7, <3>1
  <2> HIDE DEF h
  <2> QED
    BY <2>1, <2>2, <2>3
<1> HIDE DEF h
<1> QED
  BY <1>6, <1>8, <1>9

\* Every entry has a name, the one that was typed if one was.
LEMMA EntryNamesAre ==
  ASSUME NEW entries, NEW dom, NEW n, IsPayload(entries, dom, n), CopiesExist(entries, n),
         NEW A, LibOK(library, A)
  PROVE  /\ EntryNames(entries) \in Seq(AgentNames) /\ Len(EntryNames(entries)) = n
         /\ \A i \in 1 .. n : entries[i].name # AutoName =>
               EntryNames(entries)[i] = entries[i].name
<1>1. n \in Nat /\ DOMAIN entries = 1 .. n
  BY DEF IsPayload
<1>2. PICK h : /\ h[0] = [names |-> <<>>, taken |-> Explicit(entries)]
               /\ \A k \in 1 .. n : h[k] = NameEntry(h[k - 1], entries[k])
               /\ FoldLeft(NameEntry, [names |-> <<>>, taken |-> Explicit(entries)], entries)
                     = h[n]
  BY <1>1, NamesChain
<1> DEFINE S == {k \in 0 .. n : NamesSoFar(h[k], entries, k)}
<1>3. 0 \in S
  <2>1. /\ h[0].names \in Seq(AgentNames) /\ Len(h[0].names) = 0
        /\ h[0].taken = Explicit(entries)
    BY <1>2
  <2>2. {h[0].names[i] : i \in 1 .. 0} = {}
    OBVIOUS
  <2>3. NamesSoFar(h[0], entries, 0)
    BY <2>1, <2>2 DEF NamesSoFar
  <2> QED
    BY <1>1, <2>3
<1>4. ASSUME NEW k \in 1 .. n, k - 1 \in S PROVE k \in S
  <2>1. NamesSoFar(h[k - 1], entries, k - 1)
    BY <1>4
  <2>2. NamesSoFar(NameEntry(h[k - 1], entries[k]), entries, k)
    BY <2>1, NameEntryIs
  <2>3. k \in 0 .. n
    BY <1>1
  <2> QED
    BY <1>2, <2>2, <2>3
<1> HIDE DEF S
<1>5. \A k \in 0 .. n : k \in S
  BY <1>1, <1>3, <1>4, Climb
<1>6. NamesSoFar(h[n], entries, n)
  <2>1. n \in 0 .. n
    BY <1>1
  <2>2. n \in S
    BY <1>5, <2>1
  <2> QED
    BY <2>2 DEF S
<1> QED
  BY <1>2, <1>6 DEF EntryNames, NamesSoFar

-----------------------------------------------------------------------------
(* Agents that are kept.                                                   *)

PositionsDiffer(entries) ==
    \A i, j \in Kept(entries) : entries[i].pos = entries[j].pos => i = j

NamesDiffer(names, n) == \A i, j \in 1 .. n : names[i] = names[j] => i = j

\* Another kept agent still carries the name of a kept agent's entry.
NameTaken(agents, entries, names) ==
    \E i, j \in Kept(entries) : i # j /\ agents[entries[j].pos].name = names[i]

LEMMA EditedIs ==
  ASSUME NEW row \in MarketAgents, NEW name \in AgentNames, NEW content \in Contents
  PROVE  /\ Edited(row, name, content) \in MarketAgents
         /\ Edited(row, name, content).name = name
         /\ Edited(row, name, content).source = row.source
         /\ Key(Edited(row, name, content)) = Key(content)
         /\ Config(Edited(row, name, content))
               = FormConfig(content, IF content.alg = row.alg THEN row.params ELSE NoParams)
<1> DEFINE params == IF content.alg = row.alg THEN row.params ELSE NoParams
           config == FormConfig(content, params)
<1>1. /\ content.alg \in Algorithms /\ content.type \in AgentTypes
      /\ content.plants \in SUBSET Resources
  BY StoreAssumption
<1>2. params \in Params /\ row.source \in LibraryIds \cup {NoSource}
  BY DEF MarketAgents, Params
<1>3. Edited(row, name, content) = AgentRow(name, config, row.source)
  BY DEF Edited
<1> HIDE DEF params
<1>4. config \in Configs /\ Key(config) = Key(content)
  BY <1>1, <1>2 DEF Configs, FormConfig, Key
<1> HIDE DEF config
<1>5. /\ AgentRow(name, config, row.source) \in MarketAgents
      /\ AgentRow(name, config, row.source).name = name
      /\ AgentRow(name, config, row.source).source = row.source
      /\ Config(AgentRow(name, config, row.source)) = config
      /\ Key(AgentRow(name, config, row.source)) = Key(config)
  BY <1>2, <1>4, AgentRowIs
<1> QED
  BY <1>3, <1>4, <1>5 DEF config, params

(* The rows after the first k entries: those that were kept are edited.    *)
Updated(acc, agents, entries, names, k) ==
    /\ acc.rows \in Seq(MarketAgents) /\ Len(acc.rows) = Len(agents)
    /\ \A i \in 1 .. k : entries[i].mode = "scenario" =>
          acc.rows[entries[i].pos]
             = Edited(agents[entries[i].pos], names[i], entries[i].content)
    /\ \A p \in 1 .. Len(agents) :
          (\A i \in 1 .. k : entries[i].mode = "scenario" => entries[i].pos # p)
             => acc.rows[p] = agents[p]
    /\ acc.ok \/ NameTaken(agents, entries, names)

LEMMA UpdateRowIs ==
  ASSUME NEW agents \in Seq(MarketAgents),
         NEW entries, NEW n, IsPayload(entries, DOMAIN agents, n), PositionsDiffer(entries),
         NEW names \in Seq(AgentNames), Len(names) = n, NamesDiffer(names, n),
         NEW k \in 1 .. n, NEW acc, Updated(acc, agents, entries, names, k - 1)
  PROVE  Updated(UpdateRow(acc, entries, names, k), agents, entries, names, k)
<1> DEFINE p == entries[k].pos
           new == Edited(acc.rows[p], names[k], entries[k].content)
           ok == acc.ok /\ \A q \in Positions(entries) \ {p} : acc.rows[q].name # names[k]
           rows == [acc.rows EXCEPT ![p] = new]
<1>1. /\ n \in Nat /\ k \in Nat /\ k \in 1 .. n /\ DOMAIN entries = 1 .. n
      /\ 1 .. k = (1 .. k - 1) \cup {k} /\ 1 .. k - 1 \subseteq 1 .. n
      /\ k \notin 1 .. k - 1
  BY DEF IsPayload
<1>2. /\ Len(agents) \in Nat /\ DOMAIN agents = 1 .. Len(agents)
      /\ acc.rows \in Seq(MarketAgents) /\ Len(acc.rows) = Len(agents)
      /\ DOMAIN acc.rows = 1 .. Len(agents)
  BY RowsAre DEF Updated
<1>3. CASE k \notin Kept(entries)
  <2>1. UpdateRow(acc, entries, names, k) = acc
    BY <1>3 DEF UpdateRow
  <2>2. entries[k].mode # "scenario"
    BY <1>1, <1>3 DEF Kept
  <2> QED
    BY <1>1, <2>1, <2>2 DEF Updated
<1>4. CASE k \in Kept(entries)
  <2>1. entries[k].mode = "scenario" /\ p \in 1 .. Len(agents)
    BY <1>1, <1>2, <1>4 DEF Kept, IsPayload, IsEntry
  <2>2. ASSUME NEW i \in 1 .. n, entries[i].mode = "scenario", i # k
        PROVE  entries[i].pos # p /\ entries[i].pos \in 1 .. Len(agents)
    <3>1. i \in Kept(entries)
      BY <1>1, <2>2 DEF Kept
    <3> QED
      BY <1>2, <1>4, <2>2, <3>1 DEF PositionsDiffer, IsPayload, IsEntry
  <2>3. acc.rows[p] = agents[p]
    BY <1>1, <2>1, <2>2 DEF Updated
  <2>4. entries[k].content \in Contents /\ names[k] \in AgentNames
    <3>1. entries[k].content \in Contents
      BY <1>1, <2>1 DEF IsPayload, IsEntry
    <3> QED
      BY <3>1
  <2>5. acc.rows[p] \in MarketAgents
    BY <1>2, <2>1, RowsAre
  <2>6. new \in MarketAgents /\ new = Edited(agents[p], names[k], entries[k].content)
    BY <2>3, <2>4, <2>5, EditedIs
  <2>7. UpdateRow(acc, entries, names, k) = [ok |-> ok, rows |-> rows]
    BY <1>4 DEF UpdateRow
  <2> HIDE DEF new
  <2>8. /\ rows \in Seq(MarketAgents) /\ Len(rows) = Len(agents)
        /\ rows[p] = new
        /\ \A q \in 1 .. Len(agents) : q # p => rows[q] = acc.rows[q]
    <3> HIDE DEF MarketAgents
    <3> QED
      BY <1>2, <2>1, <2>6
  <2> HIDE DEF rows
  <2>9. ASSUME NEW i \in 1 .. k, entries[i].mode = "scenario"
        PROVE  rows[entries[i].pos]
                  = Edited(agents[entries[i].pos], names[i], entries[i].content)
    <3>1. CASE i = k
      BY <2>6, <2>8, <3>1
    <3>2. CASE i # k
      <4>1. i \in 1 .. k - 1 /\ i \in 1 .. n
        BY <1>1, <3>2
      <4>2. rows[entries[i].pos] = acc.rows[entries[i].pos]
        BY <2>2, <2>8, <2>9, <3>2, <4>1
      <4> QED
        BY <2>9, <4>1, <4>2 DEF Updated
    <3> QED
      BY <3>1, <3>2
  <2>10. ASSUME NEW q \in 1 .. Len(agents),
                \A i \in 1 .. k : entries[i].mode = "scenario" => entries[i].pos # q
         PROVE  rows[q] = agents[q]
    <3>1. q # p
      BY <1>1, <2>1, <2>10
    <3>2. \A i \in 1 .. k - 1 : entries[i].mode = "scenario" => entries[i].pos # q
      BY <1>1, <2>10
    <3> QED
      BY <2>8, <3>1, <3>2 DEF Updated
  <2>11. ok \/ NameTaken(agents, entries, names)
    <3>1. SUFFICES ASSUME ~ ok, acc.ok PROVE NameTaken(agents, entries, names)
      BY DEF Updated
    <3>2. PICK q \in Positions(entries) \ {p} : acc.rows[q].name = names[k]
      BY <3>1
    <3>3. PICK j \in Kept(entries) : q = entries[j].pos
      BY DEF Positions
    <3>4. j # k /\ j \in 1 .. n /\ entries[j].mode = "scenario" /\ q \in 1 .. Len(agents)
      BY <1>1, <1>2, <3>2, <3>3 DEF Kept, IsPayload, IsEntry
    <3>5. j \notin 1 .. k - 1
      <4> SUFFICES ASSUME j \in 1 .. k - 1 PROVE FALSE
        OBVIOUS
      <4>1. acc.rows[q] = Edited(agents[q], names[j], entries[j].content)
        BY <3>3, <3>4 DEF Updated
      <4>2. entries[j].content \in Contents
        BY <3>4 DEF IsPayload, IsEntry
      <4>3. names[j] \in AgentNames /\ agents[q] \in MarketAgents
        BY <3>4, RowsAre
      <4>4. Edited(agents[q], names[j], entries[j].content).name = names[j]
        BY <4>2, <4>3, EditedIs
      <4> QED
        BY <1>1, <3>2, <3>4, <4>1, <4>4 DEF NamesDiffer
    <3>6. \A i \in 1 .. k - 1 : entries[i].mode = "scenario" => entries[i].pos # q
      <4> TAKE i \in 1 .. k - 1
      <4> HAVE entries[i].mode = "scenario"
      <4>1. i \in Kept(entries) /\ i # j
        BY <1>1, <3>5 DEF Kept
      <4> QED
        BY <3>3, <4>1 DEF PositionsDiffer
    <3>7. agents[q].name = names[k]
      BY <3>2, <3>4, <3>6 DEF Updated
    <3> QED
      BY <1>4, <3>3, <3>4, <3>7 DEF NameTaken
  <2> HIDE DEF ok
  <2> QED
    BY <2>7, <2>8, <2>9, <2>10, <2>11 DEF Updated
<1> QED
  BY <1>3, <1>4

UpdateSteps(h, agents, entries, names, n) ==
    /\ h[0] = [ok |-> TRUE, rows |-> agents]
    /\ \A k \in 1 .. n : h[k] = UpdateRow(h[k - 1], entries, names, k)
    /\ UpdateRows(agents, entries, names) = h[n]

\* Kept agents are updated one entry after the other.
LEMMA UpdateChain ==
  ASSUME NEW agents, NEW entries, NEW names, NEW n \in Nat, DOMAIN entries = 1 .. n
  PROVE  \E h : UpdateSteps(h, agents, entries, names, n)
<1> DEFINE first == [ok |-> TRUE, rows |-> agents]
           id == [i \in DOMAIN entries |-> i]
           Step(g, s) == IF s = {} THEN first
                         ELSE UpdateRow(g[s \ {Max(s)}], entries, names, id[Max(s)])
           Solves(g, m) == \A s \in SUBSET (1 .. m) : g[s] = Step(g, s)
<1>1. ASSUME NEW g, NEW m \in Nat \ {0}, Solves(g, m - 1)
      PROVE  Solves([s \in SUBSET (1 .. m) |-> Step(g, s)], m)
  <2> DEFINE f == [s \in SUBSET (1 .. m) |-> Step(g, s)]
  <2>1. ASSUME NEW s \in SUBSET (1 .. m) PROVE f[s] = Step(f, s)
    <3>1. CASE s = {}
      BY <3>1
    <3>2. CASE s # {}
      <4> DEFINE r == s \ {Max(s)}
      <4>1. r \in SUBSET (1 .. m - 1) /\ r \in SUBSET (1 .. m)
        BY <3>2, BelowMax
      <4>2. f[r] = Step(g, r) /\ g[r] = Step(g, r)
        BY <4>1, <1>1
      <4>3. f[s] = Step(g, s)
        OBVIOUS
      <4> HIDE DEF f
      <4> QED
        BY <3>2, <4>2, <4>3
    <3> QED
      BY <3>1, <3>2
  <2> QED
    BY <2>1
<1>2. Solves([s \in {{}} |-> first], 0)
  <2>1. \A s \in SUBSET (1 .. 0) : s = {}
    OBVIOUS
  <2> QED
    BY <2>1
<1> HIDE DEF Solves
<1>3. \A m \in 0 .. n : \E g : Solves(g, m)
  <2> DEFINE bad == {m \in 0 .. n : ~ \E g : Solves(g, m)}
  <2> SUFFICES ASSUME bad # {} PROVE FALSE
    OBVIOUS
  <2>1. PICK m \in bad : \A x \in bad : m <= x
    <3>1. bad \subseteq Nat
      OBVIOUS
    <3> QED
      BY <3>1, LeastOf
  <2>2. m \in Nat \ {0} /\ m - 1 \in 0 .. n
    BY <1>2, <2>1
  <2>3. PICK g : Solves(g, m - 1)
    BY <2>1, <2>2
  <2>4. \E f : Solves(f, m)
    BY <1>1, <2>2, <2>3
  <2> QED
    BY <2>1, <2>4
<1>4. PICK g : Solves(g, n)
  BY <1>3
<1> DEFINE c == [s \in SUBSET (1 .. n) |-> g[s]]
           d == CHOOSE f : f = [s \in SUBSET (1 .. n) |-> Step(f, s)]
<1>5. d = [s \in SUBSET (1 .. n) |-> Step(d, s)]
  <2>1. ASSUME NEW s \in SUBSET (1 .. n) PROVE g[s] = Step(c, s)
    <3>1. g[s] = Step(g, s)
      BY <1>4 DEF Solves
    <3>2. CASE s # {}
      <4>1. c[s \ {Max(s)}] = g[s \ {Max(s)}]
        OBVIOUS
      <4> HIDE DEF c
      <4> QED
        BY <3>1, <4>1
    <3> QED
      BY <3>1, <3>2
  <2>2. c = [s \in SUBSET (1 .. n) |-> Step(c, s)]
    BY <2>1
  <2> HIDE DEF c, Step
  <2> QED
    BY <2>2
<1>6. UpdateRows(agents, entries, names) = d[1 .. n]
  BY DEF UpdateRows, FoldLeft, MapThenFoldSet
<1> HIDE DEF d
<1>7. \A k \in 0 .. n : d[1 .. k] = Step(d, 1 .. k)
  <2> TAKE k \in 0 .. n
  <2>1. (1 .. k) \in SUBSET (1 .. n)
    OBVIOUS
  <2> HIDE DEF Step
  <2> QED
    BY <1>5, <2>1
<1> DEFINE h == [k \in 0 .. n |-> d[1 .. k]]
<1>8. h[0] = first /\ h[n] = d[1 .. n]
  <2>1. 0 \in 0 .. n /\ n \in 0 .. n /\ 1 .. 0 = {}
    OBVIOUS
  <2>2. d[1 .. 0] = first
    BY <1>7, <2>1
  <2> QED
    BY <2>1, <2>2
<1>9. ASSUME NEW k \in 1 .. n
      PROVE  h[k] = UpdateRow(h[k - 1], entries, names, k)
  <2>1. 1 .. k # {} /\ Max(1 .. k) = k /\ (1 .. k) \ {Max(1 .. k)} = 1 .. k - 1
    <3>1. k \in Nat \ {0}
      OBVIOUS
    <3> QED
      BY <3>1, MaxTo
  <2>2. h[k] = d[1 .. k] /\ h[k - 1] = d[1 .. k - 1]
    <3>1. k \in 0 .. n /\ k - 1 \in 0 .. n
      OBVIOUS
    <3> QED
      BY <3>1
  <2>3. d[1 .. k] = Step(d, 1 .. k)
    <3>1. k \in 0 .. n
      OBVIOUS
    <3> HIDE DEF Step
    <3> QED
      BY <1>7, <3>1
  <2> HIDE DEF h
  <2>4. id[k] = k
    <3>1. k \in 1 .. n
      OBVIOUS
    <3> QED
      BY <3>1
  <2>5. d[1 .. k] = UpdateRow(d[1 .. k - 1], entries, names, id[k])
    BY <2>1, <2>3
  <2>6. h[k] = UpdateRow(h[k - 1], entries, names, id[k])
    BY <2>2, <2>5
  <2> QED
    BY <2>4, <2>6
<1> HIDE DEF h
<1> QED
  BY <1>6, <1>8, <1>9 DEF UpdateSteps

\* When all entries are through, every kept agent is edited, unless two of
\* them were to exchange names.
LEMMA UpdateRowsAre ==
  ASSUME NEW agents \in Seq(MarketAgents),
         NEW entries, NEW n, IsPayload(entries, DOMAIN agents, n), PositionsDiffer(entries),
         NEW names \in Seq(AgentNames), Len(names) = n, NamesDiffer(names, n)
  PROVE  Updated(UpdateRows(agents, entries, names), agents, entries, names, n)
<1>1. n \in Nat /\ DOMAIN entries = 1 .. n
  BY DEF IsPayload
<1>2. PICK h : UpdateSteps(h, agents, entries, names, n)
  BY <1>1, UpdateChain
<1> DEFINE S == {k \in 0 .. n : Updated(h[k], agents, entries, names, k)}
<1>3. 0 \in S
  <2>1. h[0].ok = TRUE /\ h[0].rows = agents
    BY <1>2 DEF UpdateSteps
  <2>2. Updated(h[0], agents, entries, names, 0)
    BY <2>1 DEF Updated
  <2> QED
    BY <1>1, <2>2
<1>4. ASSUME NEW k \in 1 .. n, k - 1 \in S PROVE k \in S
  <2>1. Updated(h[k - 1], agents, entries, names, k - 1)
    BY <1>4
  <2>2. Updated(UpdateRow(h[k - 1], entries, names, k), agents, entries, names, k)
    BY <2>1, UpdateRowIs
  <2>3. k \in 0 .. n
    BY <1>1
  <2> QED
    BY <1>2, <2>2, <2>3 DEF UpdateSteps
<1> HIDE DEF S
<1>5. \A k \in 0 .. n : k \in S
  BY <1>1, <1>3, <1>4, Climb
<1>6. n \in S
  BY <1>1, <1>5
<1> QED
  BY <1>2, <1>6 DEF S, UpdateSteps

(* The rows that stay: f says which position each of them had.            *)
Picked(f, rows, updated, P, k) ==
    /\ f \in [1 .. Len(rows) -> {p \in P : p <= k}]
    /\ \A a \in 1 .. Len(rows) : rows[a] = updated[f[a]]
    /\ \A a, b \in 1 .. Len(rows) : a < b => f[a] < f[b]
    /\ \A q \in P : q <= k => \E a \in 1 .. Len(rows) : f[a] = q

LEMMA KeepRowIs ==
  ASSUME NEW updated \in Seq(MarketAgents), NEW entries,
         Positions(entries) \subseteq 1 .. Len(updated),
         NEW k \in 1 .. Len(updated), NEW rows \in Seq(MarketAgents),
         NEW f, Picked(f, rows, updated, Positions(entries), k - 1)
  PROVE  /\ KeepRow(rows, updated, entries, k) \in Seq(MarketAgents)
         /\ \E g : Picked(g, KeepRow(rows, updated, entries, k), updated,
                          Positions(entries), k)
<1> DEFINE P == Positions(entries)
<1>1. /\ Len(updated) \in Nat /\ k \in Nat /\ Len(rows) \in Nat
      /\ updated[k] \in MarketAgents /\ P \subseteq Nat
  BY RowsAre
<1>2. CASE k \notin P
  <2>1. KeepRow(rows, updated, entries, k) = rows
    BY <1>2 DEF KeepRow
  <2>2. \A p \in P : p <= k <=> p <= k - 1
    BY <1>1, <1>2
  <2>3. {p \in P : p <= k} = {p \in P : p <= k - 1}
    BY <2>2
  <2> HIDE DEF P
  <2>4. Picked(f, rows, updated, P, k)
    BY <2>2, <2>3 DEF Picked, P
  <2> QED
    BY <2>1, <2>4 DEF P
<1>3. CASE k \in P
  <2> DEFINE c == Append(rows, updated[k])
             m == Len(rows)
             g == [a \in 1 .. m + 1 |-> IF a = m + 1 THEN k ELSE f[a]]
  <2>1. KeepRow(rows, updated, entries, k) = c
    BY <1>3 DEF KeepRow
  <2>2. /\ c \in Seq(MarketAgents) /\ Len(c) = m + 1
        /\ \A a \in 1 .. m : c[a] = rows[a]
        /\ c[m + 1] = updated[k]
    BY <1>1, AppendIs
  <2>3. m \in Nat
    BY <1>1
  <2>4. \A a \in 1 .. m : f[a] \in P /\ f[a] <= k - 1 /\ f[a] \in Nat
    BY <1>1 DEF Picked
  <2> HIDE DEF c, m
  <2>5. /\ g[m + 1] = k
        /\ \A a \in 1 .. m : g[a] = f[a]
        /\ \A a \in 1 .. m + 1 : a \in 1 .. m \/ a = m + 1
    BY <2>3
  <2>6. g \in [1 .. m + 1 -> {p \in P : p <= k}]
    <3>1. ASSUME NEW a \in 1 .. m + 1
          PROVE  (IF a = m + 1 THEN k ELSE f[a]) \in {p \in P : p <= k}
      <4>1. CASE a = m + 1
        BY <1>1, <1>3, <4>1
      <4>2. CASE a # m + 1
        <5>1. a \in 1 .. m
          BY <2>5, <4>2
        <5>2. f[a] \in P /\ f[a] <= k
          BY <1>1, <2>4, <5>1
        <5> QED
          BY <4>2, <5>2
      <4> QED
        BY <4>1, <4>2
    <3> QED
      BY <3>1
  <2> HIDE DEF g
  <2>7. \A a \in 1 .. m + 1 : c[a] = updated[g[a]]
    <3>1. \A a \in 1 .. m : rows[a] = updated[f[a]]
      BY DEF Picked, m
    <3> QED
      BY <2>2, <2>5, <3>1
  <2>8. ASSUME NEW a \in 1 .. m + 1, NEW b \in 1 .. m + 1, a < b PROVE g[a] < g[b]
    <3>1. a \in 1 .. m
      BY <2>3, <2>8
    <3>2. CASE b = m + 1
      BY <1>1, <2>4, <2>5, <3>1, <3>2
    <3>3. CASE b # m + 1
      <4>1. b \in 1 .. m
        BY <2>5, <3>3
      <4> QED
        BY <2>5, <2>8, <3>1, <4>1 DEF Picked, m
    <3> QED
      BY <3>2, <3>3
  <2>9. ASSUME NEW q \in P, q <= k PROVE \E a \in 1 .. m + 1 : g[a] = q
    <3>1. CASE q = k
      <4>1. m + 1 \in 1 .. m + 1
        BY <2>3
      <4> QED
        BY <2>5, <3>1, <4>1
    <3>2. CASE q # k
      <4>1. q <= k - 1
        BY <1>1, <2>9, <3>2
      <4>2. PICK a \in 1 .. m : f[a] = q
        BY <4>1 DEF Picked, m
      <4>3. a \in 1 .. m + 1
        BY <2>3
      <4> QED
        BY <2>5, <4>2, <4>3
    <3> QED
      BY <3>1, <3>2
  <2> HIDE DEF P
  <2>10. Picked(g, c, updated, P, k)
    BY <2>2, <2>6, <2>7, <2>8, <2>9 DEF Picked
  <2> QED
    BY <2>1, <2>2, <2>10 DEF P
<1> QED
  BY <1>2, <1>3

KeepSteps(h, updated, entries, n) ==
    /\ h[0] = <<>>
    /\ \A k \in 1 .. n : h[k] = KeepRow(h[k - 1], updated, entries, k)
    /\ KeptRows(updated, entries) = h[n]

\* The rows that stay are gathered one position after the other.
LEMMA KeepChain ==
  ASSUME NEW updated, NEW entries, NEW n \in Nat, DOMAIN updated = 1 .. n
  PROVE  \E h : KeepSteps(h, updated, entries, n)
<1> DEFINE first == <<>>
           id == [p \in DOMAIN updated |-> p]
           Step(g, s) == IF s = {} THEN first
                         ELSE KeepRow(g[s \ {Max(s)}], updated, entries, id[Max(s)])
           Solves(g, m) == \A s \in SUBSET (1 .. m) : g[s] = Step(g, s)
<1>1. ASSUME NEW g, NEW m \in Nat \ {0}, Solves(g, m - 1)
      PROVE  Solves([s \in SUBSET (1 .. m) |-> Step(g, s)], m)
  <2> DEFINE f == [s \in SUBSET (1 .. m) |-> Step(g, s)]
  <2>1. ASSUME NEW s \in SUBSET (1 .. m) PROVE f[s] = Step(f, s)
    <3>1. CASE s = {}
      BY <3>1
    <3>2. CASE s # {}
      <4> DEFINE r == s \ {Max(s)}
      <4>1. r \in SUBSET (1 .. m - 1) /\ r \in SUBSET (1 .. m)
        BY <3>2, BelowMax
      <4>2. f[r] = Step(g, r) /\ g[r] = Step(g, r)
        BY <4>1, <1>1
      <4>3. f[s] = Step(g, s)
        OBVIOUS
      <4> HIDE DEF f
      <4> QED
        BY <3>2, <4>2, <4>3
    <3> QED
      BY <3>1, <3>2
  <2> QED
    BY <2>1
<1>2. Solves([s \in {{}} |-> first], 0)
  <2>1. \A s \in SUBSET (1 .. 0) : s = {}
    OBVIOUS
  <2> QED
    BY <2>1
<1> HIDE DEF Solves
<1>3. \A m \in 0 .. n : \E g : Solves(g, m)
  <2> DEFINE bad == {m \in 0 .. n : ~ \E g : Solves(g, m)}
  <2> SUFFICES ASSUME bad # {} PROVE FALSE
    OBVIOUS
  <2>1. PICK m \in bad : \A x \in bad : m <= x
    <3>1. bad \subseteq Nat
      OBVIOUS
    <3> QED
      BY <3>1, LeastOf
  <2>2. m \in Nat \ {0} /\ m - 1 \in 0 .. n
    BY <1>2, <2>1
  <2>3. PICK g : Solves(g, m - 1)
    BY <2>1, <2>2
  <2>4. \E f : Solves(f, m)
    BY <1>1, <2>2, <2>3
  <2> QED
    BY <2>1, <2>4
<1>4. PICK g : Solves(g, n)
  BY <1>3
<1> DEFINE c == [s \in SUBSET (1 .. n) |-> g[s]]
           d == CHOOSE f : f = [s \in SUBSET (1 .. n) |-> Step(f, s)]
<1>5. d = [s \in SUBSET (1 .. n) |-> Step(d, s)]
  <2>1. ASSUME NEW s \in SUBSET (1 .. n) PROVE g[s] = Step(c, s)
    <3>1. g[s] = Step(g, s)
      BY <1>4 DEF Solves
    <3>2. CASE s # {}
      <4>1. c[s \ {Max(s)}] = g[s \ {Max(s)}]
        OBVIOUS
      <4> HIDE DEF c
      <4> QED
        BY <3>1, <4>1
    <3> QED
      BY <3>1, <3>2
  <2>2. c = [s \in SUBSET (1 .. n) |-> Step(c, s)]
    BY <2>1
  <2> HIDE DEF c, Step
  <2> QED
    BY <2>2
<1>6. KeptRows(updated, entries) = d[1 .. n]
  BY DEF KeptRows, FoldLeft, MapThenFoldSet
<1> HIDE DEF d
<1>7. \A k \in 0 .. n : d[1 .. k] = Step(d, 1 .. k)
  <2> TAKE k \in 0 .. n
  <2>1. (1 .. k) \in SUBSET (1 .. n)
    OBVIOUS
  <2> HIDE DEF Step
  <2> QED
    BY <1>5, <2>1
<1> DEFINE h == [k \in 0 .. n |-> d[1 .. k]]
<1>8. h[0] = first /\ h[n] = d[1 .. n]
  <2>1. 0 \in 0 .. n /\ n \in 0 .. n /\ 1 .. 0 = {}
    OBVIOUS
  <2>2. d[1 .. 0] = first
    BY <1>7, <2>1
  <2> QED
    BY <2>1, <2>2
<1>9. ASSUME NEW k \in 1 .. n
      PROVE  h[k] = KeepRow(h[k - 1], updated, entries, k)
  <2>1. 1 .. k # {} /\ Max(1 .. k) = k /\ (1 .. k) \ {Max(1 .. k)} = 1 .. k - 1
    <3>1. k \in Nat \ {0}
      OBVIOUS
    <3> QED
      BY <3>1, MaxTo
  <2>2. h[k] = d[1 .. k] /\ h[k - 1] = d[1 .. k - 1]
    <3>1. k \in 0 .. n /\ k - 1 \in 0 .. n
      OBVIOUS
    <3> QED
      BY <3>1
  <2>3. d[1 .. k] = Step(d, 1 .. k)
    <3>1. k \in 0 .. n
      OBVIOUS
    <3> HIDE DEF Step
    <3> QED
      BY <1>7, <3>1
  <2> HIDE DEF h
  <2>4. id[k] = k
    <3>1. k \in 1 .. n
      OBVIOUS
    <3> QED
      BY <3>1
  <2>5. d[1 .. k] = KeepRow(d[1 .. k - 1], updated, entries, id[k])
    BY <2>1, <2>3
  <2>6. h[k] = KeepRow(h[k - 1], updated, entries, id[k])
    BY <2>2, <2>5
  <2> QED
    BY <2>4, <2>6
<1> HIDE DEF h
<1> QED
  BY <1>6, <1>8, <1>9 DEF KeepSteps

\* What stays is what the payload keeps, in the old order.
LEMMA KeptRowsAre ==
  ASSUME NEW updated \in Seq(MarketAgents), NEW entries,
         Positions(entries) \subseteq 1 .. Len(updated)
  PROVE  /\ KeptRows(updated, entries) \in Seq(MarketAgents)
         /\ \E f : Picked(f, KeptRows(updated, entries), updated, Positions(entries),
                          Len(updated))
<1> DEFINE n == Len(updated)
           P == Positions(entries)
<1>1. n \in Nat /\ DOMAIN updated = 1 .. n
  BY RowsAre
<1> HIDE DEF n
<1>2. PICK h : KeepSteps(h, updated, entries, n)
  BY <1>1, KeepChain
<1> DEFINE S == {k \in 0 .. n : /\ h[k] \in Seq(MarketAgents)
                                /\ \E f : Picked(f, h[k], updated, P, k)}
<1>3. 0 \in S
  <2>1. h[0] = <<>>
    BY <1>2 DEF KeepSteps
  <2>2. <<>> \in Seq(MarketAgents) /\ Len(<<>>) = 0
    OBVIOUS
  <2>3. \A q \in P : ~ (q <= 0)
    BY <1>1 DEF n
  <2> DEFINE f == [a \in 1 .. 0 |-> a]
  <2>4. f \in [1 .. 0 -> {p \in P : p <= 0}]
    OBVIOUS
  <2> HIDE DEF f, P
  <2>5. Picked(f, <<>>, updated, P, 0)
    BY <2>2, <2>3, <2>4 DEF Picked
  <2>6. h[0] \in Seq(MarketAgents) /\ \E g : Picked(g, h[0], updated, P, 0)
    BY <2>1, <2>2, <2>5
  <2>7. 0 \in 0 .. n
    BY <1>1
  <2> QED
    BY <2>6, <2>7
<1>4. ASSUME NEW k \in 1 .. n, k - 1 \in S PROVE k \in S
  <2>1. h[k - 1] \in Seq(MarketAgents) /\ \E f : Picked(f, h[k - 1], updated, P, k - 1)
    BY <1>4
  <2>2. PICK f : Picked(f, h[k - 1], updated, P, k - 1)
    BY <2>1
  <2>3. /\ KeepRow(h[k - 1], updated, entries, k) \in Seq(MarketAgents)
        /\ \E g : Picked(g, KeepRow(h[k - 1], updated, entries, k), updated, P, k)
    BY <2>1, <2>2, KeepRowIs DEF n
  <2>4. k \in 0 .. n /\ h[k] = KeepRow(h[k - 1], updated, entries, k)
    BY <1>1, <1>2 DEF KeepSteps
  <2> QED
    BY <2>3, <2>4
<1> HIDE DEF S
<1>5. \A k \in 0 .. n : k \in S
  BY <1>1, <1>3, <1>4, Climb
<1>6. n \in S
  BY <1>1, <1>5
<1> QED
  BY <1>2, <1>6 DEF S, KeepSteps, n

-----------------------------------------------------------------------------
(* Agents that are added.                                                  *)

LEMMA GrowRows ==
  ASSUME NEW rows, NEW A, NEW L, MarketOK(rows, A, L), NEW M, L \subseteq M,
         NEW row \in MarketAgents, MarketNameFree(rows, row.name),
         Key(row) \in A, row.source \in M \cup {NoSource}
  PROVE  MarketOK(Append(rows, row), A, M)
<1> DEFINE c == Append(rows, row)
           m == Len(rows)
<1>1. rows \in Seq(MarketAgents)
  BY DEF MarketOK
<1>2. /\ c \in Seq(MarketAgents) /\ DOMAIN c = 1 .. m + 1
      /\ \A i \in 1 .. m : c[i] = rows[i]
      /\ c[m + 1] = row /\ m \in Nat /\ DOMAIN rows = 1 .. m
  BY <1>1, AppendIs
<1> HIDE DEF c, m
<1>3. \A i \in 1 .. m + 1 : i \in 1 .. m \/ i = m + 1
  BY <1>2
<1>4. ASSUME NEW i \in 1 .. m PROVE rows[i].name # row.name
  BY <1>2 DEF MarketNameFree, Names
<1>5. ASSUME NEW i \in 1 .. m + 1
      PROVE  Key(c[i]) \in A /\ c[i].source \in M \cup {NoSource}
  <2>1. CASE i = m + 1
    BY <1>2, <2>1
  <2>2. CASE i \in 1 .. m
    BY <1>2, <2>2 DEF MarketOK
  <2> QED
    BY <1>3, <2>1, <2>2
<1>6. Distinct(c)
  <2> SUFFICES ASSUME NEW i \in 1 .. m + 1, NEW j \in 1 .. m + 1, c[i].name = c[j].name
               PROVE  i = j
    BY <1>2 DEF Distinct
  <2>1. CASE i = m + 1 \/ j = m + 1
    BY <1>2, <1>3, <1>4, <2>1
  <2>2. CASE i \in 1 .. m /\ j \in 1 .. m
    BY <1>2, <2>2 DEF MarketOK, Distinct
  <2> QED
    BY <1>3, <2>1, <2>2
<1> QED
  BY <1>2, <1>5, <1>6 DEF MarketOK, c

LEMMA CreateInIs ==
  ASSUME NEW lib, NEW A, LibOK(lib, A), Room(lib, 1),
         NEW name \in AgentNames, NEW config \in Configs, Key(config) \in A,
         LibraryNameFree(lib, name, {})
  PROVE  /\ NewLibraryId(lib) \in LibraryIds \ LibraryRows(lib)
         /\ LibOK(CreateIn(lib, name, config), A)
         /\ CreateIn(lib, name, config)[NewLibraryId(lib)] = LibraryRow(name, config)
         /\ LibraryRow(name, config).name = name
         /\ Config(LibraryRow(name, config)) = config
         /\ \A l \in LibraryRows(lib) : CreateIn(lib, name, config)[l] = lib[l]
         /\ LibraryRows(CreateIn(lib, name, config)) = LibraryRows(lib) \cup {NewLibraryId(lib)}
<1> DEFINE id == NewLibraryId(lib)
           row == LibraryRow(name, config)
           new == CreateIn(lib, name, config)
<1>1. lib \in [LibraryIds -> LibraryAgents \cup {NoRow}] /\ DOMAIN lib = LibraryIds
  BY DEF LibOK
<1>2. Room(lib, 1)
  BY <1>1
<1>3. id \in LibraryIds /\ lib[id] = NoRow /\ id \notin LibraryRows(lib)
  <2>1. LibraryIds \ LibraryRows(lib) # {}
    <3> SUFFICES ASSUME LibraryIds \ LibraryRows(lib) = {} PROVE FALSE
      OBVIOUS
    <3>1. Cardinality({}) >= 1
      BY <1>1, <1>2 DEF Room
    <3> QED
      BY <3>1, FS_EmptySet
  <2>2. \E l \in DOMAIN lib : lib[l] = NoRow
    BY <1>1, <2>1 DEF LibraryRows
  <2> QED
    BY <1>1, <2>2 DEF NewLibraryId, LibraryRows
<1> HIDE DEF id
<1>4. /\ row \in LibraryAgents /\ row.name = name /\ Config(row) = config
      /\ Key(row) = Key(config) /\ row # NoRow
  <2>1. /\ row \in LibraryAgents /\ row.name = name /\ Config(row) = config
        /\ Key(row) = Key(config)
    BY DEF LibraryRow, LibraryAgents, Configs, Config, Key
  <2> QED
    BY <2>1, StoreAssumption
<1>5. new = [lib EXCEPT ![id] = row]
  BY DEF CreateIn, id
<1> HIDE DEF row, new
<1>6. /\ new \in [LibraryIds -> LibraryAgents \cup {NoRow}]
      /\ new[id] = row
      /\ \A l \in LibraryIds : l # id => new[l] = lib[l]
  <2> HIDE DEF LibraryAgents
  <2> QED
    BY <1>1, <1>3, <1>4, <1>5
<1>7. LibraryRows(new) = LibraryRows(lib) \cup {id}
  BY <1>1, <1>3, <1>4, <1>6 DEF LibraryRows
<1>8. \A l \in LibraryRows(lib) : new[l] = lib[l]
  BY <1>1, <1>3, <1>6 DEF LibraryRows
<1>9. \A l \in LibraryRows(lib) : Lower(lib[l].name) # Lower(name)
  BY DEF LibraryNameFree
<1>10. ASSUME NEW l \in LibraryRows(new)
       PROVE  /\ Key(new[l]) \in A
              /\ \A k \in LibraryRows(new) :
                    Lower(new[k].name) = Lower(new[l].name) => k = l
  <2>1. CASE l = id
    BY <1>4, <1>6, <1>7, <1>8, <1>9, <2>1
  <2>2. CASE l \in LibraryRows(lib)
    BY <1>4, <1>6, <1>7, <1>8, <1>9, <2>2 DEF LibOK
  <2> QED
    BY <1>7, <2>1, <2>2
<1> QED
  BY <1>3, <1>4, <1>6, <1>7, <1>8, <1>10 DEF LibOK, id, row, new

(* What has been written so far, when the library was lib.                 *)
Grown(acc, lib, A) ==
    /\ LibOK(acc.lib, A)
    /\ \A l \in LibraryRows(lib) : l \in LibraryRows(acc.lib) /\ acc.lib[l] = lib[l]
    /\ MarketOK(acc.rows, A, LibraryRows(acc.lib))

LEMMA FormConfigIs ==
  ASSUME NEW content \in Contents, NEW params \in Params
  PROVE  FormConfig(content, params) \in Configs /\ Key(FormConfig(content, params)) = Key(content)
  BY StoreAssumption DEF FormConfig, Configs, Key

\* A write that was refused once stays refused.
LEMMA AddEntryOk ==
  ASSUME NEW acc, NEW e, NEW dom, IsEntry(e, dom), NEW name, AddEntry(acc, e, name).ok
  PROVE  acc.ok
<1>1. CASE e.mode = "scenario"
  BY <1>1 DEF AddEntry
<1>2. CASE e.mode = "new"
  BY <1>2 DEF AddEntry
<1>3. CASE e.mode = "library"
  <2>1. AddEntry(acc, e, name).ok = (acc.ok /\ MarketNameFree(acc.rows, name))
    BY <1>3 DEF AddEntry
  <2> QED
    BY <2>1, Zenon
<1> QED
  BY <1>1, <1>2, <1>3 DEF IsEntry

\* An entry that is written leaves everything sound.
LEMMA AddEntryIs ==
  ASSUME NEW lib, NEW A, LibOK(lib, A), NEW acc, Grown(acc, lib, A),
         NEW e, NEW dom, IsEntry(e, dom),
         e.content # NoContent => Key(e.content) \in A,
         e.mode = "library" => e.lib \in LibraryRows(lib),
         NEW name \in AgentNames, AddEntry(acc, e, name).ok
  PROVE  Grown(AddEntry(acc, e, name), lib, A) /\ acc.ok
<1> DEFINE new == AddEntry(acc, e, name)
<1>1. CASE e.mode = "scenario"
  BY <1>1 DEF AddEntry
<1>2. CASE e.mode = "new"
  <2> DEFINE config == FormConfig(e.content, NoParams)
             id == NewLibraryId(acc.lib)
             row == AgentRow(name, config, id)
  <2>1. e.content \in Contents /\ Key(e.content) \in A
    BY <1>2 DEF IsEntry
  <2>2. config \in Configs /\ Key(config) \in A
    BY <2>1, FormConfigIs DEF Params
  <2> HIDE DEF config
  <2>3. new = [ok   |-> /\ acc.ok
                        /\ Room(acc.lib, 1)
                        /\ LibraryNameFree(acc.lib, name, {})
                        /\ MarketNameFree(acc.rows, name),
               lib  |-> IF Room(acc.lib, 1) THEN CreateIn(acc.lib, name, config)
                                            ELSE acc.lib,
               rows |-> Append(acc.rows,
                           AgentRow(name, config, IF Room(acc.lib, 1) THEN id ELSE NoSource))]
    BY <1>2 DEF AddEntry, config
  <2>4. /\ acc.ok /\ Room(acc.lib, 1)
        /\ LibraryNameFree(acc.lib, name, {}) /\ MarketNameFree(acc.rows, name)
    BY <2>3
  <2>5. new.lib = CreateIn(acc.lib, name, config) /\ new.rows = Append(acc.rows, row)
    BY <2>3, <2>4
  <2>6. LibOK(acc.lib, A)
    BY DEF Grown
  <2>7. /\ id \in LibraryIds /\ LibOK(new.lib, A)
        /\ \A l \in LibraryRows(acc.lib) : new.lib[l] = acc.lib[l]
        /\ LibraryRows(new.lib) = LibraryRows(acc.lib) \cup {id}
    BY <2>2, <2>4, <2>5, <2>6, CreateInIs
  <2> HIDE DEF id, new
  <2>8. /\ row \in MarketAgents /\ row.name = name /\ row.source = id
        /\ Key(row) = Key(config)
    BY <2>2, <2>7, AgentRowIs
  <2> HIDE DEF row
  <2>9. MarketOK(Append(acc.rows, row), A, LibraryRows(new.lib))
    <3>1. MarketOK(acc.rows, A, LibraryRows(acc.lib))
      BY DEF Grown
    <3>2. LibraryRows(acc.lib) \subseteq LibraryRows(new.lib) /\ id \in LibraryRows(new.lib)
      BY <2>7
    <3>3. MarketNameFree(acc.rows, row.name) /\ Key(row) \in A
          /\ row.source \in LibraryRows(new.lib) \cup {NoSource}
      BY <2>2, <2>4, <2>8, <3>2
    <3> QED
      BY <2>8, <3>1, <3>2, <3>3, GrowRows
  <2>10. \A l \in LibraryRows(lib) : l \in LibraryRows(new.lib) /\ new.lib[l] = lib[l]
    BY <2>7 DEF Grown
  <2> QED
    BY <2>4, <2>5, <2>7, <2>9, <2>10 DEF Grown, new
<1>3. CASE e.mode = "library"
  <2> DEFINE copy == AgentRow(name, Config(acc.lib[e.lib]), e.lib)
             row == IF e.content = NoContent THEN copy ELSE Edited(copy, name, e.content)
  <2>1. new = [ok   |-> acc.ok /\ MarketNameFree(acc.rows, name),
               lib  |-> acc.lib,
               rows |-> Append(acc.rows, row)]
    <3>1. e.mode # "scenario" /\ e.mode # "new"
      BY <1>3
    <3> QED
      BY <1>3, <3>1 DEF AddEntry
  <2> HIDE DEF row
  <2>2. acc.ok /\ MarketNameFree(acc.rows, name)
    <3>1. new.ok
      OBVIOUS
    <3> HIDE DEF new
    <3>2. new.ok = (acc.ok /\ MarketNameFree(acc.rows, name))
      BY <2>1
    <3> QED
      BY <3>1, <3>2, Zenon
  <2>3. e.lib \in LibraryRows(acc.lib) /\ LibOK(acc.lib, A)
    BY <1>3 DEF Grown
  <2>4. e.lib \in LibraryIds /\ acc.lib[e.lib] \in LibraryAgents
    BY <2>3, LibraryRowIs
  <2>5. Config(acc.lib[e.lib]) \in Configs /\ Key(Config(acc.lib[e.lib])) \in A
    <3>1. Key(acc.lib[e.lib]) \in A
      BY <2>3 DEF LibOK
    <3> QED
      BY <2>4, <3>1, ConfigIs
  <2>6. /\ copy \in MarketAgents /\ copy.name = name /\ copy.source = e.lib
        /\ Key(copy) \in A
    <3>1. e.lib \in LibraryIds \cup {NoSource}
      BY <2>4
    <3> HIDE DEF copy
    <3>2. /\ copy \in MarketAgents /\ copy.name = name /\ copy.source = e.lib
          /\ Key(copy) = Key(Config(acc.lib[e.lib]))
      BY <2>5, <3>1, AgentRowIs DEF copy
    <3> QED
      BY <2>5, <3>2
  <2> HIDE DEF copy
  <2>7. /\ row \in MarketAgents /\ row.name = name /\ row.source = e.lib
        /\ Key(row) \in A
    <3>1. CASE e.content = NoContent
      BY <2>6, <3>1 DEF row
    <3>2. CASE e.content # NoContent
      <4>1. e.content \in Contents
        BY <3>2 DEF IsEntry
      <4> QED
        BY <2>6, <3>2, <4>1, EditedIs DEF row
    <3> QED
      BY <3>1, <3>2
  <2> HIDE DEF new
  <2>8. MarketOK(Append(acc.rows, row), A, LibraryRows(acc.lib))
    <3>1. MarketOK(acc.rows, A, LibraryRows(acc.lib))
      BY DEF Grown
    <3> QED
      BY <2>2, <2>3, <2>7, <3>1, GrowRows
  <2> QED
    BY <2>1, <2>2, <2>8 DEF Grown, new
<1> QED
  BY <1>1, <1>2, <1>3 DEF IsEntry

ContentsFit(entries, n, A) ==
    \A i \in 1 .. n : entries[i].content # NoContent => Key(entries[i].content) \in A

\* What is checked before anything is written.
LEMMA PayloadIsChecked ==
  ASSUME NEW agents, NEW entries \in Payloads(agents), ValidPayload(agents, entries),
         NEW A, LibOK(library, A), \A c \in Contents : ValidContent(c) => Key(c) \in A
  PROVE  /\ IsPayload(entries, DOMAIN agents, Len(entries))
         /\ CopiesExist(entries, Len(entries)) /\ ContentsFit(entries, Len(entries), A)
         /\ PositionsDiffer(entries)
         /\ EntryNames(entries) \in Seq(AgentNames)
         /\ Len(EntryNames(entries)) = Len(entries)
         /\ NamesDiffer(EntryNames(entries), Len(entries))
<1> DEFINE n == Len(entries)
<1>1. IsPayload(entries, DOMAIN agents, n)
  BY PayloadIs
<1>2. n \in Nat /\ DOMAIN entries = 1 .. n
  BY <1>1 DEF IsPayload
<1> HIDE DEF n
<1>3. CopiesExist(entries, n)
  <2> SUFFICES ASSUME NEW i \in 1 .. n, entries[i].mode = "library"
               PROVE  entries[i].lib \in LibraryRows(library)
    BY DEF CopiesExist
  <2>1. entries[i].lib \in LibraryIds
    BY <1>1 DEF IsPayload, IsEntry
  <2>2. library[entries[i].lib] # NoRow
    BY <1>2 DEF ValidPayload
  <2>3. DOMAIN library = LibraryIds
    BY DEF LibOK
  <2> QED
    BY <2>1, <2>2, <2>3 DEF LibraryRows
<1>4. ContentsFit(entries, n, A)
  <2> SUFFICES ASSUME NEW i \in 1 .. n, entries[i].content # NoContent
               PROVE  Key(entries[i].content) \in A
    BY DEF ContentsFit
  <2>1. entries[i].content \in Contents
    BY <1>1 DEF IsPayload, IsEntry
  <2>2. ValidContent(entries[i].content)
    BY <1>2 DEF ValidPayload
  <2> QED
    BY <2>1, <2>2
<1>5. PositionsDiffer(entries)
  BY DEF ValidPayload, PositionsDiffer
<1>6. EntryNames(entries) \in Seq(AgentNames) /\ Len(EntryNames(entries)) = n
  BY <1>1, <1>3, EntryNamesAre
<1>7. NamesDiffer(EntryNames(entries), n)
  BY <1>2 DEF ValidPayload, NamesDiffer
<1> QED
  BY <1>1, <1>3, <1>4, <1>5, <1>6, <1>7 DEF n

\* The agents that stay are sound.
LEMMA KeptIsOK ==
  ASSUME NEW agents, NEW A, NEW L, MarketOK(agents, A, L),
         NEW entries, NEW n, IsPayload(entries, DOMAIN agents, n), PositionsDiffer(entries),
         ContentsFit(entries, n, A),
         NEW names \in Seq(AgentNames), Len(names) = n, NamesDiffer(names, n)
  PROVE  MarketOK(KeptRows(UpdateRows(agents, entries, names).rows, entries), A, L)
<1> DEFINE u == UpdateRows(agents, entries, names)
           P == Positions(entries)
           c == KeptRows(u.rows, entries)
<1>1. /\ agents \in Seq(MarketAgents)
      /\ Len(agents) \in Nat /\ DOMAIN agents = 1 .. Len(agents)
      /\ n \in Nat /\ DOMAIN entries = 1 .. n
  BY RowsAre DEF MarketOK, IsPayload
<1>2. Updated(u, agents, entries, names, n)
  BY <1>1, UpdateRowsAre
<1> HIDE DEF u
<1>3. u.rows \in Seq(MarketAgents) /\ Len(u.rows) = Len(agents)
  BY <1>2 DEF Updated
<1>4. ASSUME NEW p \in P
      PROVE  \E i \in 1 .. n :
                /\ i \in Kept(entries) /\ p = entries[i].pos /\ p \in 1 .. Len(agents)
                /\ u.rows[p] = Edited(agents[p], names[i], entries[i].content)
                /\ entries[i].content \in Contents /\ Key(entries[i].content) \in A
                /\ names[i] \in AgentNames
  <2>1. PICK i \in Kept(entries) : p = entries[i].pos
    BY DEF Positions
  <2>2. i \in 1 .. n /\ entries[i].mode = "scenario"
    BY <1>1, <2>1 DEF Kept
  <2>3. /\ p \in 1 .. Len(agents) /\ entries[i].content \in Contents
        /\ entries[i].content # NoContent
    <3>1. IsEntry(entries[i], DOMAIN agents)
      BY <2>2 DEF IsPayload
    <3> QED
      BY <1>1, <2>1, <2>2, <3>1 DEF IsEntry
  <2>4. u.rows[p] = Edited(agents[p], names[i], entries[i].content)
    BY <1>2, <2>1, <2>2 DEF Updated
  <2>5. Key(entries[i].content) \in A
    BY <2>2, <2>3 DEF ContentsFit
  <2>6. names[i] \in AgentNames
    BY <2>2
  <2> QED
    BY <2>1, <2>2, <2>3, <2>4, <2>5, <2>6
<1>5. P \subseteq 1 .. Len(u.rows)
  BY <1>3, <1>4
<1>6. /\ c \in Seq(MarketAgents)
      /\ \E f : Picked(f, c, u.rows, P, Len(u.rows))
  BY <1>3, <1>5, KeptRowsAre
<1>7. PICK f : Picked(f, c, u.rows, P, Len(u.rows))
  BY <1>6
<1> HIDE DEF c, P
<1>8. Len(c) \in Nat /\ DOMAIN c = 1 .. Len(c)
  BY <1>6, RowsAre
<1>9. ASSUME NEW a \in 1 .. Len(c)
      PROVE  \E i \in 1 .. n :
                /\ i \in Kept(entries) /\ f[a] = entries[i].pos
                /\ c[a].name = names[i] /\ Key(c[a]) \in A
                /\ c[a].source \in L \cup {NoSource}
  <2>1. f[a] \in P /\ c[a] = u.rows[f[a]]
    BY <1>7 DEF Picked
  <2> DEFINE p == f[a]
  <2>2. PICK i \in 1 .. n :
                /\ i \in Kept(entries) /\ p = entries[i].pos /\ p \in 1 .. Len(agents)
                /\ u.rows[p] = Edited(agents[p], names[i], entries[i].content)
                /\ entries[i].content \in Contents /\ Key(entries[i].content) \in A
                /\ names[i] \in AgentNames
    BY <1>4, <2>1
  <2> HIDE DEF p
  <2>3. agents[p] \in MarketAgents /\ agents[p].source \in L \cup {NoSource}
    BY <1>1, <2>2, RowsAre DEF MarketOK
  <2>4. /\ u.rows[p].name = names[i] /\ u.rows[p].source = agents[p].source
        /\ Key(u.rows[p]) = Key(entries[i].content)
    BY <2>2, <2>3, EditedIs
  <2> QED
    BY <2>1, <2>2, <2>3, <2>4 DEF p
<1>10. Distinct(c)
  <2> SUFFICES ASSUME NEW a \in 1 .. Len(c), NEW b \in 1 .. Len(c), c[a].name = c[b].name
               PROVE  a = b
    BY <1>8 DEF Distinct
  <2>1. PICK i \in 1 .. n : f[a] = entries[i].pos /\ c[a].name = names[i]
    BY <1>9
  <2>2. PICK j \in 1 .. n : f[b] = entries[j].pos /\ c[b].name = names[j]
    BY <1>9
  <2>3. i = j
    BY <2>1, <2>2 DEF NamesDiffer
  <2>4. f[a] = f[b] /\ f[a] \in P
    BY <1>7, <2>1, <2>2, <2>3 DEF Picked
  <2>5. f[a] \in Nat
    BY <1>3, <1>1, <1>4, <2>4
  <2>6. ~ (a < b) /\ ~ (b < a)
    BY <1>7, <2>4, <2>5 DEF Picked
  <2> QED
    BY <1>8, <2>6
<1>11. \A a \in 1 .. Len(c) : Key(c[a]) \in A /\ c[a].source \in L \cup {NoSource}
  BY <1>9
<1> QED
  BY <1>6, <1>8, <1>10, <1>11 DEF MarketOK, c, u

WriteSteps(h, agents, entries, n) ==
    /\ h[0] = [ok   |-> UpdateRows(agents, entries, EntryNames(entries)).ok,
               lib  |-> library,
               rows |-> KeptRows(UpdateRows(agents, entries, EntryNames(entries)).rows, entries)]
    /\ \A k \in 1 .. n : h[k] = AddEntry(h[k - 1], entries[k], EntryNames(entries)[k])
    /\ Write(agents, entries) = h[n]

\* The other entries are written one after the other.
LEMMA WriteChain ==
  ASSUME NEW agents, NEW entries, NEW n \in Nat, DOMAIN entries = 1 .. n
  PROVE  \E h : WriteSteps(h, agents, entries, n)
<1> DEFINE first == [ok   |-> UpdateRows(agents, entries, EntryNames(entries)).ok,
               lib  |-> library,
               rows |-> KeptRows(UpdateRows(agents, entries, EntryNames(entries)).rows, entries)]
           id == [i \in DOMAIN entries |-> i]
           Step(g, s) == IF s = {} THEN first
                         ELSE AddEntry(g[s \ {Max(s)}], entries[id[Max(s)]],
                                 EntryNames(entries)[id[Max(s)]])
           Solves(g, m) == \A s \in SUBSET (1 .. m) : g[s] = Step(g, s)
<1>1. ASSUME NEW g, NEW m \in Nat \ {0}, Solves(g, m - 1)
      PROVE  Solves([s \in SUBSET (1 .. m) |-> Step(g, s)], m)
  <2> DEFINE f == [s \in SUBSET (1 .. m) |-> Step(g, s)]
  <2>1. ASSUME NEW s \in SUBSET (1 .. m) PROVE f[s] = Step(f, s)
    <3>1. CASE s = {}
      BY <3>1
    <3>2. CASE s # {}
      <4> DEFINE r == s \ {Max(s)}
      <4>1. r \in SUBSET (1 .. m - 1) /\ r \in SUBSET (1 .. m)
        BY <3>2, BelowMax
      <4>2. f[r] = Step(g, r) /\ g[r] = Step(g, r)
        BY <4>1, <1>1
      <4>3. f[s] = Step(g, s)
        OBVIOUS
      <4> HIDE DEF f
      <4> QED
        BY <3>2, <4>2, <4>3
    <3> QED
      BY <3>1, <3>2
  <2> QED
    BY <2>1
<1>2. Solves([s \in {{}} |-> first], 0)
  <2>1. \A s \in SUBSET (1 .. 0) : s = {}
    OBVIOUS
  <2> QED
    BY <2>1
<1> HIDE DEF Solves
<1>3. \A m \in 0 .. n : \E g : Solves(g, m)
  <2> DEFINE bad == {m \in 0 .. n : ~ \E g : Solves(g, m)}
  <2> SUFFICES ASSUME bad # {} PROVE FALSE
    OBVIOUS
  <2>1. PICK m \in bad : \A x \in bad : m <= x
    <3>1. bad \subseteq Nat
      OBVIOUS
    <3> QED
      BY <3>1, LeastOf
  <2>2. m \in Nat \ {0} /\ m - 1 \in 0 .. n
    BY <1>2, <2>1
  <2>3. PICK g : Solves(g, m - 1)
    BY <2>1, <2>2
  <2>4. \E f : Solves(f, m)
    BY <1>1, <2>2, <2>3
  <2> QED
    BY <2>1, <2>4
<1>4. PICK g : Solves(g, n)
  BY <1>3
<1> DEFINE c == [s \in SUBSET (1 .. n) |-> g[s]]
           d == CHOOSE f : f = [s \in SUBSET (1 .. n) |-> Step(f, s)]
<1>5. d = [s \in SUBSET (1 .. n) |-> Step(d, s)]
  <2>1. ASSUME NEW s \in SUBSET (1 .. n) PROVE g[s] = Step(c, s)
    <3>1. g[s] = Step(g, s)
      BY <1>4 DEF Solves
    <3>2. CASE s # {}
      <4>1. c[s \ {Max(s)}] = g[s \ {Max(s)}]
        OBVIOUS
      <4> HIDE DEF c
      <4> QED
        BY <3>1, <4>1
    <3> QED
      BY <3>1, <3>2
  <2>2. c = [s \in SUBSET (1 .. n) |-> Step(c, s)]
    BY <2>1
  <2> HIDE DEF c, Step
  <2> QED
    BY <2>2
<1>6. Write(agents, entries) = d[1 .. n]
  BY DEF Write, FoldLeft, MapThenFoldSet
<1> HIDE DEF d
<1>7. \A k \in 0 .. n : d[1 .. k] = Step(d, 1 .. k)
  <2> TAKE k \in 0 .. n
  <2>1. (1 .. k) \in SUBSET (1 .. n)
    OBVIOUS
  <2> HIDE DEF Step
  <2> QED
    BY <1>5, <2>1
<1> DEFINE h == [k \in 0 .. n |-> d[1 .. k]]
<1>8. h[0] = first /\ h[n] = d[1 .. n]
  <2>1. 0 \in 0 .. n /\ n \in 0 .. n /\ 1 .. 0 = {}
    OBVIOUS
  <2>2. d[1 .. 0] = first
    BY <1>7, <2>1
  <2> QED
    BY <2>1, <2>2
<1>9. ASSUME NEW k \in 1 .. n
      PROVE  h[k] = AddEntry(h[k - 1], entries[k], EntryNames(entries)[k])
  <2>1. 1 .. k # {} /\ Max(1 .. k) = k /\ (1 .. k) \ {Max(1 .. k)} = 1 .. k - 1
    <3>1. k \in Nat \ {0}
      OBVIOUS
    <3> QED
      BY <3>1, MaxTo
  <2>2. h[k] = d[1 .. k] /\ h[k - 1] = d[1 .. k - 1]
    <3>1. k \in 0 .. n /\ k - 1 \in 0 .. n
      OBVIOUS
    <3> QED
      BY <3>1
  <2>3. d[1 .. k] = Step(d, 1 .. k)
    <3>1. k \in 0 .. n
      OBVIOUS
    <3> HIDE DEF Step
    <3> QED
      BY <1>7, <3>1
  <2> HIDE DEF h
  <2>4. id[k] = k
    <3>1. k \in 1 .. n
      OBVIOUS
    <3> QED
      BY <3>1
  <2>5. d[1 .. k] = AddEntry(d[1 .. k - 1], entries[id[k]], EntryNames(entries)[id[k]])
    BY <2>1, <2>3
  <2>6. h[k] = AddEntry(h[k - 1], entries[id[k]], EntryNames(entries)[id[k]])
    BY <2>2, <2>5
  <2> QED
    BY <2>4, <2>6
<1> HIDE DEF h
<1> QED
  BY <1>6, <1>8, <1>9 DEF WriteSteps

\* A write that no constraint refuses leaves the library and the scenario sound
\* and every library agent as it was.
LEMMA WriteIsOK ==
  ASSUME NEW agents, NEW A, MarketOK(agents, A, LibraryRows(library)), LibOK(library, A),
         NEW entries \in Payloads(agents), ValidPayload(agents, entries),
         \A c \in Contents : ValidContent(c) => Key(c) \in A,
         Write(agents, entries).ok
  PROVE  Grown(Write(agents, entries), library, A)
<1> DEFINE n == Len(entries)
           names == EntryNames(entries)
           u == UpdateRows(agents, entries, names)
<1>1. /\ IsPayload(entries, DOMAIN agents, n)
      /\ CopiesExist(entries, n) /\ ContentsFit(entries, n, A) /\ PositionsDiffer(entries)
      /\ names \in Seq(AgentNames) /\ Len(names) = n /\ NamesDiffer(names, n)
  BY PayloadIsChecked
<1>2. n \in Nat /\ DOMAIN entries = 1 .. n
  BY <1>1 DEF IsPayload
<1>3. \E h : WriteSteps(h, agents, entries, n)
  BY <1>2, WriteChain
<1>4. PICK h : WriteSteps(h, agents, entries, n)
  BY <1>3
<1>5. /\ h[0].ok = u.ok /\ h[0].lib = library /\ h[0].rows = KeptRows(u.rows, entries)
      /\ \A k \in 1 .. n : h[k] = AddEntry(h[k - 1], entries[k], names[k])
      /\ Write(agents, entries) = h[n]
  BY <1>4 DEF WriteSteps
<1>6. MarketOK(KeptRows(u.rows, entries), A, LibraryRows(library))
  BY <1>1, KeptIsOK
<1> HIDE DEF n, names, u
<1> DEFINE S == {k \in 0 .. n : h[k].ok => Grown(h[k], library, A)}
<1>7. 0 \in S
  BY <1>2, <1>5, <1>6 DEF Grown
<1>8. ASSUME NEW k \in 1 .. n, k - 1 \in S PROVE k \in S
  <2>1. k \in 0 .. n /\ h[k] = AddEntry(h[k - 1], entries[k], names[k])
    BY <1>2, <1>5
  <2>2. SUFFICES ASSUME h[k].ok PROVE Grown(h[k], library, A)
    BY <2>1
  <2>3. IsEntry(entries[k], DOMAIN agents) /\ names[k] \in AgentNames
    BY <1>1 DEF IsPayload
  <2>4. /\ entries[k].content # NoContent => Key(entries[k].content) \in A
        /\ entries[k].mode = "library" => entries[k].lib \in LibraryRows(library)
    BY <1>1 DEF ContentsFit, CopiesExist
  <2>5. AddEntry(h[k - 1], entries[k], names[k]).ok
    BY <2>1, <2>2
  <2>6. h[k - 1].ok
    BY <2>3, <2>5, AddEntryOk
  <2>7. Grown(h[k - 1], library, A)
    BY <1>8, <2>6
  <2> HIDE DEF S
  <2>8. Grown(AddEntry(h[k - 1], entries[k], names[k]), library, A)
    BY <2>3, <2>4, <2>5, <2>7, AddEntryIs
  <2> QED
    BY <2>1, <2>8
<1> HIDE DEF S
<1>9. \A k \in 0 .. n : k \in S
  BY <1>2, <1>7, <1>8, Climb
<1>10. n \in S
  BY <1>2, <1>9
<1> QED
  BY <1>5, <1>10 DEF S

-----------------------------------------------------------------------------
(* Files.                                                                  *)

LEMMA LibraryGrows ==
  ASSUME NEW lib, NEW A, LibOK(lib, A), NEW B, A \subseteq B
  PROVE  LibOK(lib, B)
  BY DEF LibOK

LEMMA RowsGrow ==
  ASSUME NEW rows, NEW A, NEW L, MarketOK(rows, A, L), NEW B, A \subseteq B,
         NEW M, L \subseteq M
  PROVE  MarketOK(rows, B, M)
  BY DEF MarketOK

LEMMA FileAgentsAre ==
  ASSUME NEW agents \in Seq(FileAgents)
  PROVE  /\ Len(agents) \in Nat /\ DOMAIN agents = 1 .. Len(agents)
         /\ \A i \in 1 .. Len(agents) :
               /\ agents[i] \in FileAgents /\ agents[i].name \in AgentNames
               /\ agents[i].lib \in AgentNames
<1>1. /\ Len(agents) \in Nat /\ DOMAIN agents = 1 .. Len(agents)
      /\ \A i \in 1 .. Len(agents) : agents[i] \in FileAgents
  <2> HIDE DEF FileAgents
  <2> QED
    OBVIOUS
<1>2. \A a \in FileAgents : a.name \in AgentNames /\ a.lib \in AgentNames
  BY DEF FileAgents
<1> HIDE DEF FileAgents
<1> QED
  BY <1>1, <1>2

(* The library names of the first k agents of a file; when every agent is  *)
(* a copy of a row of lib, none is matched under its own name.             *)
CopyOfRow(a, lib) ==
    \E l \in LibraryRows(lib) : a.lib = lib[l].name /\ Config(a) = Config(lib[l])

NamedSoFar(acc, agents, k) ==
    /\ acc.names \in Seq(AgentNames) /\ Len(acc.names) = k
    /\ \A lib, A : LibOK(lib, A) /\ (\A i \in 1 .. k : CopyOfRow(agents[i], lib))
          => /\ \A i \in 1 .. k : acc.names[i] = agents[i].lib
             /\ \A c \in acc.first : \E l \in LibraryRows(lib) :
                   c.key = Lower(lib[l].name) /\ c.config = Config(lib[l])

LEMMA NameInLibraryIs ==
  ASSUME NEW agents \in Seq(FileAgents), NEW k \in 1 .. Len(agents),
         NEW acc, NamedSoFar(acc, agents, k - 1)
  PROVE  NamedSoFar(NameInLibrary(acc, agents[k]), agents, k)
<1> DEFINE a == agents[k]
           own == \E c \in acc.first : c.key = Lower(a.lib) /\ c.config # Config(a)
           name == IF own THEN a.name ELSE a.lib
           new == [key |-> Lower(name), config |-> Config(a)]
           known == \E c \in acc.first : c.key = Lower(name)
           first == IF known THEN acc.first ELSE acc.first \cup {new}
           c == Append(acc.names, name)
<1>1. /\ k \in Nat /\ 1 .. k = (1 .. k - 1) \cup {k}
      /\ a \in FileAgents /\ a.name \in AgentNames /\ a.lib \in AgentNames
  BY FileAgentsAre
<1> HIDE DEF a
<1>2. NameInLibrary(acc, a) = [names |-> c, first |-> first]
  BY DEF NameInLibrary
<1>3. name \in AgentNames /\ (~ own => name = a.lib)
  BY <1>1
<1> HIDE DEF own, name
<1>4. /\ c \in Seq(AgentNames) /\ Len(c) = k
      /\ \A i \in 1 .. k - 1 : c[i] = acc.names[i]
      /\ c[k] = name
  <2>1. acc.names \in Seq(AgentNames) /\ Len(acc.names) = k - 1 /\ k - 1 + 1 = k
    BY <1>1 DEF NamedSoFar
  <2> HIDE DEF c
  <2> QED
    BY <1>3, <2>1, AppendIs DEF c
<1> HIDE DEF c
<1>5. ASSUME NEW lib, NEW A, LibOK(lib, A), \A i \in 1 .. k : CopyOfRow(agents[i], lib)
      PROVE  /\ \A i \in 1 .. k : c[i] = agents[i].lib
             /\ \A d \in first : \E l \in LibraryRows(lib) :
                   d.key = Lower(lib[l].name) /\ d.config = Config(lib[l])
  <2>1. \A i \in 1 .. k - 1 : CopyOfRow(agents[i], lib)
    BY <1>1, <1>5
  <2>2. /\ \A i \in 1 .. k - 1 : acc.names[i] = agents[i].lib
        /\ \A d \in acc.first : \E l \in LibraryRows(lib) :
              d.key = Lower(lib[l].name) /\ d.config = Config(lib[l])
    BY <1>5, <2>1 DEF NamedSoFar
  <2>3. PICK m \in LibraryRows(lib) : a.lib = lib[m].name /\ Config(a) = Config(lib[m])
    BY <1>1, <1>5 DEF CopyOfRow, a
  <2>4. ~ own
    <3> SUFFICES ASSUME NEW d \in acc.first, d.key = Lower(a.lib), d.config # Config(a)
                 PROVE  FALSE
      BY DEF own
    <3>1. PICK l \in LibraryRows(lib) : d.key = Lower(lib[l].name) /\ d.config = Config(lib[l])
      BY <2>2
    <3>2. l = m
      BY <1>5, <2>3, <3>1 DEF LibOK
    <3> QED
      BY <2>3, <3>1, <3>2
  <2>5. name = a.lib
    BY <1>3, <2>4
  <2>6. \A i \in 1 .. k : c[i] = agents[i].lib
    BY <1>1, <1>4, <2>2, <2>5 DEF a
  <2>7. new.key = Lower(lib[m].name) /\ new.config = Config(lib[m])
    BY <2>3, <2>5
  <2> HIDE DEF new
  <2>8. \A d \in first : d \in acc.first \/ d = new
    OBVIOUS
  <2> HIDE DEF first
  <2> QED
    BY <2>2, <2>3, <2>6, <2>7, <2>8
<1> HIDE DEF first
<1>6. [names |-> c, first |-> first].names = c /\ [names |-> c, first |-> first].first = first
  OBVIOUS
<1>7. NamedSoFar([names |-> c, first |-> first], agents, k)
  BY <1>4, <1>5, <1>6 DEF NamedSoFar
<1> QED
  BY <1>2, <1>7 DEF a

NamingSteps(h, agents, n) ==
    /\ h[0] = [names |-> <<>>, first |-> {}]
    /\ \A k \in 1 .. n : h[k] = NameInLibrary(h[k - 1], agents[k])
    /\ FoldLeft(NameInLibrary, [names |-> <<>>, first |-> {}], agents) = h[n]

\* The agents of a file are given library names one after the other.
LEMMA LibraryNamesChain ==
  ASSUME NEW agents, NEW n \in Nat, DOMAIN agents = 1 .. n
  PROVE  \E h : NamingSteps(h, agents, n)
<1> DEFINE first == [names |-> <<>>, first |-> {}]
           Step(g, s) == IF s = {} THEN first
                         ELSE NameInLibrary(g[s \ {Max(s)}], agents[Max(s)])
           Solves(g, m) == \A s \in SUBSET (1 .. m) : g[s] = Step(g, s)
<1>1. ASSUME NEW g, NEW m \in Nat \ {0}, Solves(g, m - 1)
      PROVE  Solves([s \in SUBSET (1 .. m) |-> Step(g, s)], m)
  <2> DEFINE f == [s \in SUBSET (1 .. m) |-> Step(g, s)]
  <2>1. ASSUME NEW s \in SUBSET (1 .. m) PROVE f[s] = Step(f, s)
    <3>1. CASE s = {}
      BY <3>1
    <3>2. CASE s # {}
      <4> DEFINE r == s \ {Max(s)}
      <4>1. r \in SUBSET (1 .. m - 1) /\ r \in SUBSET (1 .. m)
        BY <3>2, BelowMax
      <4>2. f[r] = Step(g, r) /\ g[r] = Step(g, r)
        BY <4>1, <1>1
      <4>3. f[s] = Step(g, s)
        OBVIOUS
      <4> HIDE DEF f
      <4> QED
        BY <3>2, <4>2, <4>3
    <3> QED
      BY <3>1, <3>2
  <2> QED
    BY <2>1
<1>2. Solves([s \in {{}} |-> first], 0)
  <2>1. \A s \in SUBSET (1 .. 0) : s = {}
    OBVIOUS
  <2> QED
    BY <2>1
<1> HIDE DEF Solves
<1>3. \A m \in 0 .. n : \E g : Solves(g, m)
  <2> DEFINE bad == {m \in 0 .. n : ~ \E g : Solves(g, m)}
  <2> SUFFICES ASSUME bad # {} PROVE FALSE
    OBVIOUS
  <2>1. PICK m \in bad : \A x \in bad : m <= x
    <3>1. bad \subseteq Nat
      OBVIOUS
    <3> QED
      BY <3>1, LeastOf
  <2>2. m \in Nat \ {0} /\ m - 1 \in 0 .. n
    BY <1>2, <2>1
  <2>3. PICK g : Solves(g, m - 1)
    BY <2>1, <2>2
  <2>4. \E f : Solves(f, m)
    BY <1>1, <2>2, <2>3
  <2> QED
    BY <2>1, <2>4
<1>4. PICK g : Solves(g, n)
  BY <1>3
<1> DEFINE c == [s \in SUBSET (1 .. n) |-> g[s]]
           d == CHOOSE f : f = [s \in SUBSET (1 .. n) |-> Step(f, s)]
<1>5. d = [s \in SUBSET (1 .. n) |-> Step(d, s)]
  <2>1. ASSUME NEW s \in SUBSET (1 .. n) PROVE g[s] = Step(c, s)
    <3>1. g[s] = Step(g, s)
      BY <1>4 DEF Solves
    <3>2. CASE s # {}
      <4>1. c[s \ {Max(s)}] = g[s \ {Max(s)}]
        OBVIOUS
      <4> HIDE DEF c
      <4> QED
        BY <3>1, <4>1
    <3> QED
      BY <3>1, <3>2
  <2>2. c = [s \in SUBSET (1 .. n) |-> Step(c, s)]
    BY <2>1
  <2> HIDE DEF c, Step
  <2> QED
    BY <2>2
<1>6. FoldLeft(NameInLibrary, [names |-> <<>>, first |-> {}], agents) = d[1 .. n]
  BY DEF LibraryNames, FoldLeft, MapThenFoldSet
<1> HIDE DEF d
<1>7. \A k \in 0 .. n : d[1 .. k] = Step(d, 1 .. k)
  <2> TAKE k \in 0 .. n
  <2>1. (1 .. k) \in SUBSET (1 .. n)
    OBVIOUS
  <2> HIDE DEF Step
  <2> QED
    BY <1>5, <2>1
<1> DEFINE h == [k \in 0 .. n |-> d[1 .. k]]
<1>8. h[0] = first /\ h[n] = d[1 .. n]
  <2>1. 0 \in 0 .. n /\ n \in 0 .. n /\ 1 .. 0 = {}
    OBVIOUS
  <2>2. d[1 .. 0] = first
    BY <1>7, <2>1
  <2> QED
    BY <2>1, <2>2
<1>9. ASSUME NEW k \in 1 .. n
      PROVE  h[k] = NameInLibrary(h[k - 1], agents[k])
  <2>1. 1 .. k # {} /\ Max(1 .. k) = k /\ (1 .. k) \ {Max(1 .. k)} = 1 .. k - 1
    <3>1. k \in Nat \ {0}
      OBVIOUS
    <3> QED
      BY <3>1, MaxTo
  <2>2. h[k] = d[1 .. k] /\ h[k - 1] = d[1 .. k - 1]
    <3>1. k \in 0 .. n /\ k - 1 \in 0 .. n
      OBVIOUS
    <3> QED
      BY <3>1
  <2>3. d[1 .. k] = Step(d, 1 .. k)
    <3>1. k \in 0 .. n
      OBVIOUS
    <3> HIDE DEF Step
    <3> QED
      BY <1>7, <3>1
  <2> HIDE DEF h
  <2> QED
    BY <2>1, <2>2, <2>3
<1> HIDE DEF h
<1> QED
  BY <1>6, <1>8, <1>9 DEF NamingSteps

\* Every agent of a file has a library name; if each is a copy of a library
\* agent, that is the library agent's name.
LEMMA LibraryNamesAre ==
  ASSUME NEW agents \in Seq(FileAgents)
  PROVE  /\ LibraryNames(agents) \in Seq(AgentNames)
         /\ Len(LibraryNames(agents)) = Len(agents)
         /\ \A lib, A : LibOK(lib, A) /\ (\A i \in 1 .. Len(agents) : CopyOfRow(agents[i], lib))
               => \A i \in 1 .. Len(agents) : LibraryNames(agents)[i] = agents[i].lib
<1> DEFINE n == Len(agents)
<1>1. n \in Nat /\ DOMAIN agents = 1 .. n
  BY FileAgentsAre
<1>2. \E h : NamingSteps(h, agents, n)
  BY <1>1, LibraryNamesChain
<1>3. PICK h : NamingSteps(h, agents, n)
  BY <1>2
<1>4. /\ h[0] = [names |-> <<>>, first |-> {}]
      /\ \A k \in 1 .. n : h[k] = NameInLibrary(h[k - 1], agents[k])
      /\ LibraryNames(agents) = h[n].names
  BY <1>3 DEF NamingSteps, LibraryNames
<1> HIDE DEF n
<1> DEFINE S == {k \in 0 .. n : NamedSoFar(h[k], agents, k)}
<1>5. 0 \in S
  <2>1. /\ h[0].names \in Seq(AgentNames) /\ Len(h[0].names) = 0 /\ h[0].first = {}
    BY <1>4
  <2>2. NamedSoFar(h[0], agents, 0)
    BY <2>1 DEF NamedSoFar
  <2> QED
    BY <1>1, <2>2
<1>6. ASSUME NEW k \in 1 .. n, k - 1 \in S PROVE k \in S
  <2>1. NamedSoFar(h[k - 1], agents, k - 1)
    BY <1>6
  <2>2. NamedSoFar(NameInLibrary(h[k - 1], agents[k]), agents, k)
    BY <2>1, NameInLibraryIs DEF n
  <2>3. k \in 0 .. n
    BY <1>1
  <2> QED
    BY <1>4, <2>2, <2>3
<1> HIDE DEF S
<1>7. \A k \in 0 .. n : k \in S
  BY <1>1, <1>5, <1>6, Climb
<1>8. NamedSoFar(h[n], agents, n)
  <2>1. n \in S
    BY <1>1, <1>7
  <2> QED
    BY <2>1 DEF S
<1> QED
  BY <1>4, <1>8 DEF NamedSoFar, n

-----------------------------------------------------------------------------
(* Imports.                                                                *)

FreeIds(lib) == LibraryIds \ LibraryRows(lib)

LowerNames(lib) == {Lower(lib[l].name) : l \in LibraryRows(lib)}

(* The library after k agents of doc: rows are only added, one for every   *)
(* name that has none, and there is an id for each of those still missing. *)
Imported(new, lib, doc, A, k) ==
    /\ LibOK(new, A)
    /\ \A l \in LibraryRows(lib) : l \in LibraryRows(new) /\ new[l] = lib[l]
    /\ \A l \in LibraryRows(new) \ LibraryRows(lib) : \E j \in 1 .. k :
          /\ Lower(new[l].name) = Lower(LibraryNames(doc.agents)[j])
          /\ Config(new[l]) = Config(doc.agents[j])
    /\ \A j \in 1 .. k : Matches(new, LibraryNames(doc.agents)[j]) # {}
    /\ IsFiniteSet(Created(lib, doc))
    /\ Cardinality(FreeIds(new)) >= Cardinality(Created(lib, doc) \ LowerNames(new))

LEMMA FreeIdsAre ==
  ASSUME NEW lib
  PROVE  IsFiniteSet(FreeIds(lib)) /\ Cardinality(FreeIds(lib)) \in Nat
<1>1. FreeIds(lib) \in SUBSET LibraryIds
  BY DEF FreeIds
<1>2. IsFiniteSet(FreeIds(lib))
  BY <1>1, FS_Subset, StoreAssumption
<1> QED
  BY <1>2, FS_CardinalityType

LEMMA AddToLibraryIs ==
  ASSUME NEW lib, NEW A, LibOK(lib, A), NEW doc, doc.agents \in Seq(FileAgents),
         NEW k \in 1 .. Len(doc.agents), Key(doc.agents[k]) \in A,
         NEW acc, Imported(acc, lib, doc, A, k - 1)
  PROVE  Imported(AddToLibrary(acc, LibraryNames(doc.agents)[k], Config(doc.agents[k])),
                  lib, doc, A, k)
<1> DEFINE names == LibraryNames(doc.agents)
           name == names[k]
           config == Config(doc.agents[k])
           new == AddToLibrary(acc, name, config)
<1>1. /\ k \in Nat /\ k \in 1 .. k /\ 1 .. k = (1 .. k - 1) \cup {k}
      /\ names \in Seq(AgentNames) /\ Len(names) = Len(doc.agents)
  BY FileAgentsAre, LibraryNamesAre
<1>2. DOMAIN names = 1 .. Len(doc.agents) /\ name \in AgentNames
  BY <1>1
<1>3. config \in Configs /\ Key(config) \in A
  <2>1. doc.agents[k] \in FileAgents
    BY FileAgentsAre
  <2> QED
    BY <2>1, ConfigIs
<1> HIDE DEF names, name, config
<1>4. /\ LibOK(acc, A)
      /\ \A l \in LibraryRows(lib) : l \in LibraryRows(acc) /\ acc[l] = lib[l]
      /\ \A l \in LibraryRows(acc) \ LibraryRows(lib) : \E j \in 1 .. k - 1 :
            /\ Lower(acc[l].name) = Lower(names[j])
            /\ Config(acc[l]) = Config(doc.agents[j])
      /\ \A j \in 1 .. k - 1 : Matches(acc, names[j]) # {}
      /\ IsFiniteSet(Created(lib, doc))
      /\ Cardinality(FreeIds(acc)) >= Cardinality(Created(lib, doc) \ LowerNames(acc))
  BY DEF Imported, names
<1>5. CASE Matches(acc, name) # {}
  <2>1. new = acc
    BY <1>5 DEF AddToLibrary
  <2>2. \A l \in LibraryRows(acc) \ LibraryRows(lib) : \E j \in 1 .. k :
           /\ Lower(acc[l].name) = Lower(names[j])
           /\ Config(acc[l]) = Config(doc.agents[j])
    BY <1>1, <1>4
  <2>3. \A j \in 1 .. k : Matches(acc, names[j]) # {}
    BY <1>1, <1>4, <1>5 DEF name
  <2> HIDE DEF new
  <2>4. Imported(acc, lib, doc, A, k)
    BY <1>4, <2>2, <2>3 DEF Imported, names
  <2> QED
    BY <2>1, <2>4 DEF new, names, name, config
<1>6. CASE Matches(acc, name) = {}
  <2> DEFINE id == NewLibraryId(acc)
             todo == Created(lib, doc) \ LowerNames(acc)
  <2>1. \A l \in LibraryRows(acc) : Lower(acc[l].name) # Lower(name)
    BY <1>6 DEF Matches
  <2>2. LibraryNameFree(acc, name, {})
    BY <2>1 DEF LibraryNameFree
  <2>3. Lower(name) \in todo
    <3>1. Matches(lib, name) = {}
      BY <1>4, <2>1 DEF Matches
    <3>2. name \in Range(names)
      BY <1>2 DEF Range, name
    <3>3. Lower(name) \in Created(lib, doc)
      BY <3>1, <3>2 DEF Created, names
    <3> QED
      BY <2>1, <3>3 DEF LowerNames
  <2>4. IsFiniteSet(todo) /\ Cardinality(todo) \in Nat \ {0}
    <3>1. todo \in SUBSET Created(lib, doc)
      OBVIOUS
    <3> HIDE DEF todo
    <3>2. IsFiniteSet(todo)
      BY <1>4, <3>1, FS_Subset
    <3> QED
      BY <2>3, <3>2, FS_CardinalityType, FS_EmptySet
  <2>5. Room(acc, 1)
    <3>1. DOMAIN acc = LibraryIds
      BY <1>4 DEF LibOK
    <3>2. Cardinality(FreeIds(acc)) >= Cardinality(todo) /\ Cardinality(FreeIds(acc)) \in Nat
      BY <1>4, FreeIdsAre
    <3> HIDE DEF todo
    <3>3. Cardinality(FreeIds(acc)) >= 1
      BY <2>4, <3>2
    <3> QED
      BY <3>1, <3>3 DEF Room, FreeIds
  <2>6. new = CreateIn(acc, name, config)
    BY <1>6 DEF AddToLibrary
  <2>7. /\ id \in LibraryIds \ LibraryRows(acc)
        /\ LibOK(new, A)
        /\ new[id] = LibraryRow(name, config)
        /\ LibraryRow(name, config).name = name
        /\ Config(LibraryRow(name, config)) = config
        /\ \A l \in LibraryRows(acc) : new[l] = acc[l]
        /\ LibraryRows(new) = LibraryRows(acc) \cup {id}
    BY <1>2, <1>3, <1>4, <2>2, <2>5, <2>6, CreateInIs
  <2> HIDE DEF id, new, todo
  <2>8. new[id].name = name /\ Config(new[id]) = config
    BY <2>7
  <2>9. \A l \in LibraryRows(lib) : l \in LibraryRows(new) /\ new[l] = lib[l]
    BY <1>4, <2>7
  <2>10. ASSUME NEW l \in LibraryRows(new) \ LibraryRows(lib)
         PROVE  \E j \in 1 .. k : /\ Lower(new[l].name) = Lower(names[j])
                                  /\ Config(new[l]) = Config(doc.agents[j])
    <3>1. CASE l = id
      BY <1>1, <2>8, <3>1 DEF name, config
    <3>2. CASE l # id
      <4>1. l \in LibraryRows(acc) \ LibraryRows(lib) /\ new[l] = acc[l]
        BY <2>7, <3>2
      <4>2. PICK j \in 1 .. k - 1 : /\ Lower(acc[l].name) = Lower(names[j])
                                    /\ Config(acc[l]) = Config(doc.agents[j])
        BY <1>4, <4>1
      <4> QED
        BY <1>1, <4>1, <4>2
    <3> QED
      BY <3>1, <3>2
  <2>11. ASSUME NEW j \in 1 .. k PROVE Matches(new, names[j]) # {}
    <3>1. CASE j = k
      BY <2>7, <2>8, <3>1 DEF Matches, name
    <3>2. CASE j # k
      <4>1. Matches(acc, names[j]) # {}
        BY <1>1, <1>4, <3>2
      <4>2. Matches(acc, names[j]) \subseteq Matches(new, names[j])
        BY <2>7 DEF Matches
      <4> QED
        BY <4>1, <4>2
    <3> QED
      BY <3>1, <3>2
  <2>12. Cardinality(FreeIds(new)) >= Cardinality(Created(lib, doc) \ LowerNames(new))
    <3>1. FreeIds(new) = FreeIds(acc) \ {id} /\ id \in FreeIds(acc)
      BY <2>7 DEF FreeIds
    <3>2. LowerNames(new) = LowerNames(acc) \cup {Lower(name)}
      BY <2>7, <2>8 DEF LowerNames
    <3>3. Created(lib, doc) \ LowerNames(new) = todo \ {Lower(name)}
      BY <3>2 DEF todo
    <3>4. Cardinality(FreeIds(new)) = Cardinality(FreeIds(acc)) - 1
      BY <3>1, FreeIdsAre, FS_RemoveElement
    <3>5. Cardinality(todo \ {Lower(name)}) = Cardinality(todo) - 1
      BY <2>3, <2>4, FS_RemoveElement
    <3>6. Cardinality(FreeIds(acc)) >= Cardinality(todo) /\ Cardinality(FreeIds(acc)) \in Nat
      BY <1>4, FreeIdsAre DEF todo
    <3>7. Cardinality(FreeIds(acc)) - 1 >= Cardinality(todo) - 1
      BY <2>4, <3>6
    <3> QED
      BY <3>3, <3>4, <3>5, <3>7
  <2>13. Imported(new, lib, doc, A, k)
    BY <1>4, <2>7, <2>9, <2>10, <2>11, <2>12 DEF Imported, names
  <2> QED
    BY <2>13 DEF new, names, name, config
<1> QED
  BY <1>5, <1>6

ImportSteps(h, lib, doc, n) ==
    /\ h[0] = lib
    /\ \A k \in 1 .. n : h[k] = AddToLibrary(h[k - 1], LibraryNames(doc.agents)[k],
            Config(doc.agents[k]))
    /\ ImportLibrary(lib, doc) = h[n]

\* Library agents are created one agent of the file after the other.
LEMMA ImportChain ==
  ASSUME NEW lib, NEW doc, NEW n \in Nat, DOMAIN doc.agents = 1 .. n
  PROVE  \E h : ImportSteps(h, lib, doc, n)
<1> DEFINE first == lib
           id == [i \in DOMAIN doc.agents |-> i]
           Step(g, s) == IF s = {} THEN first
                         ELSE AddToLibrary(g[s \ {Max(s)}],
                                 LibraryNames(doc.agents)[id[Max(s)]],
                                         Config(doc.agents[id[Max(s)]]))
           Solves(g, m) == \A s \in SUBSET (1 .. m) : g[s] = Step(g, s)
<1>1. ASSUME NEW g, NEW m \in Nat \ {0}, Solves(g, m - 1)
      PROVE  Solves([s \in SUBSET (1 .. m) |-> Step(g, s)], m)
  <2> DEFINE f == [s \in SUBSET (1 .. m) |-> Step(g, s)]
  <2>1. ASSUME NEW s \in SUBSET (1 .. m) PROVE f[s] = Step(f, s)
    <3>1. CASE s = {}
      BY <3>1
    <3>2. CASE s # {}
      <4> DEFINE r == s \ {Max(s)}
      <4>1. r \in SUBSET (1 .. m - 1) /\ r \in SUBSET (1 .. m)
        BY <3>2, BelowMax
      <4>2. f[r] = Step(g, r) /\ g[r] = Step(g, r)
        BY <4>1, <1>1
      <4>3. f[s] = Step(g, s)
        OBVIOUS
      <4> HIDE DEF f
      <4> QED
        BY <3>2, <4>2, <4>3
    <3> QED
      BY <3>1, <3>2
  <2> QED
    BY <2>1
<1>2. Solves([s \in {{}} |-> first], 0)
  <2>1. \A s \in SUBSET (1 .. 0) : s = {}
    OBVIOUS
  <2> QED
    BY <2>1
<1> HIDE DEF Solves
<1>3. \A m \in 0 .. n : \E g : Solves(g, m)
  <2> DEFINE bad == {m \in 0 .. n : ~ \E g : Solves(g, m)}
  <2> SUFFICES ASSUME bad # {} PROVE FALSE
    OBVIOUS
  <2>1. PICK m \in bad : \A x \in bad : m <= x
    <3>1. bad \subseteq Nat
      OBVIOUS
    <3> QED
      BY <3>1, LeastOf
  <2>2. m \in Nat \ {0} /\ m - 1 \in 0 .. n
    BY <1>2, <2>1
  <2>3. PICK g : Solves(g, m - 1)
    BY <2>1, <2>2
  <2>4. \E f : Solves(f, m)
    BY <1>1, <2>2, <2>3
  <2> QED
    BY <2>1, <2>4
<1>4. PICK g : Solves(g, n)
  BY <1>3
<1> DEFINE c == [s \in SUBSET (1 .. n) |-> g[s]]
           d == CHOOSE f : f = [s \in SUBSET (1 .. n) |-> Step(f, s)]
<1>5. d = [s \in SUBSET (1 .. n) |-> Step(d, s)]
  <2>1. ASSUME NEW s \in SUBSET (1 .. n) PROVE g[s] = Step(c, s)
    <3>1. g[s] = Step(g, s)
      BY <1>4 DEF Solves
    <3>2. CASE s # {}
      <4>1. c[s \ {Max(s)}] = g[s \ {Max(s)}]
        OBVIOUS
      <4> HIDE DEF c
      <4> QED
        BY <3>1, <4>1
    <3> QED
      BY <3>1, <3>2
  <2>2. c = [s \in SUBSET (1 .. n) |-> Step(c, s)]
    BY <2>1
  <2> HIDE DEF c, Step
  <2> QED
    BY <2>2
<1>6. ImportLibrary(lib, doc) = d[1 .. n]
  BY DEF ImportLibrary, FoldLeft, MapThenFoldSet
<1> HIDE DEF d
<1>7. \A k \in 0 .. n : d[1 .. k] = Step(d, 1 .. k)
  <2> TAKE k \in 0 .. n
  <2>1. (1 .. k) \in SUBSET (1 .. n)
    OBVIOUS
  <2> HIDE DEF Step
  <2> QED
    BY <1>5, <2>1
<1> DEFINE h == [k \in 0 .. n |-> d[1 .. k]]
<1>8. h[0] = first /\ h[n] = d[1 .. n]
  <2>1. 0 \in 0 .. n /\ n \in 0 .. n /\ 1 .. 0 = {}
    OBVIOUS
  <2>2. d[1 .. 0] = first
    BY <1>7, <2>1
  <2> QED
    BY <2>1, <2>2
<1>9. ASSUME NEW k \in 1 .. n
      PROVE  h[k] = AddToLibrary(h[k - 1], LibraryNames(doc.agents)[k], Config(doc.agents[k]))
  <2>1. 1 .. k # {} /\ Max(1 .. k) = k /\ (1 .. k) \ {Max(1 .. k)} = 1 .. k - 1
    <3>1. k \in Nat \ {0}
      OBVIOUS
    <3> QED
      BY <3>1, MaxTo
  <2>2. h[k] = d[1 .. k] /\ h[k - 1] = d[1 .. k - 1]
    <3>1. k \in 0 .. n /\ k - 1 \in 0 .. n
      OBVIOUS
    <3> QED
      BY <3>1
  <2>3. d[1 .. k] = Step(d, 1 .. k)
    <3>1. k \in 0 .. n
      OBVIOUS
    <3> HIDE DEF Step
    <3> QED
      BY <1>7, <3>1
  <2> HIDE DEF h
  <2>4. id[k] = k
    <3>1. k \in 1 .. n
      OBVIOUS
    <3> QED
      BY <3>1
  <2>5. d[1 .. k] = AddToLibrary(d[1 .. k - 1], LibraryNames(doc.agents)[id[k]],
          Config(doc.agents[id[k]]))
    BY <2>1, <2>3
  <2>6. h[k] = AddToLibrary(h[k - 1], LibraryNames(doc.agents)[id[k]], Config(doc.agents[id[k]]))
    BY <2>2, <2>5
  <2> QED
    BY <2>4, <2>6
<1> HIDE DEF h
<1> QED
  BY <1>6, <1>8, <1>9 DEF ImportSteps

LEMMA CreatedIsFinite ==
  ASSUME NEW lib, NEW doc, doc.agents \in Seq(FileAgents)
  PROVE  IsFiniteSet(Created(lib, doc))
<1> DEFINE names == LibraryNames(doc.agents)
           n == Len(doc.agents)
           D == {i \in 1 .. n : Matches(lib, names[i]) = {}}
           f == [i \in D |-> Lower(names[i])]
<1>1. n \in Nat /\ names \in Seq(AgentNames) /\ Len(names) = n
  BY FileAgentsAre, LibraryNamesAre
<1> HIDE DEF names, n
<1>2. DOMAIN names = 1 .. n
  BY <1>1
<1>3. Created(lib, doc) = {Lower(m) : m \in {x \in Range(names) : Matches(lib, x) = {}}}
  BY DEF Created, names
<1>4. \A i \in D : f[i] \in Created(lib, doc)
  BY <1>2, <1>3 DEF Range
<1>5. \A x \in Created(lib, doc) : \E i \in D : f[i] = x
  <2> TAKE x \in Created(lib, doc)
  <2>1. PICK m \in Range(names) : Matches(lib, m) = {} /\ x = Lower(m)
    BY <1>3
  <2>2. PICK i \in 1 .. n : m = names[i]
    BY <1>2, <2>1 DEF Range
  <2> QED
    BY <2>1, <2>2
<1>6. f \in Surjection(D, Created(lib, doc))
  BY <1>4, <1>5 DEF Surjection
<1>7. IsFiniteSet(D)
  <2>1. IsFiniteSet(1 .. n)
    BY <1>1, FS_Interval
  <2>2. D \in SUBSET (1 .. n)
    OBVIOUS
  <2> HIDE DEF D
  <2> QED
    BY <2>1, <2>2, FS_Subset
<1> HIDE DEF f, D
<1> QED
  BY <1>6, <1>7, FS_Surjection

\* With room for what it creates, an import finds a library agent for every
\* agent of the file, and none that existed has changed.
LEMMA ImportLibraryIs ==
  ASSUME NEW lib, NEW A, LibOK(lib, A), NEW doc, doc.agents \in Seq(FileAgents),
         \A i \in 1 .. Len(doc.agents) : Key(doc.agents[i]) \in A,
         Room(lib, Cardinality(Created(lib, doc)))
  PROVE  Imported(ImportLibrary(lib, doc), lib, doc, A, Len(doc.agents))
<1> DEFINE n == Len(doc.agents)
<1>1. n \in Nat /\ DOMAIN doc.agents = 1 .. n
  BY FileAgentsAre
<1>2. \E h : ImportSteps(h, lib, doc, n)
  BY <1>1, ImportChain
<1>3. PICK h : ImportSteps(h, lib, doc, n)
  BY <1>2
<1> DEFINE S == {k \in 0 .. n : Imported(h[k], lib, doc, A, k)}
<1>4. 0 \in S
  <2>1. h[0] = lib
    BY <1>3 DEF ImportSteps
  <2>2. IsFiniteSet(Created(lib, doc))
    BY CreatedIsFinite
  <2>3. Cardinality(FreeIds(lib)) >= Cardinality(Created(lib, doc))
    BY DEF Room, FreeIds, LibOK
  <2>4. Created(lib, doc) \ LowerNames(lib) = Created(lib, doc)
    BY DEF Created, LowerNames, Matches
  <2>5. Imported(lib, lib, doc, A, 0)
    BY <2>2, <2>3, <2>4 DEF Imported
  <2> QED
    BY <1>1, <2>1, <2>5
<1>5. ASSUME NEW k \in 1 .. n, k - 1 \in S PROVE k \in S
  <2>1. Imported(h[k - 1], lib, doc, A, k - 1)
    BY <1>5
  <2>2. Imported(AddToLibrary(h[k - 1], LibraryNames(doc.agents)[k], Config(doc.agents[k])),
                 lib, doc, A, k)
    BY <2>1, AddToLibraryIs
  <2>3. k \in 0 .. n
    BY <1>1
  <2>4. h[k] = AddToLibrary(h[k - 1], LibraryNames(doc.agents)[k], Config(doc.agents[k]))
    BY <1>3 DEF ImportSteps
  <2> QED
    BY <2>2, <2>3, <2>4
<1> HIDE DEF S, n
<1>6. \A k \in 0 .. n : k \in S
  BY <1>1, <1>4, <1>5, Climb
<1>7. n \in S
  BY <1>1, <1>6
<1> QED
  BY <1>3, <1>7 DEF S, n, ImportSteps

\* The rows of an import: the file's agents, each a copy of a library agent of
\* the same configuration.
ImportRow(lib, doc, i) ==
    LET l == CHOOSE x \in Matches(lib, LibraryNames(doc.agents)[i]) : TRUE
    IN  AgentRow(doc.agents[i].name, Config(lib[l]), l)

IsImport(rows, lib, doc) ==
    /\ DOMAIN rows = 1 .. Len(doc.agents)
    /\ \A i \in 1 .. Len(doc.agents) :
          /\ rows[i] \in MarketAgents
          /\ rows[i].name = doc.agents[i].name
          /\ Config(rows[i]) = Config(doc.agents[i])
          /\ rows[i].source \in LibraryRows(lib)
          /\ Config(lib[rows[i].source]) = Config(doc.agents[i])

LEMMA ImportAgentsAre ==
  ASSUME NEW lib, NEW A, LibOK(lib, A), NEW doc, doc.agents \in Seq(FileAgents),
         NEW res, Importable(res, lib, doc),
         NEW new, Imported(new, lib, doc, A, Len(doc.agents))
  PROVE  IsImport(ImportAgents(new, doc), new, doc)
<1> DEFINE n == Len(doc.agents)
           names == LibraryNames(doc.agents)
           rows == ImportAgents(new, doc)
<1>1. n \in Nat /\ DOMAIN doc.agents = 1 .. n
  BY FileAgentsAre
<1>2. /\ \A i, j \in 1 .. n : Lower(names[i]) = Lower(names[j])
            => Config(doc.agents[i]) = Config(doc.agents[j])
      /\ \A i \in 1 .. n : \A l \in Matches(lib, names[i]) :
            Config(lib[l]) = Config(doc.agents[i])
  BY <1>1 DEF Importable
<1> HIDE DEF n, names
<1>3. DOMAIN rows = 1 .. n /\ \A i \in 1 .. n : rows[i] = ImportRow(new, doc, i)
  BY <1>1 DEF ImportAgents, ImportRow
<1> HIDE DEF rows
<1>4. ASSUME NEW i \in 1 .. n, NEW l \in Matches(new, names[i])
      PROVE  l \in LibraryRows(new) /\ Config(new[l]) = Config(doc.agents[i])
  <2>1. l \in LibraryRows(new) /\ Lower(new[l].name) = Lower(names[i])
    BY DEF Matches
  <2>2. CASE l \in LibraryRows(lib)
    <3>1. new[l] = lib[l]
      BY <2>2 DEF Imported
    <3>2. l \in Matches(lib, names[i])
      BY <2>1, <2>2, <3>1 DEF Matches
    <3> QED
      BY <1>2, <2>1, <3>1, <3>2
  <2>3. CASE l \notin LibraryRows(lib)
    <3>1. PICK j \in 1 .. n : /\ Lower(new[l].name) = Lower(names[j])
                              /\ Config(new[l]) = Config(doc.agents[j])
      BY <2>1, <2>3 DEF Imported, names, n
    <3> QED
      BY <1>2, <2>1, <3>1
  <2> QED
    BY <2>2, <2>3
<1>5. ASSUME NEW i \in 1 .. n
      PROVE  /\ rows[i] \in MarketAgents
             /\ rows[i].name = doc.agents[i].name
             /\ Config(rows[i]) = Config(doc.agents[i])
             /\ rows[i].source \in LibraryRows(new)
             /\ Config(new[rows[i].source]) = Config(doc.agents[i])
  <2> DEFINE l == CHOOSE x \in Matches(new, names[i]) : TRUE
  <2>1. Matches(new, names[i]) # {}
    BY DEF Imported, names, n
  <2>2. l \in Matches(new, names[i])
    BY <2>1
  <2> HIDE DEF l
  <2>3. l \in LibraryRows(new) /\ Config(new[l]) = Config(doc.agents[i])
    BY <1>4, <2>2
  <2>4. rows[i] = AgentRow(doc.agents[i].name, Config(new[l]), l)
    BY <1>3 DEF ImportRow, l, names
  <2>5. l \in LibraryIds
    BY <2>3, LibraryRowIs DEF Imported
  <2>6. doc.agents[i] \in FileAgents /\ doc.agents[i].name \in AgentNames
    BY FileAgentsAre DEF n
  <2>7. Config(doc.agents[i]) \in Configs
    BY <2>6, ConfigIs
  <2>8. /\ rows[i] \in MarketAgents /\ rows[i].name = doc.agents[i].name
        /\ rows[i].source = l /\ Config(rows[i]) = Config(doc.agents[i])
    BY <2>3, <2>4, <2>5, <2>6, <2>7, AgentRowIs
  <2> QED
    BY <2>3, <2>8
<1> QED
  BY <1>3, <1>5 DEF IsImport, n, rows

LEMMA ImportIsOK ==
  ASSUME NEW lib, NEW A, LibOK(lib, A), NEW doc, doc.agents \in Seq(FileAgents),
         NEW res, Importable(res, lib, doc),
         \A i \in 1 .. Len(doc.agents) : Key(doc.agents[i]) \in A,
         Room(lib, Cardinality(Created(lib, doc)))
  PROVE  /\ Imported(ImportLibrary(lib, doc), lib, doc, A, Len(doc.agents))
         /\ IsImport(ImportAgents(ImportLibrary(lib, doc), doc), ImportLibrary(lib, doc), doc)
         /\ MarketOK(ImportAgents(ImportLibrary(lib, doc), doc), A,
                     LibraryRows(ImportLibrary(lib, doc)))
<1> DEFINE n == Len(doc.agents)
           new == ImportLibrary(lib, doc)
           rows == ImportAgents(new, doc)
<1>1. Imported(new, lib, doc, A, n)
  BY ImportLibraryIs
<1> HIDE DEF new
<1>2. IsImport(rows, new, doc)
  BY <1>1, ImportAgentsAre
<1> HIDE DEF rows
<1>3. n \in Nat /\ DOMAIN doc.agents = 1 .. n
  BY FileAgentsAre
<1>4. \A i \in 1 .. n : rows[i] \in MarketAgents
  BY <1>2 DEF IsImport
<1>5. rows \in [1 .. n -> MarketAgents]
  <2> HIDE DEF n
  <2>1. rows = [i \in 1 .. n |-> ImportRow(new, doc, i)]
    BY <1>3 DEF ImportAgents, ImportRow, rows
  <2>2. \A i \in 1 .. n : ImportRow(new, doc, i) \in MarketAgents
    BY <1>4, <2>1
  <2> QED
    BY <2>1, <2>2
<1>6. rows \in Seq(MarketAgents) /\ DOMAIN rows = 1 .. n
  <2> HIDE DEF n, MarketAgents
  <2> QED
    BY <1>3, <1>5
<1>7. ASSUME NEW i \in 1 .. n
      PROVE  Key(rows[i]) \in A /\ rows[i].source \in LibraryRows(new) \cup {NoSource}
  <2>1. doc.agents[i] \in FileAgents /\ rows[i] \in MarketAgents
    BY <1>4, FileAgentsAre
  <2>2. Key(rows[i]) = Key(doc.agents[i])
    <3>1. Config(rows[i]) = Config(doc.agents[i])
      BY <1>2 DEF IsImport
    <3>2. Key(Config(rows[i])) = Key(rows[i]) /\ Key(Config(doc.agents[i])) = Key(doc.agents[i])
      BY <2>1, ConfigIs
    <3> QED
      BY <3>1, <3>2
  <2> QED
    BY <1>2, <2>2 DEF IsImport
<1>8. Distinct(rows)
  <2> SUFFICES ASSUME NEW i \in 1 .. n, NEW j \in 1 .. n, rows[i].name = rows[j].name
               PROVE  i = j
    BY <1>6 DEF Distinct
  <2>1. doc.agents[i].name = doc.agents[j].name
    BY <1>2 DEF IsImport
  <2>2. \A a, b \in 1 .. n : Lower(doc.agents[a].name) = Lower(doc.agents[b].name) => a = b
    BY <1>3 DEF Importable
  <2> QED
    BY <2>1, <2>2
<1>9. MarketOK(rows, A, LibraryRows(new))
  BY <1>6, <1>7, <1>8 DEF MarketOK
<1> QED
  BY <1>1, <1>2, <1>9 DEF rows, new

-----------------------------------------------------------------------------
(* The invariant.                                                          *)

(* What an agent may own: resources that exist, and of its energy types.   *)
Usable(res) == AgentTypes \X SUBSET Present(res)
Lawful(res) == {a \in Usable(res) : Fits(res, a[1], a[2])}

ScenariosOK(scn, A, L) == \A s \in DOMAIN scn : scn[s] # NoRow => MarketOK(scn[s], A, L)

StoreOK(lib, scn, rn, A) ==
    /\ LibOK(lib, A)
    /\ DOMAIN scn = ScenarioIds /\ ScenariosOK(scn, A, LibraryRows(lib))
    /\ DOMAIN rn = RunIds /\ ScenariosOK(rn, A, LibraryRows(lib))

ResourcesOK(res) ==
    DOMAIN res = Resources /\ \A r \in Resources : res[r] \in ResourceRows[r] \cup {NoRow}

FileOK(f) == f = NoRow \/ IsDocument(f)

IInv ==
    /\ ResourcesOK(resource)
    /\ StoreOK(library, scenario, run, Usable(resource))
    /\ FileOK(file)
    /\ deleting \in LibraryRows(library) \cup {NoRow}

LEMMA ScenariosGrow ==
  ASSUME NEW scn, NEW A, NEW L, ScenariosOK(scn, A, L), NEW B, A \subseteq B,
         NEW M, L \subseteq M
  PROVE  ScenariosOK(scn, B, M)
  BY RowsGrow DEF ScenariosOK

LEMMA StoreGrows ==
  ASSUME NEW lib, NEW scn, NEW rn, NEW A, StoreOK(lib, scn, rn, A), NEW B, A \subseteq B
  PROVE  StoreOK(lib, scn, rn, B)
  BY LibraryGrows, ScenariosGrow DEF StoreOK

\* One scenario (or run) is written.
LEMMA ScenarioWritten ==
  ASSUME NEW scn, NEW A, NEW L, ScenariosOK(scn, A, L), NEW s, NEW rows,
         rows = NoRow \/ MarketOK(rows, A, L)
  PROVE  /\ ScenariosOK([scn EXCEPT ![s] = rows], A, L)
         /\ DOMAIN [scn EXCEPT ![s] = rows] = DOMAIN scn
<1> DEFINE new == [scn EXCEPT ![s] = rows]
<1>1. DOMAIN new = DOMAIN scn
  OBVIOUS
<1>2. \A t \in DOMAIN scn : new[t] = IF t = s THEN rows ELSE scn[t]
  OBVIOUS
<1> HIDE DEF new
<1>3. ScenariosOK(new, A, L)
  BY <1>1, <1>2 DEF ScenariosOK
<1> QED
  BY <1>1, <1>3 DEF new

-----------------------------------------------------------------------------
(* The requests that touch resources.                                      *)

\* Losing a plant leaves an agent what it was otherwise.
LEMMA RowsWithout ==
  ASSUME NEW rows, NEW A, NEW L, MarketOK(rows, A, L), NEW r, NEW B,
         \A a \in A : <<a[1], a[2] \ {r}>> \in B
  PROVE  MarketOK(Without(r, rows), B, L)
<1> DEFINE new == Without(r, rows)
           n == Len(rows)
<1>1. rows \in Seq(MarketAgents) /\ n \in Nat /\ DOMAIN rows = 1 .. n
  BY RowsAre DEF MarketOK
<1> HIDE DEF n
<1>2. DOMAIN new = 1 .. n /\ \A i \in 1 .. n : new[i] = [rows[i] EXCEPT !.plants = @ \ {r}]
  BY <1>1 DEF Without
<1>3. ASSUME NEW i \in 1 .. n
      PROVE  /\ new[i] \in MarketAgents
             /\ new[i].name = rows[i].name /\ new[i].source = rows[i].source
             /\ Key(new[i]) \in B
  <2>1. rows[i] \in MarketAgents /\ Key(rows[i]) \in A
    BY <1>1, RowsAre DEF MarketOK, n
  <2>2. <<Key(rows[i])[1], Key(rows[i])[2] \ {r}>> \in B
    BY <2>1
  <2>3. Key(rows[i])[1] = rows[i].type /\ Key(rows[i])[2] = rows[i].plants
    BY DEF Key
  <2>4. <<rows[i].type, rows[i].plants \ {r}>> \in B
    BY <2>2, <2>3
  <2>5. ASSUME NEW row \in MarketAgents
        PROVE  /\ [row EXCEPT !.plants = @ \ {r}] \in MarketAgents
               /\ [row EXCEPT !.plants = @ \ {r}].name = row.name
               /\ [row EXCEPT !.plants = @ \ {r}].source = row.source
               /\ Key([row EXCEPT !.plants = @ \ {r}]) = <<row.type, row.plants \ {r}>>
    BY DEF MarketAgents, Key
  <2> HIDE DEF new
  <2> QED
    BY <1>2, <2>1, <2>4, <2>5
<1>4. new = [i \in 1 .. n |-> new[i]]
  BY <1>1 DEF Without
<1>5. new \in Seq(MarketAgents)
  <2> HIDE DEF new, MarketAgents
  <2>1. new \in [1 .. n -> MarketAgents]
    BY <1>3, <1>4
  <2> QED
    BY <1>1, <2>1
<1> HIDE DEF new
<1>6. \A i \in 1 .. n : new[i].source \in L \cup {NoSource}
  BY <1>1, <1>3 DEF MarketOK
<1>7. Distinct(new)
  <2> SUFFICES ASSUME NEW i \in 1 .. n, NEW j \in 1 .. n, new[i].name = new[j].name
               PROVE  i = j
    BY <1>2 DEF Distinct
  <2>1. rows[i].name = rows[j].name
    BY <1>3
  <2> QED
    BY <1>1, <2>1 DEF MarketOK, Distinct
<1> QED
  BY <1>2, <1>3, <1>5, <1>6, <1>7 DEF MarketOK, new

LEMMA FunctionIs ==
  ASSUME NEW f, NEW D, NEW S, f = [x \in D |-> f[x]], \A x \in D : f[x] \in S
  PROVE  f \in [D -> S]
  OBVIOUS

LibraryLess(r, lib) ==
    [l \in LibraryIds |-> IF lib[l] = NoRow THEN NoRow
                          ELSE [lib[l] EXCEPT !.plants = @ \ {r}]]

LEMMA LibraryWithout ==
  ASSUME NEW lib, NEW A, LibOK(lib, A), NEW r, NEW B,
         \A a \in A : <<a[1], a[2] \ {r}>> \in B
  PROVE  /\ LibOK(LibraryLess(r, lib), B)
         /\ LibraryRows(LibraryLess(r, lib)) = LibraryRows(lib)
<1> DEFINE new == LibraryLess(r, lib)
<1>1. lib \in [LibraryIds -> LibraryAgents \cup {NoRow}] /\ DOMAIN lib = LibraryIds
  BY DEF LibOK
<1>2. ASSUME NEW row \in LibraryAgents
      PROVE  /\ [row EXCEPT !.plants = @ \ {r}] \in LibraryAgents
             /\ [row EXCEPT !.plants = @ \ {r}].name = row.name
             /\ Key([row EXCEPT !.plants = @ \ {r}]) = <<row.type, row.plants \ {r}>>
  BY DEF LibraryAgents, Key
<1>3. NoRow \notin LibraryAgents
  BY StoreAssumption
<1>4. DOMAIN new = LibraryIds /\ new = [l \in LibraryIds |-> new[l]]
  BY DEF LibraryLess
<1>5. ASSUME NEW l \in LibraryIds, lib[l] # NoRow
      PROVE  /\ new[l] \in LibraryAgents /\ new[l].name = lib[l].name
             /\ Key(new[l]) = <<lib[l].type, lib[l].plants \ {r}>>
  <2>1. lib[l] \in LibraryAgents
    BY <1>1, <1>5
  <2>2. new[l] = [lib[l] EXCEPT !.plants = @ \ {r}]
    BY <1>5 DEF LibraryLess
  <2> HIDE DEF LibraryAgents, new
  <2> QED
    BY <1>2, <2>1, <2>2
<1>6. \A l \in LibraryIds : lib[l] = NoRow => new[l] = NoRow
  BY DEF LibraryLess
<1> HIDE DEF new
<1>7. new \in [LibraryIds -> LibraryAgents \cup {NoRow}]
  <2> DEFINE T == LibraryAgents \cup {NoRow}
  <2>1. \A l \in LibraryIds : new[l] \in T
    BY <1>5, <1>6
  <2> HIDE DEF T
  <2>2. new \in [LibraryIds -> T]
    BY <1>4, <2>1, FunctionIs
  <2> QED
    BY <2>2 DEF T
<1>8. LibraryRows(new) = LibraryRows(lib)
  BY <1>1, <1>3, <1>4, <1>5, <1>6 DEF LibraryRows
<1>9. ASSUME NEW l \in LibraryRows(lib)
      PROVE  /\ l \in LibraryIds /\ new[l].name = lib[l].name
             /\ Key(new[l]) = <<lib[l].type, lib[l].plants \ {r}>>
  BY <1>1, <1>5 DEF LibraryRows
<1>10. ASSUME NEW l \in LibraryRows(lib) PROVE Key(new[l]) \in B
  <2>1. Key(lib[l]) \in A
    BY DEF LibOK
  <2>2. <<Key(lib[l])[1], Key(lib[l])[2] \ {r}>> \in B
    BY <2>1
  <2>3. Key(lib[l])[1] = lib[l].type /\ Key(lib[l])[2] = lib[l].plants
    BY DEF Key
  <2> QED
    BY <1>9, <2>2, <2>3
<1>11. \A l, k \in LibraryRows(lib) : Lower(new[k].name) = Lower(new[l].name) => k = l
  BY <1>9 DEF LibOK
<1> QED
  BY <1>7, <1>8, <1>10, <1>11 DEF LibOK, new

LEMMA ScenariosWithout ==
  ASSUME NEW scn, NEW A, NEW L, ScenariosOK(scn, A, L), NEW r, NEW B,
         \A a \in A : <<a[1], a[2] \ {r}>> \in B, NEW D, DOMAIN scn = D, NEW new,
         new = [s \in D |-> IF scn[s] = NoRow THEN NoRow ELSE Without(r, scn[s])]
  PROVE  DOMAIN new = D /\ ScenariosOK(new, B, L)
<1>1. DOMAIN new = D
  OBVIOUS
<1>2. ASSUME NEW s \in D, new[s] # NoRow PROVE MarketOK(new[s], B, L)
  <2>1. scn[s] # NoRow /\ new[s] = Without(r, scn[s])
    BY <1>2
  <2>2. MarketOK(scn[s], A, L)
    BY <2>1 DEF ScenariosOK
  <2> QED
    BY <2>1, <2>2, RowsWithout
<1> QED
  BY <1>1, <1>2 DEF ScenariosOK

-----------------------------------------------------------------------------
(* The other requests: what all of them keep when A may be owned.          *)

LEMMA ResourceDeleteIs ==
  ASSUME NEW A, StoreOK(library, scenario, run, A), NEW r, ResourceDelete(r),
         NEW B, \A a \in A : <<a[1], a[2] \ {r}>> \in B
  PROVE  /\ StoreOK(library', scenario', run', B)
         /\ LibraryRows(library') = LibraryRows(library)
<1>1. library' = LibraryLess(r, library)
  BY DEF ResourceDelete, LibraryLess
<1>2. LibOK(library', B) /\ LibraryRows(library') = LibraryRows(library)
  BY <1>1, LibraryWithout DEF StoreOK
<1>3. DOMAIN scenario' = ScenarioIds /\ ScenariosOK(scenario', B, LibraryRows(library))
  <2>1. scenario' = [s \in ScenarioIds |-> IF scenario[s] = NoRow THEN NoRow
                                           ELSE Without(r, scenario[s])]
    BY DEF ResourceDelete
  <2>2. DOMAIN scenario = ScenarioIds /\ ScenariosOK(scenario, A, LibraryRows(library))
    BY DEF StoreOK
  <2> QED
    BY <2>1, <2>2, ScenariosWithout
<1>4. DOMAIN run' = RunIds /\ ScenariosOK(run', B, LibraryRows(library))
  <2>1. run' = [g \in RunIds |-> IF run[g] = NoRow THEN NoRow ELSE Without(r, run[g])]
    BY DEF ResourceDelete
  <2>2. DOMAIN run = RunIds /\ ScenariosOK(run, A, LibraryRows(library))
    BY DEF StoreOK
  <2> QED
    BY <2>1, <2>2, ScenariosWithout
<1> QED
  BY <1>2, <1>3, <1>4 DEF StoreOK

LEMMA LibraryCreateIs ==
  ASSUME NEW A, StoreOK(library, scenario, run, A),
         \A c \in Contents : ValidContent(c) => Key(c) \in A,
         NEW name \in NameChoices, NEW content \in Contents, LibraryCreate(name, content)
  PROVE  /\ StoreOK(library', scenario', run', A)
         /\ LibraryRows(library) \subseteq LibraryRows(library')
<1> DEFINE config == FormConfig(content, NoParams)
<1>1. /\ ValidContent(content) /\ LibraryNameFree(library, name, {}) /\ Room(library, 1)
      /\ library' = CreateIn(library, name, config)
      /\ scenario' = scenario /\ run' = run
  BY DEF LibraryCreate
<1>2. Key(content) \in A /\ NoParams \in Params
  BY <1>1 DEF Params
<1>3. config \in Configs /\ Key(config) \in A
  BY <1>2, FormConfigIs
<1> HIDE DEF config
<1>4. name \in AgentNames /\ LibOK(library, A)
  BY NameChoicesAre DEF StoreOK
<1>5. /\ LibOK(library', A)
      /\ LibraryRows(library') = LibraryRows(library) \cup {NewLibraryId(library)}
  BY <1>1, <1>3, <1>4, CreateInIs
<1>6. LibraryRows(library) \subseteq LibraryRows(library') /\ A \subseteq A
  BY <1>5
<1>7. /\ ScenariosOK(scenario', A, LibraryRows(library'))
      /\ ScenariosOK(run', A, LibraryRows(library'))
  <2>1. /\ ScenariosOK(scenario, A, LibraryRows(library))
        /\ ScenariosOK(run, A, LibraryRows(library))
    BY DEF StoreOK
  <2> QED
    BY <1>1, <1>6, <2>1, ScenariosGrow
<1> QED
  BY <1>1, <1>5, <1>6, <1>7 DEF StoreOK

LEMMA LibraryUpdateIs ==
  ASSUME NEW A, StoreOK(library, scenario, run, A),
         \A c \in Contents : ValidContent(c) => Key(c) \in A,
         NEW l \in LibraryIds, NEW name \in NameChoices, NEW content \in Contents,
         LibraryUpdate(l, name, content)
  PROVE  /\ StoreOK(library', scenario', run', A)
         /\ LibraryRows(library') = LibraryRows(library)
<1> DEFINE config == FormConfig(content, library[l].params)
           row == LibraryRow(name, config)
<1>1. /\ ValidContent(content) /\ LibraryNameFree(library, name, {l})
      /\ library' = [library EXCEPT ![l] = row]
      /\ scenario' = scenario /\ run' = run
  BY DEF LibraryUpdate
<1>2. LibOK(library, A) /\ l \in LibraryRows(library)
  BY DEF StoreOK, LibraryUpdate, LibOK, LibraryRows
<1>3. library[l].params \in Params
  BY <1>2, LibraryRowIs DEF LibraryAgents
<1>4. config \in Configs /\ Key(config) \in A
  BY <1>1, <1>3, FormConfigIs
<1> HIDE DEF config
<1>5. name \in AgentNames
  BY NameChoicesAre
<1>6. row \in LibraryAgents /\ row.name = name /\ Key(row) = Key(config)
  BY <1>4, <1>5 DEF LibraryRow, LibraryAgents, Configs, Key
<1>7. row # NoRow
  BY <1>6, StoreAssumption
<1> HIDE DEF row
<1>8. library \in [LibraryIds -> LibraryAgents \cup {NoRow}]
  BY <1>2 DEF LibOK
<1>9. /\ library' \in [LibraryIds -> LibraryAgents \cup {NoRow}]
      /\ library'[l] = row
      /\ \A k \in LibraryIds : k # l => library'[k] = library[k]
  <2> HIDE DEF LibraryAgents
  <2> QED
    BY <1>1, <1>6, <1>8
<1>10. LibraryRows(library') = LibraryRows(library)
  BY <1>2, <1>7, <1>8, <1>9 DEF LibraryRows
<1>11. \A k \in LibraryRows(library) :
          /\ k \in LibraryIds
          /\ k # l => library'[k] = library[k] /\ Lower(library[k].name) # Lower(name)
  BY <1>1, <1>2, <1>9, LibraryRowIs DEF LibraryNameFree
<1>12. ASSUME NEW j \in LibraryRows(library)
       PROVE  /\ Key(library'[j]) \in A
              /\ \A k \in LibraryRows(library) :
                    Lower(library'[k].name) = Lower(library'[j].name) => k = j
  <2>1. CASE j = l
    BY <1>4, <1>6, <1>9, <1>11, <2>1
  <2>2. CASE j # l
    BY <1>2, <1>6, <1>9, <1>11, <2>2 DEF LibOK
  <2> QED
    BY <2>1, <2>2
<1>13. LibOK(library', A)
  BY <1>9, <1>10, <1>12 DEF LibOK
<1> QED
  BY <1>1, <1>10, <1>13 DEF StoreOK

\* The copies of a deleted library agent stay, without a source.
LEMMA RowsOrphaned ==
  ASSUME NEW rows, NEW A, NEW L, MarketOK(rows, A, L), NEW l
  PROVE  MarketOK(Orphans(rows, l), A, L \ {l})
<1> DEFINE new == Orphans(rows, l)
           n == Len(rows)
<1>1. rows \in Seq(MarketAgents) /\ n \in Nat /\ DOMAIN rows = 1 .. n
  BY RowsAre DEF MarketOK
<1> HIDE DEF n
<1>2. /\ DOMAIN new = 1 .. n /\ new = [i \in 1 .. n |-> new[i]]
      /\ \A i \in 1 .. n :
            new[i] = [rows[i] EXCEPT !.source = IF @ = l THEN NoSource ELSE @]
  BY <1>1 DEF Orphans
<1>3. ASSUME NEW row \in MarketAgents
      PROVE  LET o == [row EXCEPT !.source = IF @ = l THEN NoSource ELSE @] IN
             /\ o \in MarketAgents /\ o.name = row.name /\ Key(o) = Key(row)
             /\ o.source = IF row.source = l THEN NoSource ELSE row.source
  BY DEF MarketAgents, Key
<1> HIDE DEF new
<1>4. ASSUME NEW i \in 1 .. n
      PROVE  /\ new[i] \in MarketAgents /\ new[i].name = rows[i].name
             /\ Key(new[i]) = Key(rows[i])
             /\ new[i].source = IF rows[i].source = l THEN NoSource ELSE rows[i].source
  <2>1. rows[i] \in MarketAgents
    BY <1>1, RowsAre DEF n
  <2> QED
    BY <1>2, <1>3, <2>1
<1>5. new \in Seq(MarketAgents)
  <2>1. \A i \in 1 .. n : new[i] \in MarketAgents
    BY <1>4
  <2> HIDE DEF MarketAgents
  <2>2. new \in [1 .. n -> MarketAgents]
    BY <1>2, <2>1, FunctionIs
  <2> QED
    BY <1>1, <2>2
<1>6. \A i \in 1 .. n : Key(new[i]) \in A /\ new[i].source \in (L \ {l}) \cup {NoSource}
  BY <1>1, <1>4 DEF MarketOK
<1>7. Distinct(new)
  <2> SUFFICES ASSUME NEW i \in 1 .. n, NEW j \in 1 .. n, new[i].name = new[j].name
               PROVE  i = j
    BY <1>2 DEF Distinct
  <2>1. rows[i].name = rows[j].name
    BY <1>4
  <2> QED
    BY <1>1, <2>1 DEF MarketOK, Distinct
<1> QED
  BY <1>2, <1>5, <1>6, <1>7 DEF MarketOK, new

LEMMA ScenariosOrphaned ==
  ASSUME NEW scn, NEW A, NEW L, ScenariosOK(scn, A, L), NEW l,
         NEW D, DOMAIN scn = D, NEW new,
         new = [s \in D |-> IF scn[s] = NoRow THEN NoRow ELSE Orphans(scn[s], l)]
  PROVE  DOMAIN new = D /\ ScenariosOK(new, A, L \ {l})
<1>1. DOMAIN new = D
  OBVIOUS
<1>2. ASSUME NEW s \in D, new[s] # NoRow PROVE MarketOK(new[s], A, L \ {l})
  <2>1. scn[s] # NoRow /\ new[s] = Orphans(scn[s], l)
    BY <1>2
  <2>2. MarketOK(scn[s], A, L)
    BY <2>1 DEF ScenariosOK
  <2> QED
    BY <2>1, <2>2, RowsOrphaned
<1> QED
  BY <1>1, <1>2 DEF ScenariosOK

LEMMA LibraryDeleteIs ==
  ASSUME NEW A, StoreOK(library, scenario, run, A), LibraryDelete
  PROVE  StoreOK(library', scenario', run', A)
<1> DEFINE l == deleting
<1>1. library' = [library EXCEPT ![l] = NoRow]
  BY DEF LibraryDelete
<1>2. LibOK(library, A) /\ library \in [LibraryIds -> LibraryAgents \cup {NoRow}]
  BY DEF StoreOK, LibOK
<1>3. /\ library' \in [LibraryIds -> LibraryAgents \cup {NoRow}]
      /\ \A k \in LibraryIds : library'[k] = IF k = l THEN NoRow ELSE library[k]
  <2> HIDE DEF LibraryAgents
  <2> QED
    BY <1>1, <1>2
<1>4. /\ LibraryRows(library') = LibraryRows(library) \ {l}
      /\ \A k \in LibraryRows(library') : library'[k] = library[k]
  BY <1>2, <1>3 DEF LibraryRows
<1>5. LibOK(library', A)
  BY <1>2, <1>3, <1>4 DEF LibOK
<1>6. DOMAIN scenario' = ScenarioIds /\ ScenariosOK(scenario', A, LibraryRows(library'))
  <2>1. scenario' = [s \in ScenarioIds |-> IF scenario[s] = NoRow THEN NoRow
                                           ELSE Orphans(scenario[s], l)]
    BY DEF LibraryDelete
  <2>2. DOMAIN scenario = ScenarioIds /\ ScenariosOK(scenario, A, LibraryRows(library))
    BY DEF StoreOK
  <2> QED
    BY <1>4, <2>1, <2>2, ScenariosOrphaned
<1>7. DOMAIN run' = RunIds /\ ScenariosOK(run', A, LibraryRows(library'))
  <2>1. run' = [g \in RunIds |-> IF run[g] = NoRow THEN NoRow ELSE Orphans(run[g], l)]
    BY DEF LibraryDelete
  <2>2. DOMAIN run = RunIds /\ ScenariosOK(run, A, LibraryRows(library))
    BY DEF StoreOK
  <2> QED
    BY <1>4, <2>1, <2>2, ScenariosOrphaned
<1> QED
  BY <1>5, <1>6, <1>7 DEF StoreOK

LEMMA SaveIs ==
  ASSUME NEW A, StoreOK(library, scenario, run, A),
         \A c \in Contents : ValidContent(c) => Key(c) \in A,
         NEW s, NEW agents, MarketOK(agents, A, LibraryRows(library)),
         NEW entries \in Payloads(agents), Save(s, agents, entries)
  PROVE  /\ StoreOK(library', scenario', run', A)
         /\ LibraryRows(library) \subseteq LibraryRows(library')
<1> DEFINE written == Write(agents, entries)
<1>1. /\ ValidPayload(agents, entries) /\ written.ok
      /\ library' = written.lib
      /\ scenario' = [scenario EXCEPT ![s] = written.rows]
      /\ run' = run
  BY DEF Save
<1>2. LibOK(library, A)
  BY DEF StoreOK
<1>3. Grown(written, library, A)
  BY <1>1, <1>2, WriteIsOK
<1> HIDE DEF written
<1>4. /\ LibOK(library', A) /\ LibraryRows(library) \subseteq LibraryRows(library')
      /\ MarketOK(written.rows, A, LibraryRows(library')) /\ A \subseteq A
  BY <1>1, <1>3 DEF Grown
<1>5. /\ ScenariosOK(scenario, A, LibraryRows(library'))
      /\ ScenariosOK(run, A, LibraryRows(library'))
  <2>1. /\ ScenariosOK(scenario, A, LibraryRows(library))
        /\ ScenariosOK(run, A, LibraryRows(library))
    BY DEF StoreOK
  <2> QED
    BY <1>4, <2>1, ScenariosGrow
<1>6. ScenariosOK(scenario', A, LibraryRows(library')) /\ DOMAIN scenario' = DOMAIN scenario
  BY <1>1, <1>4, <1>5, ScenarioWritten
<1> QED
  BY <1>1, <1>4, <1>5, <1>6 DEF StoreOK

LEMMA CopyScenarioIs ==
  ASSUME NEW A, StoreOK(library, scenario, run, A),
         NEW s \in ScenarioIds, scenario[s] # NoRow, Len(scenario[s]) < MaxSuffix
  PROVE  MarketOK(CopyAll(scenario[s]), A, LibraryRows(library))
<1>1. MarketOK(scenario[s], A, LibraryRows(library))
  BY DEF StoreOK, ScenariosOK
<1> QED
  BY <1>1, CopyIsOK

\* One scenario is written and nothing else changes.
LEMMA ScenarioOnly ==
  ASSUME NEW A, StoreOK(library, scenario, run, A), NEW s, NEW rows,
         rows = NoRow \/ MarketOK(rows, A, LibraryRows(library)),
         scenario' = [scenario EXCEPT ![s] = rows], UNCHANGED <<library, run>>
  PROVE  StoreOK(library', scenario', run', A)
<1>1. ScenariosOK(scenario, A, LibraryRows(library))
  BY DEF StoreOK
<1>2. /\ ScenariosOK([scenario EXCEPT ![s] = rows], A, LibraryRows(library))
      /\ DOMAIN [scenario EXCEPT ![s] = rows] = DOMAIN scenario
  BY <1>1, ScenarioWritten
<1>3. library' = library /\ run' = run
  OBVIOUS
<1> QED
  BY <1>2, <1>3 DEF StoreOK

\* One run is written and nothing else changes.
LEMMA RunOnly ==
  ASSUME NEW A, StoreOK(library, scenario, run, A), NEW g, NEW rows,
         rows = NoRow \/ MarketOK(rows, A, LibraryRows(library)),
         run' = [run EXCEPT ![g] = rows], UNCHANGED <<library, scenario>>
  PROVE  StoreOK(library', scenario', run', A)
<1>1. ScenariosOK(run, A, LibraryRows(library))
  BY DEF StoreOK
<1>2. /\ ScenariosOK([run EXCEPT ![g] = rows], A, LibraryRows(library))
      /\ DOMAIN [run EXCEPT ![g] = rows] = DOMAIN run
  BY <1>1, ScenarioWritten
<1>3. library' = library /\ scenario' = scenario
  OBVIOUS
<1> QED
  BY <1>2, <1>3 DEF StoreOK

LEMMA ImportFileIs ==
  ASSUME NEW A, StoreOK(library, scenario, run, A), NEW B, A \subseteq B,
         NEW doc, IsDocument(doc), \A i \in DOMAIN doc.agents : Key(doc.agents[i]) \in B,
         NEW s, ImportFile(s, doc)
  PROVE  /\ StoreOK(library', scenario', run', B)
         /\ LibraryRows(library) \subseteq LibraryRows(library')
<1>1. /\ Importable(resource, library, doc)
      /\ Room(library, Cardinality(Created(library, doc)))
      /\ library' = ImportLibrary(library, doc)
      /\ scenario' = [scenario EXCEPT ![s] = ImportAgents(library', doc)]
      /\ run' = run
  BY DEF ImportFile
<1>2. doc.agents \in Seq(FileAgents)
  BY DEF IsDocument
<1>3. StoreOK(library, scenario, run, B)
  BY StoreGrows
<1>4. LibOK(library, B)
  BY <1>3 DEF StoreOK
<1> DEFINE new == ImportLibrary(library, doc)
           rows == ImportAgents(new, doc)
<1>5. \A i \in 1 .. Len(doc.agents) : Key(doc.agents[i]) \in B
  BY <1>2, FileAgentsAre
<1>6. /\ Imported(new, library, doc, B, Len(doc.agents))
      /\ MarketOK(rows, B, LibraryRows(new))
  BY <1>1, <1>2, <1>4, <1>5, ImportIsOK
<1>7. library' = new /\ scenario' = [scenario EXCEPT ![s] = rows]
  BY <1>1
<1> HIDE DEF new, rows
<1>8. /\ LibOK(new, B) /\ LibraryRows(library) \subseteq LibraryRows(new) /\ B \subseteq B
  BY <1>6 DEF Imported
<1>9. ScenariosOK(scenario, B, LibraryRows(new)) /\ ScenariosOK(run, B, LibraryRows(new))
  <2>1. /\ ScenariosOK(scenario, B, LibraryRows(library))
        /\ ScenariosOK(run, B, LibraryRows(library))
    BY <1>3 DEF StoreOK
  <2> QED
    BY <1>8, <2>1, ScenariosGrow
<1>10. /\ ScenariosOK([scenario EXCEPT ![s] = rows], B, LibraryRows(new))
       /\ DOMAIN [scenario EXCEPT ![s] = rows] = DOMAIN scenario
  BY <1>6, <1>9, ScenarioWritten
<1> QED
  BY <1>1, <1>3, <1>7, <1>8, <1>9, <1>10 DEF StoreOK

-----------------------------------------------------------------------------
(* What the requests check keeps agents usable and lawful.                 *)

LEMMA KeyIs ==
  ASSUME NEW row, NEW res
  PROVE  /\ Key(row) \in Usable(res)
               <=> row.type \in AgentTypes /\ row.plants \subseteq Present(res)
         /\ Key(row) \in Lawful(res)
               <=> Key(row) \in Usable(res) /\ Fits(res, row.type, row.plants)
<1>1. Key(row) = <<row.type, row.plants>>
  BY DEF Key
<1>2. Key(row) \in Usable(res) <=> row.type \in AgentTypes /\ row.plants \subseteq Present(res)
  BY <1>1 DEF Usable
<1>3. Key(row)[1] = row.type /\ Key(row)[2] = row.plants
  BY <1>1
<1>4. Key(row) \in Lawful(res) <=> Key(row) \in Usable(res) /\ Fits(res, row.type, row.plants)
  BY <1>3 DEF Lawful
<1> QED
  BY <1>2, <1>4

LEMMA ValidIsLawful ==
  \A c \in Contents : ValidContent(c) => Key(c) \in Usable(resource) /\ Key(c) \in Lawful(resource)
<1> SUFFICES ASSUME NEW c \in Contents, ValidContent(c)
             PROVE  Key(c) \in Usable(resource) /\ Key(c) \in Lawful(resource)
  OBVIOUS
<1>1. c.type \in AgentTypes
  BY StoreAssumption
<1>2. c.plants \subseteq Present(resource) /\ Fits(resource, c.type, c.plants)
  BY DEF ValidContent
<1> QED
  BY <1>1, <1>2, KeyIs

\* An import adds resources and changes none, and its agents are lawful.
LEMMA ImportResourcesAre ==
  ASSUME NEW res, ResourcesOK(res), NEW lib, NEW doc, IsDocument(doc),
         Importable(res, lib, doc), NEW new, new = ImportResources(res, doc)
  PROVE  /\ ResourcesOK(new) /\ Present(res) \subseteq Present(new)
         /\ \A r \in Present(res) : new[r] = res[r]
         /\ \A i \in DOMAIN doc.agents : Key(doc.agents[i]) \in Lawful(new)
<1>1. DOMAIN res = Resources /\ \A r \in Resources : res[r] \in ResourceRows[r] \cup {NoRow}
  BY DEF ResourcesOK
<1>2. /\ DOMAIN doc.resources \subseteq Resources
      /\ \A r \in DOMAIN doc.resources : doc.resources[r] \in ResourceRows[r]
      /\ \A r \in Resources : NoRow \notin ResourceRows[r]
      /\ doc.agents \in Seq(FileAgents)
  BY StoreAssumption DEF IsDocument
<1>3. DOMAIN new = Resources
  BY <1>1 DEF ImportResources
<1>4. \A r \in Resources : new[r] = IF r \in DOMAIN doc.resources THEN doc.resources[r] ELSE res[r]
  BY <1>1 DEF ImportResources
<1>5. \A r \in DOMAIN doc.resources : res[r] \in {NoRow, doc.resources[r]}
  BY DEF Importable
<1>6. ResourcesOK(new)
  BY <1>1, <1>2, <1>3, <1>4 DEF ResourcesOK
<1>7. ASSUME NEW r \in Present(res) PROVE r \in Present(new) /\ new[r] = res[r]
  <2>1. r \in Resources /\ res[r] # NoRow
    BY <1>1 DEF Present
  <2>2. new[r] = res[r]
    BY <1>4, <1>5, <2>1
  <2> QED
    BY <1>3, <2>1, <2>2 DEF Present
<1>8. ASSUME NEW i \in DOMAIN doc.agents PROVE Key(doc.agents[i]) \in Lawful(new)
  <2> DEFINE a == doc.agents[i]
  <2>1. ValidFileAgent(doc, a)
    BY DEF Importable
  <2>2. a.type \in AgentTypes
    <3>1. a \in FileAgents
      BY <1>2, FileAgentsAre
    <3> QED
      BY <3>1 DEF FileAgents
  <2> HIDE DEF a
  <2>3. a.plants \subseteq DOMAIN doc.resources /\ Fits(doc.resources, a.type, a.plants)
    BY <2>1 DEF ValidFileAgent
  <2>4. \A r \in DOMAIN doc.resources : r \in Present(new) /\ new[r] = doc.resources[r]
    BY <1>2, <1>3, <1>4 DEF Present
  <2>5. a.plants \subseteq Present(new) /\ Fits(new, a.type, a.plants)
    BY <2>3, <2>4 DEF Fits
  <2> QED
    BY <2>2, <2>5, KeyIs DEF a
<1> QED
  BY <1>6, <1>7, <1>8

-----------------------------------------------------------------------------
(* The invariant holds in the first state and after every request.         *)

LEMMA InitIsOK ==
  ASSUME Init
  PROVE  IInv
<1>1. ResourcesOK(resource)
  BY DEF Init, ResourcesOK
<1>2. library \in [LibraryIds -> LibraryAgents \cup {NoRow}] /\ LibraryRows(library) = {}
  BY DEF Init, LibraryRows
<1>3. LibOK(library, Usable(resource))
  BY <1>2 DEF LibOK
<1>4. /\ DOMAIN scenario = ScenarioIds /\ ScenariosOK(scenario, Usable(resource), {})
      /\ DOMAIN run = RunIds /\ ScenariosOK(run, Usable(resource), {})
  BY DEF Init, ScenariosOK
<1>5. FileOK(file) /\ deleting = NoRow
  BY DEF Init, FileOK
<1> QED
  BY <1>1, <1>2, <1>3, <1>4, <1>5 DEF IInv, StoreOK

\* What is exported is a document.
LEMMA ExportIsDocument ==
  ASSUME IInv, NEW s \in ScenarioIds, scenario[s] # NoRow
  PROVE  IsDocument(Export(scenario[s]))
<1> DEFINE rows == scenario[s]
           doc == Export(rows)
           L == LibraryRows(library)
           A == Usable(resource)
<1>1. MarketOK(rows, A, L) /\ LibOK(library, A)
  BY DEF IInv, StoreOK, ScenariosOK
<1> HIDE DEF rows, A, L
<1>2. /\ rows \in Seq(MarketAgents) /\ Len(rows) \in Nat /\ DOMAIN rows = 1 .. Len(rows)
      /\ \A i \in 1 .. Len(rows) : rows[i] \in MarketAgents
  BY <1>1, RowsAre DEF MarketOK
<1>3. ASSUME NEW i \in 1 .. Len(rows)
      PROVE  rows[i].plants \subseteq Present(resource) /\ rows[i].source \in L \cup {NoSource}
  BY <1>1, <1>2, KeyIs DEF MarketOK, A
<1>4. /\ DOMAIN doc.resources = UNION {rows[i].plants : i \in DOMAIN rows}
      /\ \A r \in DOMAIN doc.resources : doc.resources[r] = resource[r]
  BY DEF Export
<1>5. \A r \in DOMAIN doc.resources : r \in Present(resource)
  BY <1>2, <1>3, <1>4
<1>6. \A r \in Present(resource) : r \in Resources /\ resource[r] \in ResourceRows[r]
  BY DEF IInv, ResourcesOK, Present
<1> DEFINE Lib(i) == IF rows[i].source # NoSource THEN library[rows[i].source].name
                     ELSE rows[i].name
           F(i) == [name |-> rows[i].name, alg |-> rows[i].alg, type |-> rows[i].type,
                    params |-> rows[i].params, plants |-> rows[i].plants, lib |-> Lib(i)]
<1>7. doc.agents = [i \in 1 .. Len(rows) |-> F(i)]
  BY <1>2 DEF Export
<1>8. ASSUME NEW i \in 1 .. Len(rows) PROVE F(i) \in FileAgents
  <2>1. rows[i] \in MarketAgents
    BY <1>2
  <2>2. Lib(i) \in AgentNames
    <3>1. CASE rows[i].source # NoSource
      <4>1. rows[i].source \in LibraryRows(library)
        BY <1>3, <3>1 DEF L
      <4>2. library[rows[i].source].name \in AgentNames
        BY <1>1, <4>1, LibraryRowIs
      <4> QED
        BY <3>1, <4>2
    <3>2. CASE rows[i].source = NoSource
      BY <2>1, <3>2 DEF MarketAgents
    <3> QED
      BY <3>1, <3>2
  <2> HIDE DEF Lib
  <2> QED
    BY <2>1, <2>2 DEF MarketAgents, FileAgents
<1> HIDE DEF F, doc
<1>9. doc.agents \in Seq(FileAgents)
  <2> HIDE DEF FileAgents
  <2>1. doc.agents \in [1 .. Len(rows) -> FileAgents]
    BY <1>7, <1>8
  <2> QED
    BY <1>2, <2>1
<1> QED
  BY <1>4, <1>5, <1>6, <1>9 DEF IsDocument, doc, rows

\* Every request keeps the invariant.
LEMMA NextKeeps ==
  ASSUME IInv, Next
  PROVE  IInv'
<1> DEFINE A == Usable(resource)
           L == LibraryRows(library)
<1>1. /\ StoreOK(library, scenario, run, A) /\ LibOK(library, A)
      /\ ResourcesOK(resource) /\ FileOK(file) /\ deleting \in L \cup {NoRow}
  BY DEF IInv, StoreOK
<1>2. \A c \in Contents : ValidContent(c) => Key(c) \in A
  BY ValidIsLawful
<1> HIDE DEF A, L
<1>3. ASSUME StoreOK(library', scenario', run', A), L \subseteq LibraryRows(library'),
             UNCHANGED <<resource, file, deleting>>
      PROVE  IInv'
  <2>1. resource' = resource /\ file' = file /\ deleting' = deleting
    BY <1>3
  <2>2. deleting' \in LibraryRows(library') \cup {NoRow}
    BY <1>1, <1>3, <2>1
  <2> QED
    BY <1>1, <1>3, <2>1, <2>2 DEF IInv, A
<1>4. ASSUME NEW r \in Resources, NEW row \in ResourceRows[r], ResourceUpdate(r, row)
      PROVE  IInv'
  <2>1. /\ resource' = [resource EXCEPT ![r] = row] /\ library' = library
        /\ scenario' = scenario /\ run' = run /\ file' = file /\ deleting' = deleting
    BY <1>4 DEF ResourceUpdate
  <2>2. ResourcesOK(resource') /\ Present(resource) \subseteq Present(resource')
    <3>1. row # NoRow
      BY <1>4, StoreAssumption
    <3> QED
      BY <1>1, <1>4, <2>1, <3>1 DEF ResourcesOK, Present
  <2>3. A \subseteq Usable(resource')
    BY <2>2 DEF A, Usable
  <2>4. StoreOK(library', scenario', run', Usable(resource'))
    BY <1>1, <2>1, <2>3, StoreGrows
  <2> QED
    BY <1>1, <2>1, <2>2, <2>4 DEF IInv, L
<1>5. ASSUME NEW r \in Resources, ResourceDelete(r) PROVE IInv'
  <2>1. resource' = [resource EXCEPT ![r] = NoRow] /\ file' = file /\ deleting' = deleting
    BY <1>5 DEF ResourceDelete
  <2>2. ResourcesOK(resource') /\ Present(resource') = Present(resource) \ {r}
    BY <1>1, <2>1 DEF ResourcesOK, Present
  <2>3. \A a \in A : <<a[1], a[2] \ {r}>> \in Usable(resource')
    BY <2>2 DEF A, Usable
  <2>4. /\ StoreOK(library', scenario', run', Usable(resource'))
        /\ LibraryRows(library') = L
    BY <1>1, <1>5, <2>3, ResourceDeleteIs DEF L
  <2> QED
    BY <1>1, <2>1, <2>2, <2>4 DEF IInv
<1>6. ASSUME NEW name \in NameChoices, NEW content \in Contents, LibraryCreate(name, content)
      PROVE  IInv'
  <2>1. StoreOK(library', scenario', run', A) /\ L \subseteq LibraryRows(library')
    BY <1>1, <1>2, <1>6, LibraryCreateIs DEF L
  <2> QED
    BY <1>3, <1>6, <2>1 DEF LibraryCreate
<1>7. ASSUME NEW l \in LibraryIds, NEW name \in NameChoices, NEW content \in Contents,
             LibraryUpdate(l, name, content)
      PROVE  IInv'
  <2>1. StoreOK(library', scenario', run', A) /\ LibraryRows(library') = L
    BY <1>1, <1>2, <1>7, LibraryUpdateIs DEF L
  <2> QED
    BY <1>3, <1>7, <2>1 DEF LibraryUpdate
<1>8. ASSUME NEW l \in LibraryIds, LibraryDeleteCheck(l) PROVE IInv'
  <2>1. /\ resource' = resource /\ library' = library /\ scenario' = scenario
        /\ run' = run /\ file' = file /\ deleting' = l
    BY <1>8 DEF LibraryDeleteCheck
  <2>2. l \in LibraryRows(library)
    BY <1>1, <1>8 DEF LibraryDeleteCheck, LibOK, LibraryRows
  <2> QED
    BY <1>1, <2>1, <2>2 DEF IInv, A
<1>9. CASE LibraryDelete
  <2>1. StoreOK(library', scenario', run', A)
    BY <1>1, <1>9, LibraryDeleteIs
  <2>2. resource' = resource /\ file' = file /\ deleting' = NoRow
    BY <1>9 DEF LibraryDelete
  <2> QED
    BY <1>1, <2>1, <2>2 DEF IInv, A
<1>10. ASSUME NEW s \in ScenarioIds, NEW entries \in Payloads(<<>>),
              ScenarioCreate(s, entries)
       PROVE  IInv'
  <2>1. MarketOK(<<>>, A, LibraryRows(library))
    BY DEF MarketOK, Distinct
  <2>2. Save(s, <<>>, entries)
    BY <1>10 DEF ScenarioCreate
  <2>3. StoreOK(library', scenario', run', A) /\ L \subseteq LibraryRows(library')
    BY <1>1, <1>2, <2>1, <2>2, SaveIs DEF L
  <2> QED
    BY <1>3, <2>2, <2>3 DEF Save
<1>11. ASSUME NEW s \in Present(scenario), NEW entries \in Payloads(scenario[s]),
              ScenarioUpdate(s, entries)
       PROVE  IInv'
  <2>1. MarketOK(scenario[s], A, LibraryRows(library))
    BY <1>1 DEF StoreOK, ScenariosOK, Present
  <2>2. Save(s, scenario[s], entries)
    BY <1>11 DEF ScenarioUpdate
  <2>3. StoreOK(library', scenario', run', A) /\ L \subseteq LibraryRows(library')
    BY <1>1, <1>2, <1>11, <2>1, <2>2, SaveIs DEF L
  <2> QED
    BY <1>3, <2>2, <2>3 DEF Save
<1>12. ASSUME NEW s \in ScenarioIds, ScenarioDelete(s) PROVE IInv'
  <2>1. /\ scenario' = [scenario EXCEPT ![s] = NoRow]
        /\ UNCHANGED <<resource, library, run, file, deleting>>
    BY <1>12 DEF ScenarioDelete
  <2>2. StoreOK(library', scenario', run', A)
    BY <1>1, <2>1, ScenarioOnly
  <2> QED
    BY <1>3, <2>1, <2>2 DEF L
<1>13. ASSUME NEW s \in ScenarioIds, NEW t \in ScenarioIds, duplicate_scenario(s, t)
       PROVE  IInv'
  <2>1. /\ scenario[s] # NoRow /\ Len(scenario[s]) < MaxSuffix
        /\ scenario' = [scenario EXCEPT ![t] = CopyAll(scenario[s])]
        /\ UNCHANGED <<resource, library, run, file, deleting>>
    BY <1>13 DEF duplicate_scenario
  <2>2. MarketOK(CopyAll(scenario[s]), A, LibraryRows(library))
    BY <1>1, <2>1, CopyScenarioIs
  <2>3. StoreOK(library', scenario', run', A)
    BY <1>1, <2>1, <2>2, ScenarioOnly
  <2> QED
    BY <1>3, <2>1, <2>3 DEF L
<1>14. ASSUME NEW s \in ScenarioIds, NEW g \in RunIds, clone_scenario_for_run(s, g)
       PROVE  IInv'
  <2>1. /\ scenario[s] # NoRow /\ Len(scenario[s]) < MaxSuffix
        /\ run' = [run EXCEPT ![g] = CopyAll(scenario[s])]
        /\ UNCHANGED <<resource, library, scenario, file, deleting>>
    BY <1>14 DEF clone_scenario_for_run
  <2>2. MarketOK(CopyAll(scenario[s]), A, LibraryRows(library))
    BY <1>1, <2>1, CopyScenarioIs
  <2>3. StoreOK(library', scenario', run', A)
    BY <1>1, <2>1, <2>2, RunOnly
  <2> QED
    BY <1>3, <2>1, <2>3 DEF L
<1>15. ASSUME NEW g \in RunIds, RunDelete(g) PROVE IInv'
  <2>1. /\ run' = [run EXCEPT ![g] = NoRow]
        /\ UNCHANGED <<resource, library, scenario, file, deleting>>
    BY <1>15 DEF RunDelete
  <2>2. StoreOK(library', scenario', run', A)
    BY <1>1, <2>1, RunOnly
  <2> QED
    BY <1>3, <2>1, <2>2 DEF L
<1>16. ASSUME NEW s \in ScenarioIds, ExportFile(s) PROVE IInv'
  <2>1. /\ scenario[s] # NoRow /\ file' = Export(scenario[s])
        /\ resource' = resource /\ library' = library /\ scenario' = scenario
        /\ run' = run /\ deleting' = deleting
    BY <1>16 DEF ExportFile
  <2>2. FileOK(file')
    BY <2>1, ExportIsDocument DEF FileOK
  <2> QED
    BY <1>1, <2>1, <2>2 DEF IInv, A, L
<1>17. ASSUME NEW s \in ScenarioIds, NEW doc \in Files, ImportFile(s, doc)
       PROVE  IInv'
  <2>1. /\ Importable(resource, library, doc) /\ resource' = ImportResources(resource, doc)
        /\ file' = file /\ deleting' = deleting
    BY <1>17 DEF ImportFile
  <2>2. IsDocument(doc)
    BY <1>1, StoreAssumption DEF Files, FileOK
  <2>3. /\ ResourcesOK(resource') /\ Present(resource) \subseteq Present(resource')
        /\ \A i \in DOMAIN doc.agents : Key(doc.agents[i]) \in Lawful(resource')
    BY <1>1, <2>1, <2>2, ImportResourcesAre
  <2>4. /\ A \subseteq Usable(resource')
        /\ \A i \in DOMAIN doc.agents : Key(doc.agents[i]) \in Usable(resource')
    BY <2>3 DEF A, Usable, Lawful
  <2>5. /\ StoreOK(library', scenario', run', Usable(resource'))
        /\ L \subseteq LibraryRows(library')
    BY <1>1, <1>17, <2>2, <2>4, ImportFileIs DEF L
  <2> QED
    BY <1>1, <2>1, <2>3, <2>5 DEF IInv
<1> QED
  BY <1>4, <1>5, <1>6, <1>7, <1>8, <1>9, <1>10, <1>11, <1>12, <1>13, <1>14, <1>15, <1>16,
     <1>17 DEF Next

LEMMA StutterKeeps ==
  ASSUME IInv, UNCHANGED vars
  PROVE  IInv'
<1>1. /\ resource' = resource /\ library' = library /\ scenario' = scenario
      /\ run' = run /\ file' = file /\ deleting' = deleting
  BY DEF vars
<1> QED
  BY <1>1 DEF IInv

LEMMA Invariance == Spec => []IInv
<1>1. Init => IInv
  BY InitIsOK
<1>2. IInv /\ [Next]_vars => IInv'
  BY NextKeeps, StutterKeeps
<1> QED
  BY <1>1, <1>2, PTL DEF Spec

-----------------------------------------------------------------------------
(* Results.                                                                *)

LEMMA IInvImpliesTypeOK ==
  ASSUME IInv
  PROVE  TypeOK
<1> DEFINE A == Usable(resource)
           L == LibraryRows(library)
<1>1. StoreOK(library, scenario, run, A) /\ LibOK(library, A) /\ deleting \in L \cup {NoRow}
  BY DEF IInv, StoreOK
<1>2. ASSUME NEW rows, MarketOK(rows, A, L) PROVE Rows(rows, L)
  <2>1. /\ rows \in Seq(MarketAgents) /\ DOMAIN rows = 1 .. Len(rows)
        /\ \A i \in 1 .. Len(rows) : rows[i] \in MarketAgents
    BY <1>2, RowsAre DEF MarketOK
  <2>2. ASSUME NEW i \in 1 .. Len(rows)
        PROVE  /\ rows[i].source \in L \cup {NoSource}
               /\ rows[i].params \in Algorithms \cup {NoParams}
               /\ rows[i].plants \subseteq Present(resource)
    <3>1. Key(rows[i]) \in A /\ rows[i].source \in L \cup {NoSource}
      BY <1>2, <2>1 DEF MarketOK
    <3>2. rows[i].params \in Algorithms \cup {NoParams}
      BY <2>1 DEF MarketAgents, Params
    <3> QED
      BY <3>1, <3>2, KeyIs
  <2> QED
    BY <1>2, <2>1, <2>2 DEF Rows, MarketOK, Distinct
<1>3. \A s \in Present(scenario) : Rows(scenario[s], L)
  BY <1>1, <1>2 DEF StoreOK, ScenariosOK, Present
<1>4. \A g \in Present(run) : Rows(run[g], L)
  BY <1>1, <1>2 DEF StoreOK, ScenariosOK, Present
<1>5. ASSUME NEW l \in L
      PROVE  /\ library[l].plants \subseteq Present(resource)
             /\ \A k \in L \ {l} : Lower(library[k].name) # Lower(library[l].name)
  BY <1>1, KeyIs DEF LibOK
<1> QED
  BY <1>1, <1>3, <1>4, <1>5 DEF TypeOK

\* Sources, plants and a pending deletion always refer to rows that exist, and
\* names keep the constraints, whatever requests interleave with a deletion.
THEOREM ReferencesHold == Spec => []TypeOK
<1>1. IInv => TypeOK
  BY IInvImpliesTypeOK
<1> QED
  BY <1>1, Invariance, PTL

\* The rule is kept exactly if every agent is lawful.
LEMMA LawfulIsNoViolation ==
  ASSUME NEW res, NEW lib, NEW scn, NEW rn, StoreOK(lib, scn, rn, Usable(res))
  PROVE  ~ find_violations(res, lib, scn, rn) <=> StoreOK(lib, scn, rn, Lawful(res))
<1>1. ASSUME ~ find_violations(res, lib, scn, rn)
      PROVE  StoreOK(lib, scn, rn, Lawful(res))
  <2>1. LibOK(lib, Lawful(res))
    <3>1. ASSUME NEW l \in LibraryRows(lib) PROVE Key(lib[l]) \in Lawful(res)
      <4>1. Fits(res, lib[l].type, lib[l].plants)
        BY <1>1 DEF find_violations
      <4>2. Key(lib[l]) \in Usable(res)
        BY DEF StoreOK, LibOK
      <4> QED
        BY <4>1, <4>2, KeyIs
    <3> QED
      BY <3>1 DEF StoreOK, LibOK
  <2>2. ScenariosOK(scn, Lawful(res), LibraryRows(lib))
    <3> SUFFICES ASSUME NEW s \in DOMAIN scn, scn[s] # NoRow
                 PROVE  MarketOK(scn[s], Lawful(res), LibraryRows(lib))
      BY DEF ScenariosOK
    <3>1. MarketOK(scn[s], Usable(res), LibraryRows(lib))
      BY DEF StoreOK, ScenariosOK
    <3>2. \A i \in DOMAIN scn[s] : Fits(res, scn[s][i].type, scn[s][i].plants)
      BY <1>1 DEF find_violations, Present
    <3>3. \A i \in DOMAIN scn[s] : Key(scn[s][i]) \in Lawful(res)
      BY <3>1, <3>2, KeyIs DEF MarketOK
    <3> QED
      BY <3>1, <3>3 DEF MarketOK
  <2>3. ScenariosOK(rn, Lawful(res), LibraryRows(lib))
    <3> SUFFICES ASSUME NEW g \in DOMAIN rn, rn[g] # NoRow
                 PROVE  MarketOK(rn[g], Lawful(res), LibraryRows(lib))
      BY DEF ScenariosOK
    <3>1. MarketOK(rn[g], Usable(res), LibraryRows(lib))
      BY DEF StoreOK, ScenariosOK
    <3>2. \A i \in DOMAIN rn[g] : Fits(res, rn[g][i].type, rn[g][i].plants)
      BY <1>1 DEF find_violations, Present
    <3>3. \A i \in DOMAIN rn[g] : Key(rn[g][i]) \in Lawful(res)
      BY <3>1, <3>2, KeyIs DEF MarketOK
    <3> QED
      BY <3>1, <3>3 DEF MarketOK
  <2> QED
    BY <2>1, <2>2, <2>3 DEF StoreOK
<1>2. ASSUME StoreOK(lib, scn, rn, Lawful(res))
      PROVE  ~ find_violations(res, lib, scn, rn)
  <2>1. ASSUME NEW l \in LibraryRows(lib) PROVE Fits(res, lib[l].type, lib[l].plants)
    <3>1. Key(lib[l]) \in Lawful(res)
      BY <1>2 DEF StoreOK, LibOK
    <3> QED
      BY <3>1, KeyIs
  <2>2. ASSUME NEW s \in Present(scn), NEW i \in DOMAIN scn[s]
        PROVE  Fits(res, scn[s][i].type, scn[s][i].plants)
    <3>1. Key(scn[s][i]) \in Lawful(res)
      BY <1>2 DEF StoreOK, ScenariosOK, MarketOK, Present
    <3> QED
      BY <3>1, KeyIs
  <2>3. ASSUME NEW g \in Present(rn), NEW i \in DOMAIN rn[g]
        PROVE  Fits(res, rn[g][i].type, rn[g][i].plants)
    <3>1. Key(rn[g][i]) \in Lawful(res)
      BY <1>2 DEF StoreOK, ScenariosOK, MarketOK, Present
    <3> QED
      BY <3>1, KeyIs
  <2> QED
    BY <2>1, <2>2, <2>3 DEF find_violations
<1> QED
  BY <1>1, <1>2

SameEnergies ==
    \A r \in Present(resource) :
        resource'[r] # NoRow => resource'[r].energy = resource[r].energy

\* What was lawful stays lawful while the energy types of the resources stay.
LEMMA LawfulStays ==
  ASSUME NEW res, NEW new, Present(res) \subseteq Present(new),
         \A r \in Present(res) : new[r].energy = res[r].energy
  PROVE  Lawful(res) \subseteq Lawful(new)
<1> SUFFICES ASSUME NEW a \in Lawful(res) PROVE a \in Lawful(new)
  OBVIOUS
<1>1. a \in Usable(res) /\ Fits(res, a[1], a[2])
  BY DEF Lawful
<1>2. a[2] \subseteq Present(res) /\ a \in Usable(new)
  BY <1>1 DEF Usable
<1>3. Fits(new, a[1], a[2])
  BY <1>1, <1>2 DEF Fits
<1> QED
  BY <1>2, <1>3 DEF Lawful

LEMMA NextIsLawful ==
  ASSUME IInv, IInv', Next, SameEnergies,
         ~ find_violations(resource, library, scenario, run)
  PROVE  ~ find_violations(resource', library', scenario', run')
<1> DEFINE A == Lawful(resource)
           B == Lawful(resource')
<1>1. /\ StoreOK(library, scenario, run, A) /\ LibOK(library, A)
      /\ ResourcesOK(resource) /\ FileOK(file)
  <2>1. StoreOK(library, scenario, run, Usable(resource))
    BY DEF IInv
  <2>2. StoreOK(library, scenario, run, A)
    BY <2>1, LawfulIsNoViolation
  <2> QED
    BY <2>2 DEF IInv, StoreOK
<1>2. \A c \in Contents : ValidContent(c) => Key(c) \in A
  BY ValidIsLawful
<1>3. SUFFICES StoreOK(library', scenario', run', B)
  <2>1. StoreOK(library', scenario', run', Usable(resource'))
    BY DEF IInv
  <2> QED
    BY <1>3, <2>1, LawfulIsNoViolation
<1> HIDE DEF A, B
<1>4. ASSUME StoreOK(library', scenario', run', A), UNCHANGED resource
      PROVE  StoreOK(library', scenario', run', B)
  BY <1>4 DEF A, B
<1>5. ASSUME NEW r \in Resources, NEW row \in ResourceRows[r], ResourceUpdate(r, row)
      PROVE  StoreOK(library', scenario', run', B)
  <2>1. /\ resource' = [resource EXCEPT ![r] = row] /\ library' = library
        /\ scenario' = scenario /\ run' = run
    BY <1>5 DEF ResourceUpdate
  <2>2. row # NoRow
    BY <1>5, StoreAssumption
  <2>3. /\ Present(resource) \subseteq Present(resource')
        /\ \A x \in Present(resource) : resource'[x] # NoRow
    BY <1>1, <1>5, <2>1, <2>2 DEF ResourcesOK, Present
  <2>4. A \subseteq B
    BY <2>3, LawfulStays DEF SameEnergies, A, B
  <2> QED
    BY <1>1, <2>1, <2>4, StoreGrows
<1>6. ASSUME NEW r \in Resources, ResourceDelete(r)
      PROVE  StoreOK(library', scenario', run', B)
  <2>1. resource' = [resource EXCEPT ![r] = NoRow]
    BY <1>6 DEF ResourceDelete
  <2>2. /\ Present(resource') = Present(resource) \ {r}
        /\ \A x \in Present(resource') : resource'[x] = resource[x]
    BY <1>1, <2>1 DEF ResourcesOK, Present
  <2>3. ASSUME NEW a \in A PROVE <<a[1], a[2] \ {r}>> \in B
    <3>1. a \in Usable(resource) /\ Fits(resource, a[1], a[2])
      BY DEF A, Lawful
    <3>2. a[1] \in AgentTypes /\ a[2] \subseteq Present(resource)
      BY <3>1 DEF Usable
    <3>3. Fits(resource', a[1], a[2] \ {r})
      BY <2>2, <3>1, <3>2 DEF Fits
    <3> DEFINE b == <<a[1], a[2] \ {r}>>
    <3>4. b[1] = a[1] /\ b[2] = a[2] \ {r} /\ b \in Usable(resource')
      BY <2>2, <3>2 DEF Usable
    <3> HIDE DEF b
    <3>5. b \in Lawful(resource')
      BY <3>3, <3>4 DEF Lawful
    <3> QED
      BY <3>5 DEF b, B
  <2> QED
    BY <1>1, <1>6, <2>3, ResourceDeleteIs
<1>7. ASSUME NEW name \in NameChoices, NEW content \in Contents, LibraryCreate(name, content)
      PROVE  StoreOK(library', scenario', run', B)
  <2>1. StoreOK(library', scenario', run', A)
    BY <1>1, <1>2, <1>7, LibraryCreateIs
  <2> QED
    BY <1>4, <1>7, <2>1 DEF LibraryCreate
<1>8. ASSUME NEW l \in LibraryIds, NEW name \in NameChoices, NEW content \in Contents,
             LibraryUpdate(l, name, content)
      PROVE  StoreOK(library', scenario', run', B)
  <2>1. StoreOK(library', scenario', run', A)
    BY <1>1, <1>2, <1>8, LibraryUpdateIs
  <2> QED
    BY <1>4, <1>8, <2>1 DEF LibraryUpdate
<1>9. ASSUME NEW l \in LibraryIds, LibraryDeleteCheck(l)
      PROVE  StoreOK(library', scenario', run', B)
  <2>1. UNCHANGED <<resource, library, scenario, run>>
    BY <1>9 DEF LibraryDeleteCheck
  <2> QED
    BY <1>1, <1>4, <2>1
<1>10. CASE LibraryDelete
  <2>1. StoreOK(library', scenario', run', A)
    BY <1>1, <1>10, LibraryDeleteIs
  <2> QED
    BY <1>4, <1>10, <2>1 DEF LibraryDelete
<1>11. ASSUME NEW s \in ScenarioIds, NEW entries \in Payloads(<<>>),
              ScenarioCreate(s, entries)
       PROVE  StoreOK(library', scenario', run', B)
  <2>1. MarketOK(<<>>, A, LibraryRows(library))
    BY DEF MarketOK, Distinct
  <2>2. Save(s, <<>>, entries)
    BY <1>11 DEF ScenarioCreate
  <2>3. StoreOK(library', scenario', run', A)
    BY <1>1, <1>2, <2>1, <2>2, SaveIs
  <2> QED
    BY <1>4, <2>2, <2>3 DEF Save
<1>12. ASSUME NEW s \in Present(scenario), NEW entries \in Payloads(scenario[s]),
              ScenarioUpdate(s, entries)
       PROVE  StoreOK(library', scenario', run', B)
  <2>1. MarketOK(scenario[s], A, LibraryRows(library))
    BY <1>1 DEF StoreOK, ScenariosOK, Present
  <2>2. Save(s, scenario[s], entries)
    BY <1>12 DEF ScenarioUpdate
  <2>3. StoreOK(library', scenario', run', A)
    BY <1>1, <1>2, <1>12, <2>1, <2>2, SaveIs
  <2> QED
    BY <1>4, <2>2, <2>3 DEF Save
<1>13. ASSUME NEW s \in ScenarioIds, ScenarioDelete(s)
       PROVE  StoreOK(library', scenario', run', B)
  <2>1. /\ scenario' = [scenario EXCEPT ![s] = NoRow]
        /\ UNCHANGED <<resource, library, run>>
    BY <1>13 DEF ScenarioDelete
  <2>2. StoreOK(library', scenario', run', A)
    BY <1>1, <2>1, ScenarioOnly
  <2> QED
    BY <1>4, <2>1, <2>2
<1>14. ASSUME NEW s \in ScenarioIds, NEW t \in ScenarioIds, duplicate_scenario(s, t)
       PROVE  StoreOK(library', scenario', run', B)
  <2>1. /\ scenario[s] # NoRow /\ Len(scenario[s]) < MaxSuffix
        /\ scenario' = [scenario EXCEPT ![t] = CopyAll(scenario[s])]
        /\ UNCHANGED <<resource, library, run>>
    BY <1>14 DEF duplicate_scenario
  <2>2. MarketOK(CopyAll(scenario[s]), A, LibraryRows(library))
    BY <1>1, <2>1, CopyScenarioIs
  <2>3. StoreOK(library', scenario', run', A)
    BY <1>1, <2>1, <2>2, ScenarioOnly
  <2> QED
    BY <1>4, <2>1, <2>3
<1>15. ASSUME NEW s \in ScenarioIds, NEW g \in RunIds, clone_scenario_for_run(s, g)
       PROVE  StoreOK(library', scenario', run', B)
  <2>1. /\ scenario[s] # NoRow /\ Len(scenario[s]) < MaxSuffix
        /\ run' = [run EXCEPT ![g] = CopyAll(scenario[s])]
        /\ UNCHANGED <<resource, library, scenario>>
    BY <1>15 DEF clone_scenario_for_run
  <2>2. MarketOK(CopyAll(scenario[s]), A, LibraryRows(library))
    BY <1>1, <2>1, CopyScenarioIs
  <2>3. StoreOK(library', scenario', run', A)
    BY <1>1, <2>1, <2>2, RunOnly
  <2> QED
    BY <1>4, <2>1, <2>3
<1>16. ASSUME NEW g \in RunIds, RunDelete(g)
       PROVE  StoreOK(library', scenario', run', B)
  <2>1. /\ run' = [run EXCEPT ![g] = NoRow]
        /\ UNCHANGED <<resource, library, scenario>>
    BY <1>16 DEF RunDelete
  <2>2. StoreOK(library', scenario', run', A)
    BY <1>1, <2>1, RunOnly
  <2> QED
    BY <1>4, <2>1, <2>2
<1>17. ASSUME NEW s \in ScenarioIds, ExportFile(s)
       PROVE  StoreOK(library', scenario', run', B)
  <2>1. UNCHANGED <<resource, library, scenario, run>>
    BY <1>17 DEF ExportFile
  <2> QED
    BY <1>1, <1>4, <2>1
<1>18. ASSUME NEW s \in ScenarioIds, NEW doc \in Files, ImportFile(s, doc)
       PROVE  StoreOK(library', scenario', run', B)
  <2>1. /\ Importable(resource, library, doc) /\ resource' = ImportResources(resource, doc)
    BY <1>18 DEF ImportFile
  <2>2. IsDocument(doc)
    BY <1>1, StoreAssumption DEF Files, FileOK
  <2>3. /\ Present(resource) \subseteq Present(resource')
        /\ \A r \in Present(resource) : resource'[r] = resource[r]
        /\ \A i \in DOMAIN doc.agents : Key(doc.agents[i]) \in B
    BY <1>1, <2>1, <2>2, ImportResourcesAre DEF B
  <2>4. A \subseteq B
    BY <2>3, LawfulStays DEF A, B
  <2> QED
    BY <1>1, <1>18, <2>2, <2>3, <2>4, ImportFileIs
<1> QED
  BY <1>5, <1>6, <1>7, <1>8, <1>9, <1>10, <1>11, <1>12, <1>13, <1>14, <1>15, <1>16, <1>17,
     <1>18 DEF Next

\* No request makes an agent own a plant its type forbids, except a change of
\* the energy type of a resource in use.
THEOREM OnlyResourcesBreakTheRule == Spec => RuleBrokenByResourceOnly
<1> DEFINE P == \/ find_violations(resource, library, scenario, run)
                \/ \E r \in Present(resource) :
                      resource'[r] # NoRow /\ resource'[r].energy # resource[r].energy
                \/ ~ find_violations(resource', library', scenario', run')
<1>1. IInv /\ IInv' /\ [Next]_vars => [P]_vars
  <2> SUFFICES ASSUME IInv, IInv', Next PROVE P
    OBVIOUS
  <2>1. CASE SameEnergies
    BY <2>1, NextIsLawful
  <2>2. CASE ~ SameEnergies
    BY <2>2 DEF SameEnergies
  <2> QED
    BY <2>1, <2>2
<1> QED
  BY <1>1, Invariance, PTL DEF Spec, RuleBrokenByResourceOnly

\* An import that is accepted gives what the file says and changes nothing.
LEMMA ImportIsExactAlways ==
  ASSUME IInv
  PROVE  ImportIsExact
<1> SUFFICES ASSUME NEW doc \in Files, Importable(resource, library, doc),
                    Room(library, Cardinality(Created(library, doc)))
             PROVE  LET lib    == ImportLibrary(library, doc)
                        agents == ImportAgents(lib, doc)
                    IN  /\ \A r \in Present(resource) :
                              ImportResources(resource, doc)[r] = resource[r]
                        /\ \A l \in LibraryRows(library) : lib[l] = library[l]
                        /\ \A i \in DOMAIN doc.agents :
                              /\ agents[i].name = doc.agents[i].name
                              /\ Config(agents[i]) = Config(doc.agents[i])
                              /\ Config(lib[agents[i].source]) = Config(doc.agents[i])
                        /\ \A l \in LibraryRows(lib) : LibraryNameFree(lib, lib[l].name, {l})
  BY DEF ImportIsExact
<1> DEFINE lib == ImportLibrary(library, doc)
           agents == ImportAgents(lib, doc)
           new == ImportResources(resource, doc)
           A == Usable(new)
<1>1. IsDocument(doc) /\ doc.agents \in Seq(FileAgents)
  <2>1. IsDocument(doc)
    BY StoreAssumption DEF Files, IInv, FileOK
  <2> QED
    BY <2>1 DEF IsDocument
<1>2. /\ Present(resource) \subseteq Present(new)
      /\ \A r \in Present(resource) : new[r] = resource[r]
      /\ \A i \in DOMAIN doc.agents : Key(doc.agents[i]) \in Lawful(new)
  BY <1>1, ImportResourcesAre DEF IInv
<1> HIDE DEF new
<1>3. LibOK(library, A)
  <2>1. LibOK(library, Usable(resource)) /\ Usable(resource) \subseteq A
    BY <1>2 DEF IInv, StoreOK, Usable
  <2> HIDE DEF A
  <2> QED
    BY <2>1, LibraryGrows
<1>4. \A i \in 1 .. Len(doc.agents) : Key(doc.agents[i]) \in A
  BY <1>1, <1>2, FileAgentsAre DEF Lawful
<1> HIDE DEF A
<1>5. /\ Imported(lib, library, doc, A, Len(doc.agents))
      /\ IsImport(agents, lib, doc)
  BY <1>1, <1>3, <1>4, ImportIsOK
<1> HIDE DEF lib, agents
<1>6. \A l \in LibraryRows(library) : lib[l] = library[l]
  BY <1>5 DEF Imported
<1>7. \A i \in DOMAIN doc.agents :
         /\ agents[i].name = doc.agents[i].name
         /\ Config(agents[i]) = Config(doc.agents[i])
         /\ Config(lib[agents[i].source]) = Config(doc.agents[i])
  BY <1>1, <1>5, FileAgentsAre DEF IsImport
<1>8. \A l \in LibraryRows(lib) : LibraryNameFree(lib, lib[l].name, {l})
  BY <1>5 DEF Imported, LibOK, LibraryNameFree
<1> QED
  BY <1>2, <1>6, <1>7, <1>8 DEF lib, agents, new

\* What is exported from unedited copies is found again in the library.
LEMMA RoundTripReusesAlways ==
  ASSUME IInv
  PROVE  RoundTripReuses
<1> SUFFICES ASSUME NEW s \in Present(scenario),
                    \A i \in DOMAIN scenario[s] :
                       /\ scenario[s][i].source # NoSource
                       /\ Config(scenario[s][i]) = Config(library[scenario[s][i].source])
                       /\ ValidFileAgent(Export(scenario[s]), Export(scenario[s]).agents[i]),
                    \A i, j \in DOMAIN scenario[s] :
                       Lower(scenario[s][i].name) = Lower(scenario[s][j].name) => i = j
             PROVE  /\ Importable(resource, library, Export(scenario[s]))
                    /\ Created(library, Export(scenario[s])) = {}
                    /\ ImportAgents(library, Export(scenario[s])) = scenario[s]
  BY DEF RoundTripReuses
<1> DEFINE rows == scenario[s]
           doc == Export(rows)
           names == LibraryNames(doc.agents)
           L == LibraryRows(library)
           A == Usable(resource)
           n == Len(rows)
<1>1. MarketOK(rows, A, L) /\ LibOK(library, A)
  BY DEF IInv, StoreOK, ScenariosOK, Present
<1>2. /\ rows \in Seq(MarketAgents) /\ n \in Nat /\ DOMAIN rows = 1 .. n
      /\ \A i \in 1 .. n : rows[i] \in MarketAgents
  BY <1>1, RowsAre DEF MarketOK
<1>3. IsDocument(doc)
  BY ExportIsDocument DEF IInv, StoreOK, Present
<1>4. /\ \A i \in 1 .. n :
            /\ rows[i].source # NoSource
            /\ Config(rows[i]) = Config(library[rows[i].source])
            /\ ValidFileAgent(doc, doc.agents[i])
      /\ \A i, j \in 1 .. n : Lower(rows[i].name) = Lower(rows[j].name) => i = j
  BY <1>2
<1> HIDE DEF rows, A
<1>5. /\ DOMAIN doc.agents = 1 .. n
      /\ \A r \in DOMAIN doc.resources : doc.resources[r] = resource[r]
      /\ \A i \in 1 .. n :
            doc.agents[i] =
               [name |-> rows[i].name, alg |-> rows[i].alg, type |-> rows[i].type,
                params |-> rows[i].params, plants |-> rows[i].plants,
                lib |-> IF rows[i].source # NoSource THEN library[rows[i].source].name
                        ELSE rows[i].name]
  BY <1>2 DEF Export
<1> HIDE DEF doc, n
<1>6. doc.agents \in Seq(FileAgents) /\ Len(doc.agents) = n
  <2>1. doc.agents \in Seq(FileAgents)
    BY <1>3 DEF IsDocument
  <2>2. Len(doc.agents) \in Nat /\ DOMAIN doc.agents = 1 .. Len(doc.agents)
    BY <2>1, FileAgentsAre
  <2> HIDE DEF FileAgents
  <2>3. Len(doc.agents) = n
    BY <1>2, <1>5, <2>2
  <2> QED
    BY <2>1, <2>3
<1>7. ASSUME NEW i \in 1 .. n
      PROVE  /\ rows[i].source \in L
             /\ doc.agents[i].name = rows[i].name
             /\ doc.agents[i].lib = library[rows[i].source].name
             /\ Config(doc.agents[i]) = Config(library[rows[i].source])
  <2>1. rows[i].source \in L
    BY <1>1, <1>2, <1>4 DEF MarketOK
  <2>2. /\ doc.agents[i].name = rows[i].name
        /\ doc.agents[i].lib = library[rows[i].source].name
        /\ Config(doc.agents[i]) = Config(rows[i])
    <3>1. doc.agents[i] =
             [name |-> rows[i].name, alg |-> rows[i].alg, type |-> rows[i].type,
              params |-> rows[i].params, plants |-> rows[i].plants,
              lib |-> IF rows[i].source # NoSource THEN library[rows[i].source].name
                        ELSE rows[i].name]
      BY <1>5
    <3>2. rows[i].source # NoSource
      BY <1>4
    <3>3. /\ doc.agents[i].name = rows[i].name /\ doc.agents[i].alg = rows[i].alg
          /\ doc.agents[i].type = rows[i].type /\ doc.agents[i].params = rows[i].params
          /\ doc.agents[i].plants = rows[i].plants
      BY <3>1
    <3>4. doc.agents[i].lib = library[rows[i].source].name
      BY <3>1, <3>2
    <3> QED
      BY <3>3, <3>4 DEF Config
  <2> QED
    BY <1>4, <2>1, <2>2
<1>8. \A i \in 1 .. n : CopyOfRow(doc.agents[i], library)
  BY <1>7 DEF CopyOfRow, L
<1>9. /\ names \in Seq(AgentNames) /\ Len(names) = n
      /\ \A i \in 1 .. n : names[i] = doc.agents[i].lib
  BY <1>1, <1>6, <1>8, LibraryNamesAre
<1> HIDE DEF names
<1>10. ASSUME NEW i \in 1 .. n
       PROVE  /\ names[i] = library[rows[i].source].name
              /\ Matches(library, names[i]) = {rows[i].source}
  <2>1. names[i] = library[rows[i].source].name
    BY <1>7, <1>9
  <2>2. \A l \in L : Lower(library[l].name) = Lower(names[i]) <=> l = rows[i].source
    BY <1>1, <1>7, <2>1 DEF LibOK, L
  <2>3. Matches(library, names[i]) = {l \in L : l = rows[i].source}
    BY <2>2 DEF Matches, L
  <2> QED
    BY <1>7, <2>1, <2>3
<1>11. Importable(resource, library, doc)
  <2>1. \A r \in DOMAIN doc.resources : resource[r] \in {NoRow, doc.resources[r]}
    BY <1>5
  <2>2. \A i \in 1 .. n : ValidFileAgent(doc, doc.agents[i])
    BY <1>4
  <2>3. \A i, j \in 1 .. n : Lower(doc.agents[i].name) = Lower(doc.agents[j].name) => i = j
    BY <1>4, <1>7
  <2>4. ASSUME NEW i \in 1 .. n, NEW j \in 1 .. n, Lower(names[i]) = Lower(names[j])
        PROVE  Config(doc.agents[i]) = Config(doc.agents[j])
    <3>1. Matches(library, names[i]) = Matches(library, names[j])
      BY <2>4 DEF Matches
    <3>2. rows[i].source = rows[j].source
      BY <1>10, <3>1
    <3> QED
      BY <1>7, <3>2
  <2>5. \A i \in 1 .. n : \A l \in Matches(library, names[i]) :
           Config(library[l]) = Config(doc.agents[i])
    BY <1>7, <1>10
  <2> QED
    BY <1>5, <2>1, <2>2, <2>3, <2>4, <2>5 DEF Importable, names
<1>12. Created(library, doc) = {}
  <2>1. \A m \in Range(names) : Matches(library, m) # {}
    <3>1. DOMAIN names = 1 .. n
      BY <1>9
    <3> QED
      BY <1>10, <3>1 DEF Range
  <2> QED
    BY <2>1 DEF Created, names
<1>13. ImportAgents(library, doc) = rows
  <2>1. ASSUME NEW i \in 1 .. n PROVE ImportRow(library, doc, i) = rows[i]
    <3> DEFINE l == CHOOSE x \in Matches(library, names[i]) : TRUE
    <3>1. l = rows[i].source
      BY <1>10
    <3> HIDE DEF l
    <3>2. ImportRow(library, doc, i) = AgentRow(rows[i].name, Config(rows[i]), rows[i].source)
      BY <1>4, <1>7, <3>1 DEF ImportRow, l, names
    <3>3. \A row \in MarketAgents : AgentRow(row.name, Config(row), row.source) = row
      BY DEF MarketAgents, AgentRow, Config
    <3> QED
      BY <1>2, <3>2, <3>3
  <2>2. ImportAgents(library, doc) = [i \in 1 .. n |-> ImportRow(library, doc, i)]
    BY <1>5 DEF ImportAgents, ImportRow
  <2>3. rows = [i \in 1 .. n |-> rows[i]]
    <3> HIDE DEF MarketAgents
    <3> QED
      BY <1>2
  <2> QED
    BY <2>1, <2>2, <2>3
<1> QED
  BY <1>11, <1>12, <1>13 DEF doc, rows

\* A file that is imported gives the agents it says and changes no other, and
\* one exported from unedited copies is taken back without adding anything.
THEOREM FilesKeepAgents == Spec => []ImportKeepsAgents
<1>1. IInv => ImportKeepsAgents
  BY ImportIsExactAlways, RoundTripReusesAlways DEF ImportKeepsAgents
<1> QED
  BY <1>1, Invariance, PTL

-----------------------------------------------------------------------------
(* What a wizard page writes.                                              *)

(* What an entry that is not new starts from.                              *)
Original(agents, e) ==
    IF e.mode = "scenario" THEN agents[e.pos] ELSE library[e.lib]

(* The row is what entry e asked for, under this name; lib is the library  *)
(* it was written with.                                                    *)
IsWritten(row, e, name, agents, lib) ==
    /\ row.name = name
    /\ Config(row) = IF e.content = NoContent THEN Config(library[e.lib])
                     ELSE FormConfig(e.content, row.params)
    /\ row.params = IF e.mode # "new" /\ row.alg = Original(agents, e).alg
                    THEN Original(agents, e).params ELSE NoParams
    /\ e.mode = "scenario" => row.source = agents[e.pos].source
    /\ e.mode = "library" => row.source = e.lib
    /\ e.mode = "new" => /\ row.source \in LibraryRows(lib)
                         /\ lib[row.source].name = name
                         /\ Config(lib[row.source]) = Config(row)

LEMMA EditedConfig ==
  ASSUME NEW row \in MarketAgents, NEW name \in AgentNames, NEW content \in Contents
  PROVE  LET new == Edited(row, name, content) IN
         /\ new.alg = content.alg
         /\ new.params = IF new.alg = row.alg THEN row.params ELSE NoParams
         /\ Config(new) = FormConfig(content, new.params)
<1> DEFINE new == Edited(row, name, content)
           params == IF content.alg = row.alg THEN row.params ELSE NoParams
<1>1. Config(new) = FormConfig(content, params)
  BY EditedIs
<1> HIDE DEF new, params
<1>2. /\ Config(new).alg = new.alg /\ Config(new).params = new.params
      /\ FormConfig(content, params).alg = content.alg
      /\ FormConfig(content, params).params = params
  BY DEF Config, FormConfig
<1>3. new.alg = content.alg /\ new.params = params
  BY <1>1, <1>2
<1> QED
  BY <1>1, <1>3 DEF new, params

\* A kept agent is what its entry asked for.
LEMMA KeptIsWritten ==
  ASSUME NEW agents \in Seq(MarketAgents), NEW e, IsEntry(e, DOMAIN agents),
         e.mode = "scenario", NEW name \in AgentNames, NEW lib
  PROVE  IsWritten(Edited(agents[e.pos], name, e.content), e, name, agents, lib)
<1> DEFINE old == agents[e.pos]
           new == Edited(old, name, e.content)
<1>1. /\ e.content \in Contents /\ e.content # NoContent /\ e.pos \in DOMAIN agents
      /\ e.mode # "new" /\ e.mode # "library"
  BY DEF IsEntry
<1>2. old \in MarketAgents
  BY <1>1, RowsAre
<1> HIDE DEF old
<1>3. /\ new.name = name /\ new.source = old.source
      /\ new.params = IF new.alg = old.alg THEN old.params ELSE NoParams
      /\ Config(new) = FormConfig(e.content, new.params)
  BY <1>1, <1>2, EditedIs, EditedConfig
<1>4. Original(agents, e) = old
  BY DEF Original, old
<1> HIDE DEF new
<1> QED
  BY <1>1, <1>3, <1>4 DEF IsWritten, old, new

\* So is a copy of a library agent, edited or not.
LEMMA CopyIsWritten ==
  ASSUME NEW A, LibOK(library, A), NEW e, NEW dom, IsEntry(e, dom), e.mode = "library",
         e.lib \in LibraryRows(library), NEW name \in AgentNames, NEW agents, NEW lib
  PROVE  LET copy == AgentRow(name, Config(library[e.lib]), e.lib)
             row == IF e.content = NoContent THEN copy ELSE Edited(copy, name, e.content)
         IN  row \in MarketAgents /\ IsWritten(row, e, name, agents, lib)
<1> DEFINE old == library[e.lib]
           copy == AgentRow(name, Config(old), e.lib)
           row == IF e.content = NoContent THEN copy ELSE Edited(copy, name, e.content)
<1>1. e.mode # "new" /\ e.mode # "scenario"
  OBVIOUS
<1>2. e.lib \in LibraryIds \cup {NoSource} /\ old \in LibraryAgents
  BY LibraryRowIs
<1>3. Original(agents, e) = old
  BY <1>1 DEF Original
<1> HIDE DEF old
<1>4. Config(old) \in Configs
  BY <1>2, ConfigIs
<1>5. /\ copy \in MarketAgents /\ copy.name = name /\ copy.source = e.lib
      /\ Config(copy) = Config(old)
  BY <1>2, <1>4, AgentRowIs
<1> HIDE DEF copy
<1>6. copy.alg = old.alg /\ copy.params = old.params
  <2>1. /\ Config(copy).alg = copy.alg /\ Config(copy).params = copy.params
        /\ Config(old).alg = old.alg /\ Config(old).params = old.params
    BY DEF Config
  <2> QED
    BY <1>5, <2>1
<1>7. CASE e.content = NoContent
  <2>1. row = copy
    BY <1>7
  <2>2. IsWritten(copy, e, name, agents, lib)
    BY <1>1, <1>3, <1>5, <1>6, <1>7 DEF IsWritten, old
  <2> QED
    BY <1>5, <2>1, <2>2 DEF row, copy, old
<1>8. CASE e.content # NoContent
  <2> DEFINE new == Edited(copy, name, e.content)
  <2>1. e.content \in Contents
    BY <1>8 DEF IsEntry
  <2>2. /\ new \in MarketAgents /\ new.name = name /\ new.source = copy.source
        /\ new.params = IF new.alg = copy.alg THEN copy.params ELSE NoParams
        /\ Config(new) = FormConfig(e.content, new.params)
    BY <1>5, <2>1, EditedIs, EditedConfig
  <2>3. row = new
    BY <1>8
  <2> HIDE DEF new
  <2>4. IsWritten(new, e, name, agents, lib)
    BY <1>1, <1>3, <1>5, <1>6, <1>8, <2>2 DEF IsWritten
  <2> QED
    BY <2>2, <2>3, <2>4 DEF row, copy, old
<1> QED
  BY <1>7, <1>8

\* A row stays what was asked for while the library grows.
LEMMA StaysWritten ==
  ASSUME NEW row, NEW e, NEW name, NEW agents, NEW lib, NEW new,
         IsWritten(row, e, name, agents, lib),
         \A l \in LibraryRows(lib) : l \in LibraryRows(new) /\ new[l] = lib[l]
  PROVE  IsWritten(row, e, name, agents, new)
<1>1. e.mode = "new" => /\ row.source \in LibraryRows(new)
                        /\ new[row.source].name = name
                        /\ Config(new[row.source]) = Config(row)
  BY DEF IsWritten
<1> QED
  BY <1>1 DEF IsWritten

(* Entry i's agent comes before that of entry j: kept agents first and in  *)
(* the order they had, then the others in the order of the payload.        *)
Before(entries, i, j) ==
    IF entries[j].mode = "scenario"
    THEN entries[i].mode = "scenario" /\ entries[i].pos < entries[j].pos
    ELSE entries[i].mode = "scenario" \/ i < j

(* The rows after k entries: g says which entry each of them is for.       *)
Placed(g, rows, lib, agents, entries, names, n, k) ==
    /\ g \in [1 .. Len(rows) -> 1 .. n]
    /\ \A a \in 1 .. Len(rows) :
          /\ entries[g[a]].mode = "scenario" \/ g[a] <= k
          /\ IsWritten(rows[a], entries[g[a]], names[g[a]], agents, lib)
    /\ \A i \in 1 .. n : entries[i].mode = "scenario" \/ i <= k =>
          \E a \in 1 .. Len(rows) : g[a] = i
    /\ \A a, b \in 1 .. Len(rows) : a < b => Before(entries, g[a], g[b])

\* Before anything is added, the rows are those of the kept agents.
LEMMA KeptArePlaced ==
  ASSUME NEW agents \in Seq(MarketAgents),
         NEW entries, NEW n, IsPayload(entries, DOMAIN agents, n), PositionsDiffer(entries),
         NEW names \in Seq(AgentNames), Len(names) = n, NamesDiffer(names, n), NEW lib
  PROVE  \E g : Placed(g, KeptRows(UpdateRows(agents, entries, names).rows, entries),
                       lib, agents, entries, names, n, 0)
<1> DEFINE u == UpdateRows(agents, entries, names)
           P == Positions(entries)
           c == KeptRows(u.rows, entries)
<1>1. /\ Len(agents) \in Nat /\ DOMAIN agents = 1 .. Len(agents)
      /\ n \in Nat /\ DOMAIN entries = 1 .. n
  BY RowsAre DEF IsPayload
<1>2. Updated(u, agents, entries, names, n)
  BY <1>1, UpdateRowsAre
<1> HIDE DEF u
<1>3. u.rows \in Seq(MarketAgents) /\ Len(u.rows) = Len(agents)
  BY <1>2 DEF Updated
<1>4. ASSUME NEW i \in Kept(entries)
      PROVE  /\ i \in 1 .. n /\ entries[i].mode = "scenario"
             /\ entries[i].pos \in P /\ entries[i].pos \in 1 .. Len(agents)
             /\ IsWritten(u.rows[entries[i].pos], entries[i], names[i], agents, lib)
  <2>1. i \in 1 .. n /\ entries[i].mode = "scenario" /\ entries[i].pos \in P
    BY <1>1 DEF Kept, Positions
  <2>2. IsEntry(entries[i], DOMAIN agents) /\ names[i] \in AgentNames
    BY <2>1 DEF IsPayload
  <2>3. entries[i].pos \in 1 .. Len(agents)
    BY <1>1, <2>1, <2>2 DEF IsEntry
  <2>4. u.rows[entries[i].pos]
           = Edited(agents[entries[i].pos], names[i], entries[i].content)
    BY <1>2, <2>1 DEF Updated
  <2> QED
    BY <2>1, <2>2, <2>3, <2>4, KeptIsWritten
<1>5. \A p \in P : \E i \in Kept(entries) : p = entries[i].pos
  BY DEF Positions
<1>6. P \subseteq 1 .. Len(u.rows)
  BY <1>3, <1>4, <1>5
<1>7. /\ c \in Seq(MarketAgents)
      /\ \E f : Picked(f, c, u.rows, P, Len(u.rows))
  BY <1>3, <1>6, KeptRowsAre
<1>8. PICK f : Picked(f, c, u.rows, P, Len(u.rows))
  BY <1>7
<1> HIDE DEF c, P
<1>9. Len(c) \in Nat /\ DOMAIN c = 1 .. Len(c)
  BY <1>7, RowsAre
<1> DEFINE entry(p) == CHOOSE i \in Kept(entries) : p = entries[i].pos
           g == [a \in 1 .. Len(c) |-> entry(f[a])]
<1>10. \A p \in P : entry(p) \in Kept(entries) /\ entries[entry(p)].pos = p
  BY <1>5
<1> HIDE DEF entry
<1>11. ASSUME NEW a \in 1 .. Len(c)
       PROVE  /\ g[a] \in Kept(entries) /\ entries[g[a]].pos = f[a]
              /\ f[a] \in P /\ c[a] = u.rows[f[a]]
  <2>1. f[a] \in P /\ c[a] = u.rows[f[a]]
    BY <1>8 DEF Picked
  <2> QED
    BY <1>10, <2>1
<1>12. g \in [1 .. Len(c) -> 1 .. n]
  <2>1. \A a \in 1 .. Len(c) : g[a] \in 1 .. n
    BY <1>4, <1>11
  <2> QED
    BY <2>1
<1> HIDE DEF g
<1>13. ASSUME NEW a \in 1 .. Len(c)
       PROVE  /\ entries[g[a]].mode = "scenario"
              /\ IsWritten(c[a], entries[g[a]], names[g[a]], agents, lib)
  BY <1>4, <1>11
<1>14. ASSUME NEW i \in 1 .. n, entries[i].mode = "scenario" \/ i <= 0
       PROVE  \E a \in 1 .. Len(c) : g[a] = i
  <2>1. i \in Kept(entries)
    BY <1>1, <1>14 DEF Kept
  <2>2. entries[i].pos \in P /\ entries[i].pos <= Len(u.rows)
    BY <1>1, <1>3, <1>4, <2>1
  <2>3. PICK a \in 1 .. Len(c) : f[a] = entries[i].pos
    BY <1>8, <2>2 DEF Picked
  <2> QED
    BY <1>11, <2>1, <2>3 DEF PositionsDiffer
<1>15. ASSUME NEW a \in 1 .. Len(c), NEW b \in 1 .. Len(c), a < b
       PROVE  Before(entries, g[a], g[b])
  <2>1. f[a] < f[b]
    BY <1>8, <1>15 DEF Picked
  <2> QED
    BY <1>11, <1>13, <2>1 DEF Before
<1>16. Placed(g, c, lib, agents, entries, names, n, 0)
  BY <1>12, <1>13, <1>14, <1>15 DEF Placed
<1> QED
  BY <1>16 DEF c, u

\* An entry that is not kept adds its row at the end.
LEMMA OneMoreIsPlaced ==
  ASSUME NEW rows \in Seq(MarketAgents), NEW lib, NEW new, NEW agents, NEW entries, NEW names,
         NEW n \in Nat, NEW k \in 1 .. n, NEW g,
         Placed(g, rows, lib, agents, entries, names, n, k - 1),
         \A l \in LibraryRows(lib) : l \in LibraryRows(new) /\ new[l] = lib[l],
         entries[k].mode # "scenario",
         NEW row \in MarketAgents, IsWritten(row, entries[k], names[k], agents, new)
  PROVE  \E h : Placed(h, Append(rows, row), new, agents, entries, names, n, k)
<1> DEFINE c == Append(rows, row)
           m == Len(rows)
           h == [a \in 1 .. m + 1 |-> IF a = m + 1 THEN k ELSE g[a]]
<1>1. /\ c \in Seq(MarketAgents) /\ Len(c) = m + 1 /\ m \in Nat
      /\ \A a \in 1 .. m : c[a] = rows[a]
      /\ c[m + 1] = row
  BY AppendIs
<1> HIDE DEF c
<1>2. /\ g \in [1 .. m -> 1 .. n]
      /\ \A a \in 1 .. m :
            /\ g[a] \in 1 .. n
            /\ entries[g[a]].mode = "scenario" \/ g[a] <= k - 1
            /\ IsWritten(rows[a], entries[g[a]], names[g[a]], agents, lib)
      /\ \A i \in 1 .. n : entries[i].mode = "scenario" \/ i <= k - 1 =>
            \E a \in 1 .. m : g[a] = i
      /\ \A a, b \in 1 .. m : a < b => Before(entries, g[a], g[b])
  BY DEF Placed
<1> HIDE DEF m
<1>3. /\ h[m + 1] = k
      /\ \A a \in 1 .. m : h[a] = g[a] /\ a \in 1 .. m + 1
      /\ \A a \in 1 .. m + 1 : a \in 1 .. m \/ a = m + 1
      /\ m + 1 \in 1 .. m + 1
  BY <1>1
<1>4. h \in [1 .. m + 1 -> 1 .. n]
  <2>1. \A a \in 1 .. m + 1 : h[a] \in 1 .. n
    BY <1>2, <1>3
  <2> QED
    BY <2>1
<1> HIDE DEF h
<1>5. ASSUME NEW a \in 1 .. m + 1
      PROVE  /\ entries[h[a]].mode = "scenario" \/ h[a] <= k
             /\ IsWritten(c[a], entries[h[a]], names[h[a]], agents, new)
  <2>1. CASE a = m + 1
    BY <1>1, <1>3, <2>1
  <2>2. CASE a \in 1 .. m
    <3>1. entries[h[a]].mode = "scenario" \/ h[a] <= k
      BY <1>2, <1>3, <2>2
    <3>2. IsWritten(rows[a], entries[g[a]], names[g[a]], agents, new)
      BY <1>2, <2>2, StaysWritten
    <3> QED
      BY <1>1, <1>3, <2>2, <3>1, <3>2
  <2> QED
    BY <1>3, <2>1, <2>2
<1>6. ASSUME NEW i \in 1 .. n, entries[i].mode = "scenario" \/ i <= k
      PROVE  \E a \in 1 .. m + 1 : h[a] = i
  <2>1. CASE i = k
    BY <1>3, <2>1
  <2>2. CASE i # k
    <3>1. entries[i].mode = "scenario" \/ i <= k - 1
      BY <1>6, <2>2
    <3>2. PICK a \in 1 .. m : g[a] = i
      BY <1>2, <3>1
    <3> QED
      BY <1>3, <3>2
  <2> QED
    BY <2>1, <2>2
<1>7. ASSUME NEW a \in 1 .. m + 1, NEW b \in 1 .. m + 1, a < b
      PROVE  Before(entries, h[a], h[b])
  <2>1. a \in 1 .. m
    BY <1>1, <1>7
  <2>2. CASE b = m + 1
    <3>1. entries[h[a]].mode = "scenario" \/ h[a] < k
      BY <1>2, <1>3, <2>1
    <3> QED
      BY <1>3, <2>2, <3>1 DEF Before
  <2>3. CASE b \in 1 .. m
    BY <1>2, <1>3, <1>7, <2>1, <2>3
  <2> QED
    BY <1>3, <2>2, <2>3
<1>8. Placed(h, c, new, agents, entries, names, n, k)
  BY <1>1, <1>4, <1>5, <1>6, <1>7 DEF Placed
<1> QED
  BY <1>8 DEF c

(* The library after k entries: one row more for each that is new, with    *)
(* the name of its entry.                                                  *)
AddedRows(lib) == LibraryRows(lib) \ LibraryRows(library)
NewTo(entries, k) == {i \in New(entries) : i <= k}

Added(lib, entries, names, k) ==
    /\ \A l \in AddedRows(lib) : \E i \in NewTo(entries, k) : lib[l].name = names[i]
    /\ Cardinality(AddedRows(lib)) = Cardinality(NewTo(entries, k))

(* What was checked before the write.                                      *)
Asked(agents, entries, names, A, n) ==
    /\ agents \in Seq(MarketAgents) /\ MarketOK(agents, A, LibraryRows(library))
    /\ LibOK(library, A)
    /\ IsPayload(entries, DOMAIN agents, n)
    /\ CopiesExist(entries, n) /\ ContentsFit(entries, n, A) /\ PositionsDiffer(entries)
    /\ names \in Seq(AgentNames) /\ Len(names) = n /\ NamesDiffer(names, n)
    /\ \A i \in New(entries) : LibraryNameFree(library, names[i], {})
    /\ \A i, j \in New(entries) : Lower(names[i]) = Lower(names[j]) => i = j
    /\ Cardinality(FreeIds(library)) >= Cardinality(New(entries))

(* What has been written after k entries.                                  *)
Saved(acc, agents, entries, names, A, n, k) ==
    /\ Grown(acc, library, A)
    /\ \E g : Placed(g, acc.rows, acc.lib, agents, entries, names, n, k)
    /\ Added(acc.lib, entries, names, k)

LEMMA NewIsFinite ==
  ASSUME NEW entries, NEW n \in Nat, DOMAIN entries = 1 .. n
  PROVE  /\ IsFiniteSet(New(entries)) /\ Cardinality(New(entries)) \in Nat
         /\ \A k : /\ IsFiniteSet(NewTo(entries, k))
                   /\ Cardinality(NewTo(entries, k)) \in Nat
                   /\ NewTo(entries, k) \subseteq New(entries)
<1>1. New(entries) \in SUBSET (1 .. n)
  BY DEF New
<1>2. IsFiniteSet(1 .. n)
  BY FS_Interval
<1>3. IsFiniteSet(New(entries)) /\ Cardinality(New(entries)) \in Nat
  BY <1>1, <1>2, FS_Subset, FS_CardinalityType
<1>4. ASSUME NEW k
      PROVE  /\ IsFiniteSet(NewTo(entries, k)) /\ Cardinality(NewTo(entries, k)) \in Nat
             /\ NewTo(entries, k) \subseteq New(entries)
  <2>1. NewTo(entries, k) \in SUBSET New(entries)
    BY DEF NewTo
  <2> QED
    BY <1>3, <2>1, FS_Subset, FS_CardinalityType
<1> QED
  BY <1>3, <1>4

LEMMA AddedIsFree ==
  ASSUME NEW lib, NEW A, LibOK(lib, A), LibOK(library, A)
  PROVE  /\ AddedRows(lib) \subseteq FreeIds(library)
         /\ IsFiniteSet(AddedRows(lib)) /\ Cardinality(AddedRows(lib)) \in Nat
<1>1. AddedRows(lib) \in SUBSET FreeIds(library)
  BY DEF LibOK, AddedRows, FreeIds, LibraryRows
<1> QED
  BY <1>1, FreeIdsAre, FS_Subset, FS_CardinalityType

\* There is an id for the next new agent.
LEMMA RoomIsLeft ==
  ASSUME NEW agents, NEW entries, NEW names, NEW A, NEW n, Asked(agents, entries, names, A, n),
         NEW k \in 1 .. n, NEW lib, LibOK(lib, A),
         \A l \in LibraryRows(library) : l \in LibraryRows(lib),
         Added(lib, entries, names, k - 1), entries[k].mode = "new"
  PROVE  Room(lib, 1)
<1> DEFINE before == NewTo(entries, k - 1)
           all == New(entries)
           free == DOMAIN lib \ LibraryRows(lib)
<1>1. n \in Nat /\ k \in Nat /\ DOMAIN entries = 1 .. n /\ LibOK(library, A)
  BY DEF Asked, IsPayload
<1>2. /\ IsFiniteSet(all) /\ Cardinality(all) \in Nat
      /\ IsFiniteSet(before) /\ Cardinality(before) \in Nat
  BY <1>1, NewIsFinite
<1>3. k \in all /\ k \notin before
  BY <1>1 DEF New, NewTo
<1>4. before \in SUBSET (all \ {k})
  BY <1>3 DEF NewTo
<1> HIDE DEF before, all
<1>5. Cardinality(before) < Cardinality(all)
  <2>1. IsFiniteSet(all \ {k}) /\ Cardinality(all \ {k}) = Cardinality(all) - 1
    BY <1>2, <1>3, FS_RemoveElement
  <2>2. Cardinality(before) <= Cardinality(all \ {k})
    BY <1>4, <2>1, FS_Subset
  <2> QED
    BY <1>2, <2>1, <2>2
<1>6. /\ IsFiniteSet(FreeIds(library)) /\ Cardinality(FreeIds(library)) \in Nat
      /\ Cardinality(FreeIds(library)) >= Cardinality(all)
  BY FreeIdsAre DEF Asked, all
<1>7. DOMAIN lib = LibraryIds /\ free = FreeIds(lib)
  BY DEF LibOK, FreeIds
<1>8. IsFiniteSet(free) /\ Cardinality(free) \in Nat
  BY <1>7, FreeIdsAre
<1> HIDE DEF free
<1>9. free # {}
  <2> SUFFICES ASSUME free = {} PROVE FALSE
    OBVIOUS
  <2>1. FreeIds(library) \subseteq AddedRows(lib)
    BY <1>7 DEF FreeIds, AddedRows
  <2>2. AddedRows(lib) = FreeIds(library)
    BY <1>1, <2>1, AddedIsFree
  <2>3. Cardinality(AddedRows(lib)) = Cardinality(before)
    BY DEF Added, before
  <2> QED
    BY <1>2, <1>5, <1>6, <2>2, <2>3
<1>10. Cardinality(free) # 0
  BY <1>8, <1>9, FS_EmptySet
<1> QED
  BY <1>8, <1>10 DEF Room, free

\* Nothing the payload was checked for can be refused.
LEMMA NamesAreFree ==
  ASSUME NEW agents, NEW entries, NEW names, NEW A, NEW n, Asked(agents, entries, names, A, n),
         NEW k \in 1 .. n, entries[k].mode # "scenario",
         NEW acc, Saved(acc, agents, entries, names, A, n, k - 1)
  PROVE  /\ MarketNameFree(acc.rows, names[k])
         /\ entries[k].mode = "new" => LibraryNameFree(acc.lib, names[k], {})
<1>1. n \in Nat /\ k \in Nat /\ DOMAIN entries = 1 .. n
  BY DEF Asked, IsPayload
<1>2. /\ acc.rows \in Seq(MarketAgents) /\ LibOK(acc.lib, A)
      /\ \A l \in LibraryRows(library) : l \in LibraryRows(acc.lib) /\ acc.lib[l] = library[l]
  BY DEF Saved, Grown, MarketOK
<1>3. Len(acc.rows) \in Nat /\ DOMAIN acc.rows = 1 .. Len(acc.rows)
  BY <1>2, RowsAre
<1>4. MarketNameFree(acc.rows, names[k])
  <2> SUFFICES ASSUME NEW a \in 1 .. Len(acc.rows), acc.rows[a].name = names[k] PROVE FALSE
    BY <1>3 DEF MarketNameFree, Names
  <2>1. PICK g : Placed(g, acc.rows, acc.lib, agents, entries, names, n, k - 1)
    BY DEF Saved
  <2>2. /\ g[a] \in 1 .. n
        /\ entries[g[a]].mode = "scenario" \/ g[a] <= k - 1
        /\ acc.rows[a].name = names[g[a]]
    BY <2>1 DEF Placed, IsWritten
  <2>3. g[a] = k
    BY <2>2 DEF Asked, NamesDiffer
  <2> QED
    BY <1>1, <2>2, <2>3
<1>5. ASSUME entries[k].mode = "new", NEW l \in LibraryRows(acc.lib),
             Lower(acc.lib[l].name) = Lower(names[k])
      PROVE  FALSE
  <2>1. k \in New(entries)
    BY <1>1, <1>5 DEF New
  <2>2. CASE l \in LibraryRows(library)
    <3>1. acc.lib[l] = library[l]
      BY <1>2, <2>2
    <3>2. LibraryNameFree(library, names[k], {})
      BY <2>1 DEF Asked
    <3> QED
      BY <1>5, <2>2, <3>1, <3>2 DEF LibraryNameFree
  <2>3. CASE l \notin LibraryRows(library)
    <3>1. PICK i \in NewTo(entries, k - 1) : acc.lib[l].name = names[i]
      BY <2>3 DEF Saved, Added, AddedRows
    <3>2. i \in New(entries) /\ i <= k - 1
      BY DEF NewTo
    <3>3. i = k
      BY <1>5, <2>1, <3>1, <3>2 DEF Asked
    <3> QED
      BY <1>1, <3>2, <3>3
  <2> QED
    BY <2>2, <2>3
<1> QED
  BY <1>4, <1>5 DEF LibraryNameFree

LEMMA AddEntryGoesOn ==
  ASSUME NEW agents, NEW entries, NEW names, NEW A, NEW n, Asked(agents, entries, names, A, n),
         NEW k \in 1 .. n,
         NEW acc, Saved(acc, agents, entries, names, A, n, k - 1), acc.ok
  PROVE  AddEntry(acc, entries[k], names[k]).ok
<1> DEFINE e == entries[k]
           new == AddEntry(acc, e, names[k])
<1>1. IsEntry(e, DOMAIN agents)
  BY DEF Asked, IsPayload
<1>2. CASE e.mode = "scenario"
  BY <1>2 DEF AddEntry
<1>3. CASE e.mode = "new"
  <2>1. new.ok = (/\ acc.ok
                  /\ Room(acc.lib, 1)
                  /\ LibraryNameFree(acc.lib, names[k], {})
                  /\ MarketNameFree(acc.rows, names[k]))
    BY <1>3 DEF AddEntry
  <2>2. LibraryNameFree(acc.lib, names[k], {}) /\ MarketNameFree(acc.rows, names[k])
    BY <1>3, NamesAreFree
  <2>3. Room(acc.lib, 1)
    <3>1. /\ LibOK(acc.lib, A) /\ Added(acc.lib, entries, names, k - 1)
          /\ \A l \in LibraryRows(library) : l \in LibraryRows(acc.lib)
      BY DEF Saved, Grown
    <3> QED
      BY <1>3, <3>1, RoomIsLeft
  <2> HIDE DEF new
  <2>4. new.ok
    BY <2>1, <2>2, <2>3, Zenon
  <2> QED
    BY <2>4 DEF new
<1>4. CASE e.mode = "library"
  <2>1. new.ok = (acc.ok /\ MarketNameFree(acc.rows, names[k]))
    BY <1>4 DEF AddEntry
  <2>2. MarketNameFree(acc.rows, names[k])
    BY <1>4, NamesAreFree
  <2> HIDE DEF new
  <2>3. new.ok
    BY <2>1, <2>2, Zenon
  <2> QED
    BY <2>3 DEF new
<1> QED
  BY <1>1, <1>2, <1>3, <1>4 DEF IsEntry

\* An entry that is written leaves a page that is written up to it.
LEMMA AddEntrySaves ==
  ASSUME NEW agents, NEW entries, NEW names, NEW A, NEW n, Asked(agents, entries, names, A, n),
         NEW k \in 1 .. n,
         NEW acc, Saved(acc, agents, entries, names, A, n, k - 1),
         AddEntry(acc, entries[k], names[k]).ok
  PROVE  Saved(AddEntry(acc, entries[k], names[k]), agents, entries, names, A, n, k)
<1> DEFINE e == entries[k]
           name == names[k]
           new == AddEntry(acc, e, name)
<1>1. /\ n \in Nat /\ k \in Nat /\ DOMAIN entries = 1 .. n /\ LibOK(library, A)
      /\ IsEntry(e, DOMAIN agents) /\ name \in AgentNames
  BY DEF Asked, IsPayload
<1>2. /\ Grown(acc, library, A) /\ LibOK(acc.lib, A)
      /\ acc.rows \in Seq(MarketAgents)
      /\ \A l \in LibraryRows(library) : l \in LibraryRows(acc.lib) /\ acc.lib[l] = library[l]
  BY DEF Saved, Grown, MarketOK
<1>3. /\ e.content # NoContent => Key(e.content) \in A
      /\ e.mode = "library" => e.lib \in LibraryRows(library)
  BY DEF Asked, ContentsFit, CopiesExist
<1>4. Grown(new, library, A)
  BY <1>1, <1>2, <1>3, AddEntryIs
<1>5. PICK g : Placed(g, acc.rows, acc.lib, agents, entries, names, n, k - 1)
  BY DEF Saved
<1>6. Added(acc.lib, entries, names, k - 1)
  BY DEF Saved
<1>7. ASSUME e.mode # "new" PROVE NewTo(entries, k) = NewTo(entries, k - 1)
  <2>1. k \notin New(entries)
    BY <1>7 DEF New
  <2>2. \A i \in New(entries) : i <= k <=> i <= k - 1
    BY <1>1, <2>1 DEF New
  <2> QED
    BY <2>2 DEF NewTo
<1>8. CASE e.mode = "scenario"
  <2>1. new = acc
    BY <1>8 DEF AddEntry
  <2>2. Placed(g, acc.rows, acc.lib, agents, entries, names, n, k)
    <3>1. \A i \in 1 .. n : entries[i].mode = "scenario" \/ i <= k
             <=> entries[i].mode = "scenario" \/ i <= k - 1
      BY <1>1, <1>8
    <3>2. \A a \in 1 .. Len(acc.rows) : g[a] \in 1 .. n
      BY <1>5 DEF Placed
    <3> QED
      BY <1>5, <3>1, <3>2 DEF Placed
  <2>3. Added(acc.lib, entries, names, k)
    BY <1>6, <1>7, <1>8 DEF Added
  <2> HIDE DEF new
  <2>4. Saved(new, agents, entries, names, A, n, k)
    BY <1>2, <2>1, <2>2, <2>3 DEF Saved
  <2> QED
    BY <2>4 DEF new
<1>9. CASE e.mode = "library"
  <2> DEFINE copy == AgentRow(name, Config(library[e.lib]), e.lib)
             row == IF e.content = NoContent THEN copy ELSE Edited(copy, name, e.content)
  <2>1. acc.lib[e.lib] = library[e.lib]
    BY <1>2, <1>3, <1>9
  <2>2. new.lib = acc.lib /\ new.rows = Append(acc.rows, row)
    BY <1>9, <2>1 DEF AddEntry
  <2> HIDE DEF new
  <2>3. row \in MarketAgents /\ IsWritten(row, e, name, agents, acc.lib)
    BY <1>1, <1>3, <1>9, CopyIsWritten
  <2> HIDE DEF row
  <2>4. e.mode # "scenario"
    BY <1>9
  <2>5. \E h : Placed(h, Append(acc.rows, row), acc.lib, agents, entries, names, n, k)
    BY <1>1, <1>2, <1>5, <2>3, <2>4, OneMoreIsPlaced
  <2>6. Added(acc.lib, entries, names, k)
    BY <1>6, <1>7, <1>9 DEF Added
  <2>7. Saved(new, agents, entries, names, A, n, k)
    BY <1>4, <2>2, <2>5, <2>6 DEF Saved, new
  <2> QED
    BY <2>7 DEF new
<1>10. CASE e.mode = "new"
  <2> DEFINE config == FormConfig(e.content, NoParams)
             id == NewLibraryId(acc.lib)
             row == AgentRow(name, config, id)
             lib == CreateIn(acc.lib, name, config)
  <2>1. e.content \in Contents /\ e.content # NoContent /\ Key(e.content) \in A
    BY <1>1, <1>3, <1>10 DEF IsEntry
  <2>2. config \in Configs /\ Key(config) \in A /\ config.params = NoParams
    <3>1. config \in Configs /\ Key(config) \in A
      BY <2>1, FormConfigIs DEF Params
    <3> QED
      BY <3>1 DEF FormConfig
  <2> HIDE DEF config
  <2>3. Room(acc.lib, 1) /\ LibraryNameFree(acc.lib, name, {})
    <3>1. new.ok = (/\ acc.ok
                    /\ Room(acc.lib, 1)
                    /\ LibraryNameFree(acc.lib, name, {})
                    /\ MarketNameFree(acc.rows, name))
      BY <1>10 DEF AddEntry
    <3>2. new.ok
      OBVIOUS
    <3> HIDE DEF new
    <3> QED
      BY <3>1, <3>2, Zenon
  <2>4. new.lib = lib /\ new.rows = Append(acc.rows, row)
    BY <1>10, <2>3 DEF AddEntry, config
  <2> HIDE DEF new
  <2>5. /\ id \in LibraryIds \ LibraryRows(acc.lib)
        /\ LibOK(lib, A)
        /\ lib[id] = LibraryRow(name, config)
        /\ LibraryRow(name, config).name = name
        /\ Config(LibraryRow(name, config)) = config
        /\ \A l \in LibraryRows(acc.lib) : lib[l] = acc.lib[l]
        /\ LibraryRows(lib) = LibraryRows(acc.lib) \cup {id}
    BY <1>1, <1>2, <2>2, <2>3, CreateInIs
  <2> HIDE DEF id, lib
  <2>6. /\ row \in MarketAgents /\ row.name = name /\ row.source = id
        /\ Config(row) = config
    BY <1>1, <2>2, <2>5, AgentRowIs
  <2> HIDE DEF row
  <2>7. IsWritten(row, e, name, agents, lib)
    <3>1. row.params = NoParams
      <4>1. Config(row).params = row.params
        BY DEF Config
      <4> QED
        BY <2>2, <2>6, <4>1
    <3>2. Config(row) = FormConfig(e.content, row.params)
      BY <2>6, <3>1 DEF config
    <3>3. /\ row.source \in LibraryRows(lib) /\ lib[row.source].name = name
          /\ Config(lib[row.source]) = Config(row)
      BY <2>5, <2>6
    <3>4. e.mode # "scenario" /\ e.mode # "library"
      BY <1>10
    <3> QED
      BY <1>10, <2>1, <2>6, <3>1, <3>2, <3>3, <3>4 DEF IsWritten
  <2>8. e.mode # "scenario"
    BY <1>10
  <2>9. \A l \in LibraryRows(acc.lib) : l \in LibraryRows(lib) /\ lib[l] = acc.lib[l]
    BY <2>5
  <2>10. \E h : Placed(h, Append(acc.rows, row), lib, agents, entries, names, n, k)
    BY <1>1, <1>2, <1>5, <2>6, <2>7, <2>8, <2>9, OneMoreIsPlaced
  <2>11. Added(lib, entries, names, k)
    <3>1. NewTo(entries, k) = NewTo(entries, k - 1) \cup {k} /\ k \notin NewTo(entries, k - 1)
      <4>1. k \in New(entries)
        BY <1>1, <1>10 DEF New
      <4>2. \A i \in New(entries) : i <= k <=> i <= k - 1 \/ i = k
        BY <1>1 DEF New
      <4>3. ~ (k <= k - 1)
        BY <1>1
      <4> QED
        BY <4>1, <4>2, <4>3 DEF NewTo
    <3>2. AddedRows(lib) = AddedRows(acc.lib) \cup {id} /\ id \notin AddedRows(acc.lib)
      BY <1>2, <2>5 DEF AddedRows
    <3>3. /\ IsFiniteSet(NewTo(entries, k - 1)) /\ IsFiniteSet(AddedRows(acc.lib))
      BY <1>1, <1>2, NewIsFinite, AddedIsFree
    <3>4. /\ Cardinality(NewTo(entries, k)) = Cardinality(NewTo(entries, k - 1)) + 1
          /\ Cardinality(AddedRows(lib)) = Cardinality(AddedRows(acc.lib)) + 1
      BY <3>1, <3>2, <3>3, FS_AddElement
    <3>5. ASSUME NEW l \in AddedRows(lib)
          PROVE  \E i \in NewTo(entries, k) : lib[l].name = names[i]
      <4>1. CASE l = id
        BY <2>5, <3>1, <4>1
      <4>2. CASE l \in AddedRows(acc.lib)
        <5>1. lib[l] = acc.lib[l]
          BY <2>5, <4>2 DEF AddedRows
        <5>2. PICK i \in NewTo(entries, k - 1) : acc.lib[l].name = names[i]
          BY <1>6, <4>2 DEF Added
        <5> QED
          BY <3>1, <5>1, <5>2
      <4> QED
        BY <3>2, <4>1, <4>2
    <3> QED
      BY <1>6, <3>4, <3>5 DEF Added
  <2>12. Saved(new, agents, entries, names, A, n, k)
    BY <1>4, <2>4, <2>10, <2>11 DEF Saved, new
  <2> QED
    BY <2>12 DEF new
<1> QED
  BY <1>1, <1>8, <1>9, <1>10 DEF IsEntry

\* Whatever was checked is written as it was asked for, or refused because a
\* kept agent takes the name that another one still has.
LEMMA WriteIsSaved ==
  ASSUME NEW agents, NEW entries, NEW A, NEW n,
         Asked(agents, entries, EntryNames(entries), A, n)
  PROVE  /\ Write(agents, entries).ok \/ NameTaken(agents, entries, EntryNames(entries))
         /\ Write(agents, entries).ok =>
               Saved(Write(agents, entries), agents, entries, EntryNames(entries), A, n, n)
<1> DEFINE names == EntryNames(entries)
           u == UpdateRows(agents, entries, names)
           taken == NameTaken(agents, entries, names)
<1>1. /\ agents \in Seq(MarketAgents) /\ MarketOK(agents, A, LibraryRows(library))
      /\ LibOK(library, A)
      /\ IsPayload(entries, DOMAIN agents, n) /\ ContentsFit(entries, n, A)
      /\ PositionsDiffer(entries)
      /\ names \in Seq(AgentNames) /\ Len(names) = n /\ NamesDiffer(names, n)
      /\ n \in Nat /\ DOMAIN entries = 1 .. n
  BY DEF Asked, IsPayload
<1>2. \E h : WriteSteps(h, agents, entries, n)
  BY <1>1, WriteChain
<1>3. PICK h : WriteSteps(h, agents, entries, n)
  BY <1>2
<1>4. /\ h[0].ok = u.ok /\ h[0].lib = library /\ h[0].rows = KeptRows(u.rows, entries)
      /\ \A k \in 1 .. n : h[k] = AddEntry(h[k - 1], entries[k], names[k])
      /\ Write(agents, entries) = h[n]
  BY <1>3 DEF WriteSteps
<1> DEFINE S == {k \in 0 .. n : /\ h[k].ok \/ taken
                                /\ h[k].ok => Saved(h[k], agents, entries, names, A, n, k)}
<1>5. 0 \in S
  <2>1. u.ok \/ taken
    BY <1>1, UpdateRowsAre DEF Updated
  <2>2. Grown(h[0], library, A)
    <3>1. MarketOK(KeptRows(u.rows, entries), A, LibraryRows(library))
      BY <1>1, KeptIsOK
    <3> HIDE DEF u
    <3> QED
      BY <1>1, <1>4, <3>1 DEF Grown
  <2>3. \E g : Placed(g, h[0].rows, h[0].lib, agents, entries, names, n, 0)
    <3>1. \E g : Placed(g, KeptRows(u.rows, entries), library, agents, entries, names, n, 0)
      BY <1>1, KeptArePlaced
    <3> HIDE DEF u
    <3> QED
      BY <1>4, <3>1
  <2>4. Added(h[0].lib, entries, names, 0)
    <3>1. AddedRows(library) = {} /\ NewTo(entries, 0) = {}
      BY <1>1 DEF AddedRows, NewTo, New
    <3> QED
      BY <1>4, <3>1 DEF Added
  <2> HIDE DEF u, taken
  <2>5. h[0].ok \/ taken
    BY <1>4, <2>1
  <2>6. Saved(h[0], agents, entries, names, A, n, 0)
    BY <2>2, <2>3, <2>4 DEF Saved
  <2> QED
    BY <1>1, <2>5, <2>6
<1> HIDE DEF names, u, taken
<1>6. ASSUME NEW k \in 1 .. n, k - 1 \in S PROVE k \in S
  <2>1. k \in 0 .. n /\ h[k] = AddEntry(h[k - 1], entries[k], names[k])
    BY <1>1, <1>4
  <2>2. IsEntry(entries[k], DOMAIN agents)
    BY <1>1 DEF IsPayload
  <2>3. /\ h[k - 1].ok \/ taken
        /\ h[k - 1].ok => Saved(h[k - 1], agents, entries, names, A, n, k - 1)
    BY <1>6
  <2> HIDE DEF S
  <2>4. Asked(agents, entries, names, A, n)
    BY DEF names
  <2>5. h[k - 1].ok => h[k].ok
    BY <2>1, <2>3, <2>4, AddEntryGoesOn
  <2>6. h[k].ok => h[k - 1].ok
    BY <2>1, <2>2, AddEntryOk
  <2>7. ASSUME h[k].ok PROVE Saved(h[k], agents, entries, names, A, n, k)
    <3>1. Saved(h[k - 1], agents, entries, names, A, n, k - 1)
      BY <2>3, <2>6, <2>7
    <3>2. AddEntry(h[k - 1], entries[k], names[k]).ok
      BY <2>1, <2>7
    <3>3. Saved(AddEntry(h[k - 1], entries[k], names[k]), agents, entries, names, A, n, k)
      BY <2>4, <3>1, <3>2, AddEntrySaves
    <3> QED
      BY <2>1, <3>3
  <2> QED
    BY <2>1, <2>3, <2>5, <2>7 DEF S
<1> HIDE DEF S
<1>7. \A k \in 0 .. n : k \in S
  BY <1>1, <1>5, <1>6, Climb
<1>8. n \in S
  BY <1>1, <1>7
<1> QED
  BY <1>4, <1>8 DEF S, names, taken

LEMMA SavedIsAsAsked ==
  ASSUME NEW agents, NEW entries, NEW names, NEW A, NEW n, Asked(agents, entries, names, A, n),
         NEW written, written.ok, Saved(written, agents, entries, names, A, n, n)
  PROVE  AsAsked(agents, entries, written, names)
<1> DEFINE m == Len(written.rows)
           After(i) == CHOOSE p \in DOMAIN written.rows : written.rows[p].name = names[i]
<1>1. /\ n \in Nat /\ DOMAIN entries = 1 .. n /\ Len(entries) = n
      /\ NamesDiffer(names, n) /\ IsPayload(entries, DOMAIN agents, n)
      /\ agents \in Seq(MarketAgents)
  BY DEF Asked, IsPayload
<1>2. /\ LibOK(written.lib, A) /\ written.rows \in Seq(MarketAgents)
      /\ Distinct(written.rows)
      /\ \A l \in LibraryRows(library) : written.lib[l] = library[l]
      /\ Added(written.lib, entries, names, n)
  BY DEF Saved, Grown, MarketOK
<1>3. m \in Nat /\ DOMAIN written.rows = 1 .. m
  BY <1>2, RowsAre
<1>4. PICK g : Placed(g, written.rows, written.lib, agents, entries, names, n, n)
  BY DEF Saved
<1>5. /\ g \in [1 .. m -> 1 .. n]
      /\ \A a \in 1 .. m : IsWritten(written.rows[a], entries[g[a]], names[g[a]], agents,
                                     written.lib)
      /\ \A i \in 1 .. n : \E a \in 1 .. m : g[a] = i
      /\ \A a, b \in 1 .. m : a < b => Before(entries, g[a], g[b])
  BY <1>1, <1>4 DEF Placed
<1> HIDE DEF m
<1>6. ASSUME NEW a \in 1 .. m, NEW i \in 1 .. n, written.rows[a].name = names[i]
      PROVE  g[a] = i
  <2>1. g[a] \in 1 .. n /\ written.rows[a].name = names[g[a]]
    BY <1>5 DEF IsWritten
  <2> QED
    BY <1>1, <1>6, <2>1 DEF NamesDiffer
<1>7. \A a, b \in 1 .. m : g[a] = g[b] => a = b
  <2> SUFFICES ASSUME NEW a \in 1 .. m, NEW b \in 1 .. m, g[a] = g[b] PROVE a = b
    OBVIOUS
  <2>1. written.rows[a].name = names[g[a]] /\ written.rows[b].name = names[g[b]]
    BY <1>5 DEF IsWritten
  <2> QED
    BY <1>2, <1>3, <2>1 DEF Distinct
<1>8. ASSUME NEW i \in 1 .. n
      PROVE  /\ After(i) \in 1 .. m /\ g[After(i)] = i
             /\ IsWritten(written.rows[After(i)], entries[i], names[i], agents, written.lib)
  <2>1. PICK a \in 1 .. m : g[a] = i
    BY <1>5
  <2>2. written.rows[a].name = names[i]
    BY <1>5, <2>1 DEF IsWritten
  <2>3. After(i) \in 1 .. m /\ written.rows[After(i)].name = names[i]
    BY <1>3, <2>1, <2>2
  <2> HIDE DEF After
  <2>4. g[After(i)] = i
    BY <1>6, <2>3
  <2> QED
    BY <1>5, <2>3, <2>4
<1>9. m = n
  <2>1. /\ IsFiniteSet(1 .. m) /\ Cardinality(1 .. m) = m
        /\ IsFiniteSet(1 .. n) /\ Cardinality(1 .. n) = n
    BY <1>1, <1>3, FS_Interval
  <2>2. g \in Injection(1 .. m, 1 .. n) /\ g \in Surjection(1 .. m, 1 .. n)
    BY <1>5, <1>7 DEF Injection, IsInjective, Surjection
  <2> QED
    BY <2>1, <2>2, FS_Injection
<1> HIDE DEF After
<1>10. ASSUME NEW i \in 1 .. n
       PROVE  LET e == entries[i]
                  row == written.rows[After(i)]
                  old == Original(agents, e)
              IN  /\ Config(row) = IF e.content = NoContent
                                   THEN Config(library[e.lib])
                                   ELSE FormConfig(e.content, row.params)
                  /\ row.params = IF e.mode # "new" /\ row.alg = old.alg
                                  THEN old.params ELSE NoParams
                  /\ row.source = CASE e.mode = "new" ->
                                          CHOOSE l \in LibraryRows(written.lib) :
                                              written.lib[l].name = names[i]
                                    [] e.mode = "library" -> e.lib
                                    [] e.mode = "scenario" -> old.source
                  /\ e.mode = "new" =>
                        Config(written.lib[row.source]) = Config(row)
  <2> DEFINE e == entries[i]
             row == written.rows[After(i)]
             id == CHOOSE l \in LibraryRows(written.lib) : written.lib[l].name = names[i]
  <2>1. IsWritten(row, e, names[i], agents, written.lib) /\ IsEntry(e, DOMAIN agents)
    BY <1>1, <1>8 DEF IsPayload
  <2> HIDE DEF row, e
  <2>2. ASSUME e.mode = "new" PROVE row.source = id
    <3>1. row.source \in LibraryRows(written.lib) /\ written.lib[row.source].name = names[i]
      BY <2>1, <2>2 DEF IsWritten
    <3>2. id \in LibraryRows(written.lib) /\ written.lib[id].name = names[i]
      BY <3>1
    <3> HIDE DEF id
    <3> QED
      BY <1>2, <3>1, <3>2 DEF LibOK
  <2> HIDE DEF id
  <2>3. row.source = CASE e.mode = "new" -> id
                       [] e.mode = "library" -> e.lib
                       [] e.mode = "scenario" -> Original(agents, e).source
    <3>1. CASE e.mode = "new"
      BY <2>2, <3>1
    <3>2. CASE e.mode = "library"
      BY <2>1, <3>2 DEF IsWritten
    <3>3. CASE e.mode = "scenario"
      BY <2>1, <3>3 DEF IsWritten, Original
    <3> QED
      BY <2>1, <3>1, <3>2, <3>3 DEF IsEntry
  <2>4. e.mode = "new" => Config(written.lib[row.source]) = Config(row)
    BY <2>1 DEF IsWritten
  <2> QED
    BY <2>1, <2>3, <2>4 DEF IsWritten, e, row, id
<1>11. ASSUME NEW i \in 1 .. n, NEW j \in 1 .. n, i < j
       PROVE  After(i) < After(j) \/ j \in Kept(entries)
  <2> SUFFICES ASSUME ~ (After(i) < After(j)), j \notin Kept(entries) PROVE FALSE
    OBVIOUS
  <2>1. After(i) # After(j)
    BY <1>8, <1>11
  <2>2. After(j) < After(i)
    BY <1>3, <1>8, <2>1
  <2>3. Before(entries, j, i)
    BY <1>5, <1>8, <2>2
  <2> QED
    BY <1>1, <1>11, <2>3 DEF Before, Kept
<1>12. ASSUME NEW i \in Kept(entries), NEW j \in Kept(entries)
       PROVE  After(i) < After(j) <=> entries[i].pos < entries[j].pos
  <2>1. /\ i \in 1 .. n /\ entries[i].mode = "scenario"
        /\ j \in 1 .. n /\ entries[j].mode = "scenario"
    BY <1>1 DEF Kept
  <2>2. entries[i].pos \in Nat /\ entries[j].pos \in Nat
    <3>1. DOMAIN agents = 1 .. Len(agents) /\ Len(agents) \in Nat
      BY <1>1, RowsAre
    <3> QED
      BY <1>1, <2>1, <3>1 DEF IsPayload, IsEntry
  <2>3. After(i) \in 1 .. m /\ After(j) \in 1 .. m
    BY <1>8, <2>1
  <2>4. After(i) < After(j) => entries[i].pos < entries[j].pos
    BY <1>5, <1>8, <2>1, <2>3 DEF Before
  <2>5. After(j) < After(i) => entries[j].pos < entries[i].pos
    BY <1>5, <1>8, <2>1, <2>3 DEF Before
  <2>6. After(i) = After(j) => i = j
    BY <1>8, <2>1
  <2> QED
    BY <1>3, <2>2, <2>3, <2>4, <2>5, <2>6
<1>13. Cardinality(LibraryRows(written.lib) \ LibraryRows(library)) = Cardinality(New(entries))
  <2>1. NewTo(entries, n) = New(entries)
    BY <1>1 DEF NewTo, New
  <2> QED
    BY <1>2, <2>1 DEF Added, AddedRows
<1> QED
  BY <1>1, <1>2, <1>9, <1>10, <1>11, <1>12, <1>13 DEF AsAsked, After, Original, m


\* What the page is checked for before the transaction is what the write needs.
LEMMA ValidIsAsked ==
  ASSUME NEW agents, NEW A, LibOK(library, A),
         \A c \in Contents : ValidContent(c) => Key(c) \in A,
         MarketOK(agents, A, LibraryRows(library)),
         NEW entries \in Payloads(agents), ValidPayload(agents, entries),
         Room(library, Cardinality(New(entries)))
  PROVE  Asked(agents, entries, EntryNames(entries), A, Len(entries))
<1> DEFINE n == Len(entries)
           names == EntryNames(entries)
<1>1. /\ IsPayload(entries, DOMAIN agents, n)
      /\ CopiesExist(entries, n) /\ ContentsFit(entries, n, A)
      /\ PositionsDiffer(entries)
      /\ names \in Seq(AgentNames) /\ Len(names) = n /\ NamesDiffer(names, n)
  BY PayloadIsChecked
<1>2. \A i \in 1 .. n : entries[i].name # AutoName => names[i] = entries[i].name
  BY <1>1, EntryNamesAre
<1>3. \A i, j \in New(entries) : Lower(names[i]) = Lower(names[j]) => i = j
  BY DEF ValidPayload
<1>4. agents \in Seq(MarketAgents)
  BY DEF MarketOK
<1> HIDE DEF n, names
<1>5. ASSUME NEW i \in New(entries) PROVE LibraryNameFree(library, names[i], {})
  <2>1. i \in DOMAIN entries /\ entries[i].mode = "new" /\ i \in 1 .. n
    BY <1>1 DEF New, IsPayload
  <2>2. names[i] = entries[i].name
    BY <1>1, <1>2, <2>1 DEF IsPayload, IsEntry
  <2>3. LibraryNameFree(library, entries[i].name, {})
    BY <2>1 DEF ValidPayload
  <2> QED
    BY <2>2, <2>3
<1>6. Cardinality(FreeIds(library)) >= Cardinality(New(entries))
  <2>1. DOMAIN library = LibraryIds
    BY DEF LibOK
  <2> QED
    BY <2>1 DEF Room, FreeIds
<1> QED
  BY <1>1, <1>3, <1>4, <1>5, <1>6 DEF Asked, n, names

LEMMA IInvImpliesSaved ==
  ASSUME IInv
  PROVE  SavedAsAsked
<1> DEFINE A == Usable(resource)
<1>1. LibOK(library, A) /\ ScenariosOK(scenario, A, LibraryRows(library))
  BY DEF IInv, StoreOK
<1>2. \A c \in Contents : ValidContent(c) => Key(c) \in A
  BY ValidIsLawful
<1> HIDE DEF A
<1>3. ASSUME NEW s \in ScenarioIds, NEW entries \in Payloads(AgentsOf(s)),
             ValidPayload(AgentsOf(s), entries), Room(library, Cardinality(New(entries)))
      PROVE  AsAsked(AgentsOf(s), entries, Write(AgentsOf(s), entries), EntryNames(entries))
  <2> DEFINE agents == AgentsOf(s)
             written == Write(agents, entries)
             names == EntryNames(entries)
  <2>1. MarketOK(agents, A, LibraryRows(library))
    <3>1. CASE s \in Present(scenario)
      BY <1>1, <3>1 DEF ScenariosOK, Present, AgentsOf
    <3>2. CASE s \notin Present(scenario)
      <4>1. <<>> \in Seq(MarketAgents) /\ DOMAIN <<>> = {}
        OBVIOUS
      <4>2. MarketOK(<<>>, A, LibraryRows(library))
        BY <4>1 DEF MarketOK, Distinct
      <4> QED
        BY <3>2, <4>2 DEF AgentsOf
    <3> QED
      BY <3>1, <3>2
  <2>2. Asked(agents, entries, names, A, Len(entries))
    <3> HIDE DEF agents
    <3>1. entries \in Payloads(agents) /\ ValidPayload(agents, entries)
      BY <1>3 DEF agents
    <3> QED
      BY <1>1, <1>2, <1>3, <2>1, <3>1, ValidIsAsked
  <2> HIDE DEF agents
  <2>3. /\ written.ok \/ NameTaken(agents, entries, names)
        /\ written.ok => Saved(written, agents, entries, names, A, Len(entries), Len(entries))
    BY <2>2, WriteIsSaved
  <2> HIDE DEF written, names
  <2>4. CASE written.ok
    <3>1. AsAsked(agents, entries, written, names)
      BY <2>2, <2>3, <2>4, SavedIsAsAsked
    <3> QED
      BY <3>1 DEF agents, written, names
  <2>5. CASE ~ written.ok
    <3>1. \E i, j \in Kept(entries) : i # j /\ agents[entries[j].pos].name = names[i]
      BY <2>3, <2>5 DEF NameTaken
    <3>2. AsAsked(agents, entries, written, names)
      BY <2>5, <3>1 DEF AsAsked
    <3> QED
      BY <3>2 DEF agents, written, names
  <2> QED
    BY <2>4, <2>5
<1>4. ASSUME NEW agents \in {AgentsOf(s) : s \in ScenarioIds},
             NEW entries \in Payloads(agents),
             ValidPayload(agents, entries), Room(library, Cardinality(New(entries)))
      PROVE  AsAsked(agents, entries, Write(agents, entries), EntryNames(entries))
  <2>1. PICK s \in ScenarioIds : agents = AgentsOf(s)
    OBVIOUS
  <2> QED
    BY <1>3, <1>4, <2>1
<1> QED
  BY <1>4 DEF SavedAsAsked

\* A wizard page that passes the checks made before the transaction is never
\* refused inside it, except for agents that take each other's names, and then
\* writes exactly the agents it lists and one library agent for each new one
\* (_parse_scenario_agents, _write_scenario_agents).
THEOREM PagesAreSavedAsAsked == Spec => []SavedAsAsked
<1>1. IInv => SavedAsAsked
  BY IInvImpliesSaved
<1> QED
  BY <1>1, Invariance, PTL
=============================================================================

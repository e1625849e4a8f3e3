------------------------- MODULE DemandLibraryProofs -------------------------
(***************************************************************************)
(* Proofs about DemandLibrary.tla, for every table of settings, every      *)
(* normal form and any number of profiles, scenarios and runs: a scenario  *)
(* survives its file, and only its own wizard changes its demand.  And     *)
(* about DemandShape.tla, for any length of a day and of its transitions,  *)
(* any sine and any rounding: what is accepted gives the demand it says.   *)
(***************************************************************************)
EXTENDS FiniteSetTheorems, WellFoundedInduction, MCDemandLibrary, TLAPS

ProfileNames == Seq(Stems \cup Nat) \ {<<>>}

ProfileRows == [name : ProfileNames, settings : Settings]

Demands == [demand : Settings \cup {FileDemand}, link : ProfileIds \cup {NoLink}]

-----------------------------------------------------------------------------
(* The inductive invariant.                                                *)

\* Profiles hold settings in normal form, and scenarios and runs a demand that
\* was accepted.
Tables ==
    /\ profile \in [ProfileIds -> ProfileRows \cup {NoRow}]
    /\ scenario \in [ScenarioIds -> Demands \cup {NoRow}]
    /\ run \in [RunIds -> Demands \cup {NoRow}]
    /\ DOMAIN page = ScenarioIds

\* No two profiles have names that differ in case only.
NamesDiffer ==
    \A p, q \in Present(profile) :
        Lower(profile[p].name) = Lower(profile[q].name) => p = q

\* The demand from a file has no link, and a link leads to a profile.
Linked(row, profiles) ==
    /\ row.link \in profiles \cup {NoLink}
    /\ row.demand = FileDemand => row.link = NoLink

LinksLead ==
    /\ \A s \in Present(scenario) : Linked(scenario[s], Present(profile))
    /\ \A g \in Present(run) : Linked(run[g], Present(profile))

\* A page that shows a link has loaded settings equal to the scenario's copy.
Opened(view) ==
    /\ view.was \in Demands
    /\ view.shown \in ProfileIds \cup {NoLink}
    /\ view.shown # NoLink =>
          view.was.demand # FileDemand /\ view.detail = view.was.demand

PagesAgree == \A s \in ScenarioIds : page[s] # NoPage => Opened(page[s])

IInv == Tables /\ NamesDiffer /\ LinksLead /\ PagesAgree
-----------------------------------------------------------------------------
(* What the operators of the library give.                                 *)

\* Some numbers have a least one.
LEMMA LeastOf ==
  ASSUME NEW S, S \subseteq Nat, S # {}
  PROVE  \E x \in S : \A y \in S : x <= y
<1>1. PICK x \in S : \A y \in S : ~ (<<y, x>> \in OpToRel(<, Nat))
  BY NatLessThanWellFounded, WFMin, Zenon
<1>2. ASSUME NEW y \in S PROVE x <= y
  <2>1. x \in Nat /\ y \in Nat
    OBVIOUS
  <2>2. y < x => <<y, x>> \in OpToRel(<, Nat)
    BY <2>1 DEF OpToRel
  <2>3. ~ (y < x)
    BY <2>2, <1>1, Zenon
  <2> QED
    BY <2>1, <2>3
<1> QED
  BY <1>2

\* What is accepted is stored in normal form.
LEMMA NormalForms ==
  /\ \A x \in Settings \cup {FileDemand} : normalize[x] = x
  /\ \A w \in Written :
       normalize[w] # Refused => normalize[w] \in Settings
  /\ \A w \in Written \cup {FileDemand} :
       normalize[w] # Refused => normalize[w] \in Settings \cup {FileDemand}
  /\ Settings \subseteq Written
  /\ FileDemand \notin Settings /\ NoLink \notin ProfileIds
BY DemandAssumption

\* A profile is not the absence of one.
LEMMA RowsExist ==
  ASSUME NEW row \in ProfileRows
  PROVE  row # NoRow
BY DemandAssumption DEF ProfileRows, ProfileNames

\* A profile that exists has a name and settings in normal form.
LEMMA PresentRow ==
  ASSUME Tables, NEW p \in Present(profile)
  PROVE  /\ p \in ProfileIds
         /\ profile[p] \in ProfileRows
         /\ profile[p].settings \in Settings
         /\ normalize[profile[p].settings] = profile[p].settings
         /\ profile[p].name \in ProfileNames
BY NormalForms DEF Tables, Present, ProfileRows

LEMMA StemName ==
  ASSUME NEW x \in Stems
  PROVE  <<x>> \in ProfileNames
BY DEF ProfileNames

\* The name of a copy, when one is free.
LEMMA CopyNameType ==
  ASSUME NEW name \in ProfileNames, FreeCopies(name) # {}
  PROVE  copy_profile_name(name) \in ProfileNames
<1> DEFINE cut == SubSeq(name, 1, IF Len(name) < NAME_MAX_LENGTH THEN Len(name)
                                                               ELSE NAME_MAX_LENGTH - 1)
<1>1. MaxCopy \in Nat /\ NAME_MAX_LENGTH \in Nat \ {0}
  BY DemandAssumption
<1>2. FreeCopies(name) \subseteq Nat
  BY <1>1 DEF FreeCopies
<1>3. PICK k \in FreeCopies(name) : \A j \in FreeCopies(name) : k <= j
  BY <1>2, LeastOf
<1> DEFINE c == CHOOSE i \in FreeCopies(name) : \A j \in FreeCopies(name) : i <= j
<1>4. c \in Nat
  BY <1>2, <1>3
<1>5. name \in Seq(Stems \cup Nat)
  BY DEF ProfileNames
<1>6. cut \in Seq(Stems \cup Nat)
  BY <1>1, <1>5
<1> HIDE DEF cut, c
<1>7. Append(cut, c) \in Seq(Stems \cup Nat) /\ Append(cut, c) # <<>>
  <2>1. Append(cut, c) \in Seq(Stems \cup Nat) /\ Len(Append(cut, c)) = Len(cut) + 1
    BY <1>4, <1>6
  <2>2. Len(cut) + 1 # 0 /\ Len(<<>>) = 0
    BY <1>6
  <2> QED
    BY <2>1, <2>2, Zenon
<1>8. copy_profile_name(name) = Append(cut, c)
  BY DEF copy_profile_name, CopyName, cut, c
<1> QED
  BY <1>7, <1>8 DEF ProfileNames

\* Demand that is chosen in the wizard is in normal form, and its link leads to
\* a profile.
LEMMA ChosenIsLinked ==
  ASSUME Tables, NEW choice \in DemandChoices, Acceptable(choice)
  PROVE  Chosen(choice) \in Demands /\ Linked(Chosen(choice), Present(profile))
<1>1. CASE choice \in [link : ProfileIds]
  <2>1. "link" \in DOMAIN choice /\ choice.link \in ProfileIds
    BY <1>1
  <2>2. choice.link \in Present(profile)
    BY <2>1 DEF Acceptable, Present, Tables
  <2>3. profile[choice.link].settings \in Settings
        /\ normalize[profile[choice.link].settings] = profile[choice.link].settings
    BY <2>2, PresentRow
  <2> QED
    BY <2>1, <2>2, <2>3, NormalForms DEF Chosen, Demand, Demands, Linked
<1>2. CASE choice \in [written : Written \cup {FileDemand}]
  <2>1. "link" \notin DOMAIN choice /\ choice.written \in Written \cup {FileDemand}
    BY <1>2
  <2>2. normalize[choice.written] \in Settings \cup {FileDemand}
    BY <2>1, NormalForms DEF Acceptable
  <2> QED
    BY <2>1, <2>2 DEF Chosen, Demand, Demands, Linked
<1> QED
  BY <1>1, <1>2 DEF DemandChoices

\* A file's link leads to a profile of the name and the settings that it gives.
LEMMA ImportedIsLinked ==
  ASSUME Tables, NEW doc, normalize[doc.demand] \in Settings \cup {FileDemand}
  PROVE  /\ Imported(doc) \in Demands
         /\ Linked(Imported(doc), Present(profile))
         /\ Imported(doc).link # NoLink =>
              /\ Imported(doc).link \in ImportLink(doc)
              /\ profile[Imported(doc).link].settings = Imported(doc).demand
<1> DEFINE link == ImportLink(doc)
           chosen == IF link = {} THEN NoLink ELSE CHOOSE p \in link : TRUE
           n == normalize[doc.demand]
<1>1. n \in Settings \cup {FileDemand}
  OBVIOUS
<1>2. link \subseteq Present(profile)
  BY DEF ImportLink, SameName
<1>3. chosen # NoLink => chosen \in link
  OBVIOUS
<1>4. chosen \in Present(profile) \cup {NoLink}
  BY <1>2, <1>3
<1>5. chosen \in ProfileIds \cup {NoLink}
  BY <1>4 DEF Present, Tables
<1>6. chosen # NoLink => profile[chosen].settings = n
  <2>1. chosen # NoLink => normalize[profile[chosen].settings] = n
    BY <1>3 DEF ImportLink
  <2> QED
    BY <2>1, <1>4, PresentRow
<1>7. Imported(doc) = Demand(n, chosen)
  BY DEF Imported
<1> HIDE DEF n, chosen, link
<1>8. Imported(doc) \in Demands /\ Linked(Imported(doc), Present(profile))
  BY <1>1, <1>4, <1>5, <1>7 DEF Demand, Demands, Linked
<1>9. Imported(doc).link # NoLink => Imported(doc).link = chosen /\ Imported(doc).demand = n
  BY <1>7 DEF Demand
<1> QED
  BY <1>3, <1>6, <1>8, <1>9 DEF link

\* Every file that may be imported has settings that are accepted.
LEMMA FilesAreAccepted ==
  ASSUME Tables, NEW doc \in Files
  PROVE  normalize[doc.demand] \in Settings \cup {FileDemand}
<1>1. CASE doc \in {ExportDemand(scenario[s]) : s \in Present(scenario)}
  <2>1. PICK s \in Present(scenario) : doc = ExportDemand(scenario[s])
    BY <1>1
  <2>2. scenario[s] \in Demands
    BY DEF Tables, Present
  <2>3. doc.demand = scenario[s].demand /\ scenario[s].demand \in Settings \cup {FileDemand}
    BY <2>1, <2>2 DEF ExportDemand, Demands
  <2> QED
    BY <2>3, NormalForms
<1>2. CASE doc \in [demand : {w \in Written : normalize[w] # Refused},
                    name : {<<>>} \cup {<<x>> : x \in Stems}]
  BY <1>2, NormalForms
<1> QED
  BY <1>1, <1>2 DEF Files

-----------------------------------------------------------------------------
(* What the requests write.                                                *)

\* A profile that is created or updated under a name that nobody else has.
LEMMA ProfileWrite ==
  ASSUME IInv, NEW p \in ProfileIds, NEW name \in ProfileNames, NEW w \in Settings,
         SameName(name) \subseteq {p},
         profile' = [profile EXCEPT ![p] = [name |-> name, settings |-> w]],
         UNCHANGED <<scenario, run, page>>
  PROVE  IInv'
<1> DEFINE row == [name |-> name, settings |-> w]
<1>1. row \in ProfileRows /\ row # NoRow
  <2>1. row \in ProfileRows
    BY DEF ProfileRows
  <2> QED
    BY <2>1, RowsExist
<1>2. /\ profile' \in [ProfileIds -> ProfileRows \cup {NoRow}]
      /\ profile'[p] = row
      /\ \A q \in ProfileIds \ {p} : profile'[q] = profile[q]
  BY <1>1 DEF IInv, Tables
<1>3. Present(profile)' = Present(profile) \cup {p}
  BY <1>1, <1>2 DEF IInv, Tables, Present
<1>4. row.name = name
  OBVIOUS
<1> HIDE DEF row
<1>5. Tables'
  BY <1>2 DEF IInv, Tables
<1>6. NamesDiffer'
  <2> SUFFICES ASSUME NEW q \in Present(profile)', NEW r \in Present(profile)',
                      Lower(profile[q].name)' = Lower(profile[r].name)'
               PROVE  q = r
    BY DEF NamesDiffer
  <2>1. CASE q # p /\ r # p
    <3>1. q \in Present(profile) /\ r \in Present(profile)
      BY <2>1, <1>3
    <3>2. profile'[q] = profile[q] /\ profile'[r] = profile[r]
      BY <2>1, <1>2, <3>1 DEF IInv, Tables, Present
    <3> QED
      BY <3>1, <3>2 DEF IInv, NamesDiffer, Lower
  <2>2. ASSUME NEW t \in Present(profile)', t # p,
               Lower(profile[t].name)' = Lower(profile[p].name)'
        PROVE  FALSE
    <3>1. t \in Present(profile) /\ profile'[t] = profile[t]
      BY <2>2, <1>2, <1>3 DEF IInv, Tables, Present
    <3>2. Lower(profile[t].name) = Lower(name)
      BY <2>2, <3>1, <1>2, <1>4 DEF Lower
    <3> QED
      BY <2>2, <3>1, <3>2 DEF SameName
  <2> QED
    BY <2>1, <2>2
<1>7. LinksLead'
  BY <1>3 DEF IInv, LinksLead, Linked, Present
<1>8. PagesAgree'
  BY DEF IInv, PagesAgree, Opened
<1> QED
  BY <1>5, <1>6, <1>7, <1>8 DEF IInv

\* A scenario that is written with demand that was accepted.
LEMMA ScenarioWrite ==
  ASSUME IInv, NEW s \in ScenarioIds, NEW row \in Demands, Linked(row, Present(profile)),
         scenario' = [scenario EXCEPT ![s] = row],
         page' \in {page, [page EXCEPT ![s] = NoPage]},
         UNCHANGED <<profile, run>>
  PROVE  IInv'
<1>1. /\ scenario' \in [ScenarioIds -> Demands \cup {NoRow}]
      /\ scenario'[s] = row
      /\ \A t \in ScenarioIds \ {s} : scenario'[t] = scenario[t]
  BY DEF IInv, Tables
<1>2. \A t \in Present(scenario)' : t = s \/ (t \in Present(scenario) /\ scenario'[t] = scenario[t])
  BY <1>1 DEF IInv, Tables, Present
<1>3. Tables'
  BY <1>1 DEF IInv, Tables
<1>4. NamesDiffer'
  BY DEF IInv, NamesDiffer, Present, Lower
<1>5. LinksLead'
  <2>1. \A t \in Present(scenario)' : Linked(scenario'[t], Present(profile))
    BY <1>1, <1>2 DEF IInv, LinksLead
  <2>2. Present(profile)' = Present(profile)
    BY DEF Present
  <2>3. Present(run)' = Present(run)
    BY DEF Present
  <2> QED
    BY <2>1, <2>2, <2>3 DEF IInv, LinksLead, Linked
<1>6. PagesAgree'
  BY DEF IInv, PagesAgree, Opened, Tables
<1> QED
  BY <1>3, <1>4, <1>5, <1>6 DEF IInv

\* A run that is started with the demand of a scenario.
LEMMA RunWrite ==
  ASSUME IInv, NEW s \in ScenarioIds, NEW g \in RunIds, RunStart(s, g)
  PROVE  IInv'
<1>1. scenario[s] \in Demands /\ Linked(scenario[s], Present(profile))
  BY DEF RunStart, IInv, Tables, LinksLead, Present
<1>2. /\ run' \in [RunIds -> Demands \cup {NoRow}]
      /\ run'[g] = scenario[s]
      /\ \A h \in RunIds \ {g} : run'[h] = run[h]
  BY <1>1 DEF RunStart, IInv, Tables
<1>3. \A h \in Present(run)' : h = g \/ (h \in Present(run) /\ run'[h] = run[h])
  BY <1>2 DEF IInv, Tables, Present
<1>4. UNCHANGED <<profile, scenario, page>>
  BY DEF RunStart
<1>5. Tables'
  BY <1>2, <1>4 DEF IInv, Tables
<1>6. NamesDiffer'
  BY <1>4 DEF IInv, NamesDiffer, Present, Lower
<1>7. LinksLead'
  <2>1. \A h \in Present(run)' : Linked(run'[h], Present(profile))
    BY <1>1, <1>2, <1>3 DEF IInv, LinksLead
  <2>2. Present(profile)' = Present(profile) /\ Present(scenario)' = Present(scenario)
    BY <1>4 DEF Present
  <2> QED
    BY <2>1, <2>2, <1>4 DEF IInv, LinksLead, Linked
<1>8. PagesAgree'
  BY <1>4 DEF IInv, PagesAgree, Opened
<1> QED
  BY <1>5, <1>6, <1>7, <1>8 DEF IInv

\* A profile that is deleted, with every link to it.
LEMMA DeleteWrite ==
  ASSUME IInv, Delete
  PROVE  IInv'
<1>1. /\ profile' = [profile EXCEPT ![deleting] = NoRow]
      /\ scenario' = [s \in ScenarioIds |-> Unlinked(scenario[s], deleting)]
      /\ run' = [g \in RunIds |-> Unlinked(run[g], deleting)]
      /\ page' = page /\ deleting # NoRow
  BY DEF Delete
<1>2. /\ profile' \in [ProfileIds -> ProfileRows \cup {NoRow}]
      /\ Present(profile)' = Present(profile) \ {deleting}
      /\ \A p \in Present(profile)' : profile'[p] = profile[p]
  BY <1>1 DEF IInv, Tables, Present
<1>3. ASSUME NEW row \in Demands, Linked(row, Present(profile)), row # NoRow
      PROVE  /\ Unlinked(row, deleting) \in Demands
             /\ Linked(Unlinked(row, deleting), Present(profile)')
  <2> DEFINE kept == IF row.link = deleting THEN NoLink ELSE row.link
  <2>1. Unlinked(row, deleting) = [demand |-> row.demand, link |-> kept]
    BY <1>3 DEF Unlinked, Demands
  <2>2. kept \in Present(profile)' \cup {NoLink}
    BY <1>2, <1>3 DEF Linked
  <2>3. row.demand \in Settings \cup {FileDemand} /\ kept \in ProfileIds \cup {NoLink}
    BY DEF Demands
  <2>4. row.demand = FileDemand => kept = NoLink
    BY <1>3 DEF Linked
  <2> HIDE DEF kept
  <2> QED
    BY <2>1, <2>2, <2>3, <2>4 DEF Demands, Linked
<1>4. ASSUME NEW s \in ScenarioIds
      PROVE  /\ scenario'[s] \in Demands \cup {NoRow}
             /\ scenario'[s] # NoRow => Linked(scenario'[s], Present(profile)')
  <2>1. CASE scenario[s] = NoRow
    BY <2>1, <1>1 DEF Unlinked
  <2>2. CASE scenario[s] # NoRow
    <3>1. scenario[s] \in Demands /\ Linked(scenario[s], Present(profile))
      BY <2>2 DEF IInv, Tables, LinksLead, Present
    <3> QED
      BY <3>1, <2>2, <1>1, <1>3
  <2> QED
    BY <2>1, <2>2
<1>5. ASSUME NEW g \in RunIds
      PROVE  /\ run'[g] \in Demands \cup {NoRow}
             /\ run'[g] # NoRow => Linked(run'[g], Present(profile)')
  <2>1. CASE run[g] = NoRow
    BY <2>1, <1>1 DEF Unlinked
  <2>2. CASE run[g] # NoRow
    <3>1. run[g] \in Demands /\ Linked(run[g], Present(profile))
      BY <2>2 DEF IInv, Tables, LinksLead, Present
    <3> QED
      BY <3>1, <2>2, <1>1, <1>3
  <2> QED
    BY <2>1, <2>2
<1>6. Tables'
  BY <1>1, <1>2, <1>4, <1>5 DEF IInv, Tables
<1>7. NamesDiffer'
  <2>1. \A p \in Present(profile)' : p \in Present(profile) /\ profile'[p] = profile[p]
    BY <1>2
  <2> QED
    BY <2>1 DEF IInv, NamesDiffer, Lower
<1>8. LinksLead'
  <2>1. /\ \A s \in Present(scenario)' : s \in ScenarioIds /\ scenario'[s] # NoRow
        /\ \A g \in Present(run)' : g \in RunIds /\ run'[g] # NoRow
    BY <1>6 DEF Tables, Present
  <2>2. /\ \A s \in Present(scenario)' : Linked(scenario'[s], Present(profile)')
        /\ \A g \in Present(run)' : Linked(run'[g], Present(profile)')
    BY <2>1, <1>4, <1>5
  <2> QED
    BY <2>2 DEF LinksLead
<1>9. PagesAgree'
  BY <1>1 DEF IInv, PagesAgree, Opened
<1> QED
  BY <1>6, <1>7, <1>8, <1>9 DEF IInv

\* A page that is opened shows the link only if the copy equals the profile.
LEMMA OpenWrite ==
  ASSUME IInv, NEW s \in ScenarioIds, WizardOpen(s)
  PROVE  IInv'
<1> DEFINE row == scenario[s]
           shown == Shown(scenario[s])
           view == [was |-> row, shown |-> shown,
                    detail |-> IF shown = NoLink THEN NoLink ELSE profile[shown].settings]
<1>1. /\ row # NoRow /\ page' = [page EXCEPT ![s] = view]
      /\ UNCHANGED <<profile, scenario, run>>
  BY DEF WizardOpen
<1>2. row \in Demands /\ Linked(row, Present(profile))
  BY <1>1 DEF IInv, Tables, LinksLead, Present
<1>3. shown # NoLink =>
        /\ row.demand # FileDemand /\ shown = row.link
        /\ normalize[profile[row.link].settings] = normalize[row.demand]
  BY DEF Shown
<1>4. shown # NoLink => shown \in Present(profile) /\ row.demand \in Settings
  BY <1>2, <1>3 DEF Linked, Demands
<1>5. shown # NoLink => profile[shown].settings = row.demand
  BY <1>3, <1>4, PresentRow, NormalForms DEF IInv
<1>6. shown \in ProfileIds \cup {NoLink}
  BY <1>4 DEF IInv, Tables, Present
<1>7. view.was = row /\ view.shown = shown
      /\ view.detail = IF shown = NoLink THEN NoLink ELSE profile[shown].settings
  OBVIOUS
<1> HIDE DEF view, shown, row
<1>8. Opened(view)
  BY <1>2, <1>3, <1>5, <1>6, <1>7 DEF Opened
<1>9. PagesAgree'
  <2> SUFFICES ASSUME NEW t \in ScenarioIds, page'[t] # NoPage
               PROVE  Opened(page'[t])
    BY DEF PagesAgree, Opened
  <2>1. CASE t = s
    BY <2>1, <1>1, <1>8 DEF IInv, Tables
  <2>2. CASE t # s
    BY <2>2, <1>1 DEF IInv, Tables, PagesAgree
  <2> QED
    BY <2>1, <2>2
<1>10. Tables' /\ NamesDiffer'
  BY <1>1 DEF IInv, Tables, NamesDiffer, Present, Lower
<1>11. LinksLead'
  BY <1>1 DEF IInv, LinksLead, Linked, Present
<1> QED
  BY <1>9, <1>10, <1>11 DEF IInv

-----------------------------------------------------------------------------
(* The invariant.                                                          *)

LEMMA InvInit == Init => IInv
BY DEF Init, IInv, Tables, NamesDiffer, LinksLead, PagesAgree, Present

\* A new profile takes an unused id.
LEMMA CreateWrite ==
  ASSUME IInv, NEW name \in ProfileNames, NEW w, Create(name, w), w \in Written
  PROVE  IInv'
<1> DEFINE p == CHOOSE q \in FreeIds : TRUE
<1>1. p \in ProfileIds
  BY DEF Create, FreeIds
<1>2. SameName(name) \subseteq {p}
  BY DEF Create, NameFree
<1>3. normalize[w] \in Settings
  BY NormalForms DEF Create
<1>4. /\ profile' = [profile EXCEPT ![p] = [name |-> name, settings |-> normalize[w]]]
      /\ UNCHANGED <<scenario, run, page>>
  BY DEF Create
<1> HIDE DEF p
<1> QED
  BY <1>1, <1>2, <1>3, <1>4, ProfileWrite

\* What the untouched page sends is something the wizard may send.
LEMMA UntouchedIsAChoice ==
  ASSUME IInv, NEW s \in ScenarioIds, page[s] # NoPage
  PROVE  Untouched(s) \in DemandChoices
<1>1. Opened(page[s])
  BY DEF IInv, PagesAgree
<1>2. CASE page[s].shown # NoLink
  <2>1. page[s].shown \in ProfileIds
    BY <1>1, <1>2 DEF Opened
  <2>2. Untouched(s) = [link |-> page[s].shown]
    BY <1>2 DEF Untouched
  <2> QED
    BY <2>1, <2>2 DEF DemandChoices
<1>3. CASE page[s].shown = NoLink
  <2>1. page[s].was.demand \in Written \cup {FileDemand}
    BY <1>1, NormalForms DEF Opened, Demands
  <2>2. Untouched(s) = [written |-> page[s].was.demand]
    BY <1>3 DEF Untouched
  <2> QED
    BY <2>1, <2>2 DEF DemandChoices
<1> QED
  BY <1>2, <1>3

LEMMA WizardSaveWrite ==
  ASSUME IInv, NEW s \in ScenarioIds, NEW c \in DemandChoices, WizardSave(s, c)
  PROVE  IInv'
<1>1. Chosen(c) \in Demands /\ Linked(Chosen(c), Present(profile))
  BY ChosenIsLinked DEF WizardSave, IInv
<1> QED
  BY <1>1, ScenarioWrite DEF WizardSave

LEMMA InvNext == IInv /\ [Next]_vars => IInv'
<1> SUFFICES ASSUME IInv, [Next]_vars PROVE IInv'
  OBVIOUS
<1>1. ASSUME NEW x \in Stems, NEW w \in Written, Create(<<x>>, w)
      PROVE  IInv'
  BY <1>1, StemName, CreateWrite
<1>2. ASSUME NEW p \in ProfileIds, NEW x \in Stems, NEW w \in Written, Update(p, <<x>>, w)
      PROVE  IInv'
  <2>1. /\ SameName(<<x>>) \subseteq {p} /\ normalize[w] \in Settings
        /\ profile' = [profile EXCEPT ![p] = [name |-> <<x>>, settings |-> normalize[w]]]
        /\ UNCHANGED <<scenario, run, page>>
    BY <1>2, NormalForms DEF Update, NameFree
  <2> QED
    BY <2>1, StemName, ProfileWrite
<1>3. ASSUME NEW x \in Stems, NEW w \in Written, ImportProfile(<<x>>, w)
      PROVE  IInv'
  <2>1. CASE SameName(<<x>>) = {}
    BY <1>3, <2>1, <1>1 DEF ImportProfile
  <2>2. CASE SameName(<<x>>) # {}
    <3>1. UNCHANGED <<profile, scenario, run, page>>
      BY <1>3, <2>2 DEF ImportProfile
    <3> QED
      BY <3>1 DEF IInv, Tables, NamesDiffer, LinksLead, Linked, PagesAgree, Opened,
                  Present, Lower
  <2> QED
    BY <2>1, <2>2
<1>4. ASSUME NEW p \in ProfileIds, Duplicate(p)
      PROVE  IInv'
  <2>1. p \in Present(profile) /\ FreeCopies(profile[p].name) # {}
        /\ Create(copy_profile_name(profile[p].name), profile[p].settings)
    BY <1>4 DEF Duplicate, Present, IInv, Tables
  <2>2. /\ copy_profile_name(profile[p].name) \in ProfileNames
        /\ profile[p].settings \in Written
    BY <2>1, PresentRow, CopyNameType, NormalForms DEF IInv
  <2> QED
    BY <2>1, <2>2, CreateWrite
<1>5. ASSUME NEW p \in ProfileIds, DeleteCheck(p)
      PROVE  IInv'
  <2>1. UNCHANGED <<profile, scenario, run, page>>
    BY <1>5 DEF DeleteCheck
  <2> QED
    BY <2>1 DEF IInv, Tables, NamesDiffer, LinksLead, Linked, PagesAgree, Opened,
                Present, Lower
<1>6. CASE Delete
  BY <1>6, DeleteWrite
<1>7. ASSUME NEW s \in ScenarioIds, NEW c \in DemandChoices, ScenarioCreate(s, c)
      PROVE  IInv'
  <2>1. Chosen(c) \in Demands /\ Linked(Chosen(c), Present(profile))
    BY <1>7, ChosenIsLinked DEF ScenarioCreate, IInv
  <2> QED
    BY <1>7, <2>1, ScenarioWrite DEF ScenarioCreate
<1>8. ASSUME NEW s \in ScenarioIds, NEW keep_link \in BOOLEAN, ScenarioKeep(s, keep_link)
      PROVE  IInv'
  <2> DEFINE row == Demand(scenario[s].demand,
                           IF keep_link THEN scenario[s].link ELSE NoLink)
  <2>1. scenario[s] \in Demands /\ Linked(scenario[s], Present(profile))
    BY <1>8 DEF ScenarioKeep, IInv, Tables, LinksLead, Present
  <2>2. row \in Demands /\ Linked(row, Present(profile))
    BY <2>1 DEF Demand, Demands, Linked
  <2>3. scenario' = [scenario EXCEPT ![s] = row] /\ UNCHANGED <<profile, run, page>>
    BY <1>8 DEF ScenarioKeep, IInv, Tables
  <2> HIDE DEF row
  <2> QED
    BY <2>2, <2>3, ScenarioWrite
<1>9. ASSUME NEW s \in ScenarioIds, WizardOpen(s)
      PROVE  IInv'
  BY <1>9, OpenWrite
<1>10. ASSUME NEW s \in ScenarioIds, page[s] # NoPage, WizardSave(s, Untouched(s))
       PROVE  IInv'
  BY <1>10, UntouchedIsAChoice, WizardSaveWrite
<1>11. ASSUME NEW s \in ScenarioIds, NEW c \in DemandChoices, WizardSave(s, c)
       PROVE  IInv'
  BY <1>11, WizardSaveWrite
<1>12. ASSUME NEW s \in ScenarioIds, ScenarioDelete(s)
       PROVE  IInv'
  <2>1. /\ scenario' = [scenario EXCEPT ![s] = NoRow]
        /\ page' = [page EXCEPT ![s] = NoPage] /\ UNCHANGED <<profile, run>>
    BY <1>12 DEF ScenarioDelete
  <2>2. /\ \A t \in Present(scenario)' : t \in Present(scenario)
                                         /\ scenario'[t] = scenario[t]
        /\ Present(profile)' = Present(profile) /\ Present(run)' = Present(run)
    BY <2>1 DEF IInv, Tables, Present
  <2>3. Tables' /\ NamesDiffer'
    BY <2>1 DEF IInv, Tables, NamesDiffer, Present, Lower
  <2>4. LinksLead'
    BY <2>1, <2>2 DEF IInv, LinksLead, Linked
  <2>5. PagesAgree'
    BY <2>1 DEF IInv, PagesAgree, Opened, Tables
  <2> QED
    BY <2>3, <2>4, <2>5 DEF IInv
<1>13. ASSUME NEW s \in ScenarioIds, NEW t \in ScenarioIds, ScenarioDuplicate(s, t)
       PROVE  IInv'
  <2>1. scenario[s] \in Demands /\ Linked(scenario[s], Present(profile))
    BY <1>13 DEF ScenarioDuplicate, IInv, Tables, LinksLead, Present
  <2> QED
    BY <1>13, <2>1, ScenarioWrite DEF ScenarioDuplicate
<1>14. ASSUME NEW s \in ScenarioIds, NEW g \in RunIds, RunStart(s, g)
       PROVE  IInv'
  BY <1>14, RunWrite
<1>15. ASSUME NEW s \in ScenarioIds, NEW doc \in Files, ScenarioImport(s, doc)
       PROVE  IInv'
  <2>1. Imported(doc) \in Demands /\ Linked(Imported(doc), Present(profile))
    BY FilesAreAccepted, ImportedIsLinked DEF IInv
  <2> QED
    BY <1>15, <2>1, ScenarioWrite DEF ScenarioImport
<1>16. CASE UNCHANGED vars
  BY <1>16 DEF vars, IInv, Tables, NamesDiffer, LinksLead, Linked, PagesAgree, Opened,
               Present, Lower
<1> QED
  BY <1>1, <1>2, <1>3, <1>4, <1>5, <1>6, <1>7, <1>8, <1>9, <1>10, <1>11, <1>12, <1>13,
     <1>14, <1>15, <1>16 DEF Next

LEMMA Invariant == Spec => []IInv
BY InvInit, InvNext, PTL DEF Spec

-----------------------------------------------------------------------------
(* What it means for a scenario.                                           *)

\* An exported scenario is imported as the wizard would show it.
LEMMA RoundTrip ==
  ASSUME IInv, NEW s \in Present(scenario)
  PROVE  Imported(ExportDemand(scenario[s])) = Demand(scenario[s].demand, Shown(scenario[s]))
<1> DEFINE row == scenario[s]
           doc == ExportDemand(row)
<1>1. row \in Demands /\ Linked(row, Present(profile))
  BY DEF IInv, Tables, LinksLead, Present
<1>2. /\ doc.demand = row.demand /\ normalize[row.demand] = row.demand
      /\ doc.name = IF row.demand = FileDemand \/ row.link = NoLink THEN <<>>
                    ELSE profile[row.link].name
  BY <1>1, NormalForms DEF ExportDemand, Demands
<1>3. CASE row.demand = FileDemand \/ row.link = NoLink
  <2>1. doc.name = <<>> /\ Shown(row) = NoLink
    BY <1>2, <1>3 DEF Shown
  <2>2. ImportLink(doc) = {}
    BY <2>1 DEF ImportLink
  <2> QED
    BY <1>2, <2>1, <2>2 DEF Imported
<1>4. CASE row.demand # FileDemand /\ row.link # NoLink
  <2> DEFINE p == row.link
  <2>1. p \in Present(profile)
    BY <1>1, <1>4 DEF Linked
  <2>2. doc.name = profile[p].name /\ doc.name # <<>>
    BY <1>2, <1>4, <2>1, PresentRow DEF IInv, ProfileNames
  <2>3. SameName(doc.name) = {p}
    BY <2>1, <2>2 DEF IInv, NamesDiffer, SameName
  <2>4. ImportLink(doc) = {q \in {p} : normalize[profile[q].settings] = normalize[row.demand]}
    BY <1>2, <1>4, <2>2, <2>3 DEF ImportLink
  <2>5. CASE normalize[profile[p].settings] = normalize[row.demand]
    <3>1. ImportLink(doc) = {p} /\ Shown(row) = p
      BY <1>4, <2>4, <2>5 DEF Shown
    <3> QED
      BY <1>2, <3>1 DEF Imported
  <2>6. CASE normalize[profile[p].settings] # normalize[row.demand]
    <3>1. ImportLink(doc) = {} /\ Shown(row) = NoLink
      BY <1>4, <2>4, <2>6 DEF Shown
    <3> QED
      BY <1>2, <3>1 DEF Imported
  <2> QED
    BY <2>5, <2>6
<1> QED
  BY <1>3, <1>4

LEMMA RoundTripHolds == IInv => DemandRoundTrip
<1> SUFFICES ASSUME IInv PROVE DemandRoundTrip
  OBVIOUS
<1>1. ASSUME NEW doc \in Files, Imported(doc).link # NoLink
      PROVE  /\ profile[Imported(doc).link].settings = Imported(doc).demand
             /\ Lower(profile[Imported(doc).link].name) = Lower(doc.name)
  <2>1. /\ Imported(doc).link \in ImportLink(doc)
        /\ profile[Imported(doc).link].settings = Imported(doc).demand
    BY <1>1, FilesAreAccepted, ImportedIsLinked DEF IInv
  <2>2. ImportLink(doc) \subseteq SameName(doc.name)
    BY DEF ImportLink
  <2> QED
    BY <2>1, <2>2 DEF SameName
<1>2. \A row \in {scenario[s] : s \in Present(scenario)}
                 \cup {run[g] : g \in Present(run)} :
         row.link \in Present(profile) \cup {NoLink}
  BY DEF IInv, LinksLead, Linked
<1> QED
  BY <1>1, <1>2, RoundTrip DEF DemandRoundTrip

\* A scenario that is exported and imported again has the same demand, linked if
\* and only if the wizard would show the link, and every link leads to a profile
\* that exists, whatever is edited, deleted and imported in between
\* (scenario_document, _demand_source_id, delete_profile).
THEOREM DemandSurvives == Spec => []DemandRoundTrip
BY Invariant, RoundTripHolds, PTL

\* The demand of a run never changes.
LEMMA RunKeepsDemand ==
  ASSUME IInv, [Next]_vars, NEW g \in Present(run)
  PROVE  run'[g].demand = run[g].demand
<1>1. g \in RunIds /\ run[g] \in Demands /\ run[g] # NoRow
  BY DEF IInv, Tables, Present
<1>2. CASE Delete
  <2>1. run'[g] = Unlinked(run[g], deleting)
    BY <1>1, <1>2 DEF Delete
  <2> QED
    BY <1>1, <2>1 DEF Unlinked, Demands
<1>3. ASSUME NEW s \in ScenarioIds, NEW h \in RunIds, RunStart(s, h)
      PROVE  run'[g].demand = run[g].demand
  BY <1>1, <1>3 DEF RunStart, IInv, Tables
<1>4. CASE run' = run
  BY <1>4
<1>5. Delete \/ (\E s \in ScenarioIds, h \in RunIds : RunStart(s, h)) \/ run' = run
  BY DEF Next, vars, Create, Update, ImportProfile, Duplicate, DeleteCheck, ScenarioCreate,
         ScenarioKeep, WizardOpen, WizardSave, ScenarioDelete, ScenarioDuplicate,
         ScenarioImport
<1> QED
  BY <1>2, <1>3, <1>4, <1>5

\* That of a scenario changes only when its own wizard page is saved.
LEMMA ScenarioKeepsDemand ==
  ASSUME IInv, [Next]_vars, NEW s \in Present(scenario), scenario'[s] # NoRow,
         scenario'[s].demand # scenario[s].demand
  PROVE  page[s] # NoPage /\ page'[s] = NoPage
<1>1. s \in ScenarioIds /\ scenario[s] \in Demands /\ scenario[s] # NoRow
  BY DEF IInv, Tables, Present
<1>2. CASE Delete
  <2>1. scenario'[s] = Unlinked(scenario[s], deleting)
    BY <1>1, <1>2 DEF Delete
  <2> QED
    BY <1>1, <2>1 DEF Unlinked, Demands
<1>3. ASSUME NEW t \in ScenarioIds, NEW row, scenario[t] = NoRow,
             scenario' = [scenario EXCEPT ![t] = row]
      PROVE  FALSE
  <2>1. t # s
    BY <1>1, <1>3
  <2> QED
    BY <1>1, <1>3, <2>1 DEF IInv, Tables
<1>4. ASSUME NEW t \in ScenarioIds, NEW keep_link \in BOOLEAN, ScenarioKeep(t, keep_link)
      PROVE  FALSE
  BY <1>1, <1>4 DEF ScenarioKeep, Demand, IInv, Tables
<1>5. ASSUME NEW t \in ScenarioIds, NEW c, WizardSave(t, c)
      PROVE  page[s] # NoPage /\ page'[s] = NoPage
  <2>1. CASE t = s
    BY <2>1, <1>1, <1>5 DEF WizardSave, IInv, Tables
  <2>2. CASE t # s
    BY <2>2, <1>1, <1>5 DEF WizardSave, IInv, Tables
  <2> QED
    BY <2>1, <2>2
<1>6. ASSUME NEW t \in ScenarioIds, ScenarioDelete(t)
      PROVE  FALSE
  BY <1>1, <1>6 DEF ScenarioDelete, IInv, Tables
<1>7. scenario' # scenario
  OBVIOUS
<1>8. \/ Delete
      \/ \E t \in ScenarioIds, c \in DemandChoices : ScenarioCreate(t, c)
      \/ \E t \in ScenarioIds, keep_link \in BOOLEAN : ScenarioKeep(t, keep_link)
      \/ \E t \in ScenarioIds : WizardSave(t, Untouched(t))
      \/ \E t \in ScenarioIds, c \in DemandChoices : WizardSave(t, c)
      \/ \E t \in ScenarioIds : ScenarioDelete(t)
      \/ \E r, t \in ScenarioIds : ScenarioDuplicate(r, t)
      \/ \E t \in ScenarioIds : \E doc \in Files : ScenarioImport(t, doc)
  BY <1>7 DEF Next, vars, Create, Update, ImportProfile, Duplicate, DeleteCheck,
              WizardOpen, RunStart
<1>9. ASSUME NEW t \in ScenarioIds, NEW c \in DemandChoices, ScenarioCreate(t, c)
      PROVE  FALSE
  BY <1>3, <1>9 DEF ScenarioCreate
<1>10. ASSUME NEW r \in ScenarioIds, NEW t \in ScenarioIds, ScenarioDuplicate(r, t)
       PROVE  FALSE
  BY <1>3, <1>10 DEF ScenarioDuplicate
<1>11. ASSUME NEW t \in ScenarioIds, NEW doc \in Files, ScenarioImport(t, doc)
       PROVE  FALSE
  BY <1>3, <1>11 DEF ScenarioImport
<1> QED
  BY <1>2, <1>4, <1>5, <1>6, <1>8, <1>9, <1>10, <1>11

\* A page that was opened on what is stored and is left untouched saves it as
\* it is, unless the profile that it shows was edited.
LEMMA UntouchedKeepsDemand ==
  ASSUME IInv, NEW s \in Present(scenario), page[s] # NoPage, page[s].was = scenario[s],
         page[s].shown \in {NoLink} \cup {p \in Present(profile) :
                                            profile[p].settings = page[s].detail},
         WizardSave(s, Untouched(s))
  PROVE  scenario'[s] = Demand(scenario[s].demand, page[s].shown)
<1> DEFINE shown == page[s].shown
<1>1. s \in ScenarioIds /\ scenario[s] \in Demands
  BY DEF IInv, Tables, Present
<1>2. Opened(page[s])
  BY <1>1 DEF IInv, PagesAgree
<1>3. scenario'[s] = Chosen(Untouched(s))
  BY <1>1 DEF WizardSave, IInv, Tables
<1>4. CASE shown = NoLink
  <2>1. Untouched(s) = [written |-> scenario[s].demand]
    BY <1>4 DEF Untouched
  <2>2. Chosen(Untouched(s)) = Demand(normalize[scenario[s].demand], NoLink)
    BY <2>1 DEF Chosen
  <2>3. normalize[scenario[s].demand] = scenario[s].demand
    BY <1>1, NormalForms DEF Demands
  <2> QED
    BY <1>3, <1>4, <2>2, <2>3
<1>5. CASE shown # NoLink
  <2>1. shown \in Present(profile) /\ profile[shown].settings = page[s].detail
    BY <1>5
  <2>2. page[s].detail = scenario[s].demand
    BY <1>2, <1>5 DEF Opened
  <2>3. Untouched(s) = [link |-> shown]
    BY <1>5 DEF Untouched
  <2>4. Chosen(Untouched(s)) = Demand(normalize[profile[shown].settings], shown)
    BY <2>3 DEF Chosen
  <2>5. normalize[profile[shown].settings] = scenario[s].demand
    BY <2>1, <2>2, PresentRow DEF IInv
  <2> QED
    BY <1>3, <2>4, <2>5
<1> QED
  BY <1>4, <1>5

LEMMA StepKeepsDemand ==
  IInv /\ [Next]_vars =>
    [ /\ \A g \in Present(run) : run'[g].demand = run[g].demand
      /\ \A s \in Present(scenario) :
            scenario'[s] # NoRow /\ scenario'[s].demand # scenario[s].demand
            => page[s] # NoPage /\ page'[s] = NoPage
      /\ \A s \in Present(scenario) :
            page[s] # NoPage /\ page[s].was = scenario[s] =>
            LET shown == page[s].shown
                same  == shown \in {NoLink} \cup {p \in Present(profile) :
                                          profile[p].settings = page[s].detail}
            IN  same /\ WizardSave(s, Untouched(s)) =>
                   scenario'[s] = Demand(scenario[s].demand, shown) ]_vars
BY RunKeepsDemand, ScenarioKeepsDemand, UntouchedKeepsDemand

\* The demand of a run never changes, and that of a scenario only when its own
\* wizard page is saved, which writes what is stored when the page was left
\* untouched and its profile was not edited (_parse_demand, duplicate_scenario,
\* clone_scenario_for_run).
THEOREM OnlyOwnWizard == Spec => DemandKept
BY Invariant, StepKeepsDemand, PTL DEF Spec, DemandKept

-----------------------------------------------------------------------------
(* Sums over finite sets.                                                  *)

\* Among finite sets there is one such that nothing can be taken from it.
LEMMA SmallestSet ==
  ASSUME NEW B, B # {}, \A s \in B : IsFiniteSet(s)
  PROVE  \E s \in B : \A x \in s : s \ {x} \notin B
<1> DEFINE sizes == {Cardinality(s) : s \in B}
<1>1. sizes \subseteq Nat /\ sizes # {}
  BY FS_CardinalityType
<1>2. PICK n \in sizes : \A m \in sizes : n <= m
  BY <1>1, LeastOf
<1>3. PICK s \in B : n = Cardinality(s)
  BY <1>2
<1>4. ASSUME NEW x \in s, s \ {x} \in B PROVE FALSE
  <2>1. Cardinality(s \ {x}) = Cardinality(s) - 1 /\ Cardinality(s) \in Nat
    BY FS_RemoveElement, FS_CardinalityType
  <2>2. n <= Cardinality(s \ {x})
    BY <1>2, <1>4
  <2> QED
    BY <1>3, <2>1, <2>2
<1> QED
  BY <1>4

Choice(s) == CHOOSE x \in s : TRUE

LEMMA ChoiceIs == \A s : s # {} => Choice(s) \in s
  BY DEF Choice

(* d is the sum of f on each part of S, in the order of the choices.       *)
Adds(d, f, S) ==
    \A s \in SUBSET S : d[s] = IF s = {} THEN 0 ELSE f[Choice(s)] + d[s \ {Choice(s)}]

LEMMA SumAdds ==
  ASSUME NEW f, NEW S, IsFiniteSet(S)
  PROVE  \E d : Adds(d, f, S) /\ SumFunctionOnSet(f, S) = d[S]
<1> DEFINE Step(g, s) == IF s = {} THEN 0 ELSE f[Choice(s)] + g[s \ {Choice(s)}]
           Upto(n) == {s \in SUBSET S : Cardinality(s) <= n}
           Works(g, n) == \A s \in Upto(n) : g[s] = Step(g, s)
           N == Cardinality(S)
<1>1. N \in Nat /\ \A s \in SUBSET S : IsFiniteSet(s) /\ Cardinality(s) \in Nat
                                       /\ Cardinality(s) <= N
  BY FS_Subset, FS_CardinalityType
<1>2. ASSUME NEW n \in Nat \ {0}, NEW g, Works(g, n - 1)
      PROVE  Works([s \in SUBSET S |-> Step(g, s)], n)
  <2> DEFINE h == [s \in SUBSET S |-> Step(g, s)]
  <2>1. ASSUME NEW s \in Upto(n) PROVE h[s] = Step(h, s)
    <3>1. CASE s = {}
      BY <3>1
    <3>2. CASE s # {}
      <4> DEFINE r == s \ {Choice(s)}
      <4>1. r \in SUBSET S /\ Cardinality(r) <= n - 1
        <5>1. Choice(s) \in s /\ IsFiniteSet(s) /\ Cardinality(s) \in Nat
          BY <1>1, <3>2, ChoiceIs
        <5>2. Cardinality(r) = Cardinality(s) - 1
          BY <5>1, FS_RemoveElement
        <5> HIDE DEF r
        <5> QED
          BY <5>1, <5>2 DEF r
      <4>2. h[r] = Step(g, r) /\ g[r] = Step(g, r)
        BY <1>2, <4>1
      <4>3. h[s] = Step(g, s)
        OBVIOUS
      <4> HIDE DEF h
      <4> QED
        BY <3>2, <4>2, <4>3
    <3> QED
      BY <3>1, <3>2
  <2> QED
    BY <2>1
<1>3. Works([s \in {{}} |-> 0], 0)
  <2>1. \A s \in Upto(0) : s = {}
    BY <1>1, FS_EmptySet
  <2> QED
    BY <2>1
<1> HIDE DEF Works
<1>4. \A n \in Nat : \E g : Works(g, n)
  <2> DEFINE bad == {n \in Nat : ~ \E g : Works(g, n)}
  <2> SUFFICES ASSUME bad # {} PROVE FALSE
    OBVIOUS
  <2>1. PICK n \in bad : \A x \in bad : n <= x
    BY LeastOf
  <2>2. n \in Nat \ {0} /\ n - 1 \in Nat /\ ~ (n <= n - 1)
    BY <1>3, <2>1
  <2>3. PICK g : Works(g, n - 1)
    BY <2>1, <2>2
  <2> QED
    BY <1>2, <2>1, <2>2, <2>3
<1>5. PICK g : Works(g, N)
  BY <1>1, <1>4
<1> DEFINE c == [s \in SUBSET S |-> g[s]]
           d == CHOOSE h : h = [s \in SUBSET S |-> Step(h, s)]
<1>6. d = [s \in SUBSET S |-> Step(d, s)]
  <2>1. ASSUME NEW s \in SUBSET S PROVE g[s] = Step(c, s)
    <3>1. g[s] = Step(g, s)
      BY <1>1, <1>5 DEF Works
    <3>2. CASE s # {}
      <4>1. c[s \ {Choice(s)}] = g[s \ {Choice(s)}]
        OBVIOUS
      <4> HIDE DEF c
      <4> QED
        BY <3>1, <4>1
    <3> QED
      BY <3>1, <3>2
  <2>2. c = [s \in SUBSET S |-> Step(c, s)]
    BY <2>1
  <2> HIDE DEF c, Step
  <2> QED
    BY <2>2
<1>7. SumFunctionOnSet(f, S) = d[S]
  BY DEF SumFunctionOnSet, FoldFunctionOnSet, MapThenFoldSet, Choice
<1> HIDE DEF d
<1>8. Adds(d, f, S)
  BY <1>6 DEF Adds
<1> QED
  BY <1>7, <1>8

LEMMA OneSum ==
  ASSUME NEW f, NEW S, IsFiniteSet(S), NEW T \in SUBSET S, NEW d, Adds(d, f, S),
         NEW e, Adds(e, f, T)
  PROVE  e[T] = d[T]
<1> DEFINE B == {s \in SUBSET T : e[s] # d[s]}
<1> SUFFICES ASSUME B # {} PROVE FALSE
  OBVIOUS
<1>1. \A s \in B : IsFiniteSet(s)
  BY FS_Subset
<1>2. PICK s \in B : \A x \in s : s \ {x} \notin B
  BY <1>1, SmallestSet
<1>3. /\ e[s] = IF s = {} THEN 0 ELSE f[Choice(s)] + e[s \ {Choice(s)}]
      /\ d[s] = IF s = {} THEN 0 ELSE f[Choice(s)] + d[s \ {Choice(s)}]
  BY DEF Adds
<1>4. s # {} => e[s \ {Choice(s)}] = d[s \ {Choice(s)}]
  BY <1>2, ChoiceIs
<1> QED
  BY <1>3, <1>4

LEMMA SumUnfolds ==
  ASSUME NEW f, NEW S, IsFiniteSet(S)
  PROVE  SumFunctionOnSet(f, S) = IF S = {} THEN 0
             ELSE f[Choice(S)] + SumFunctionOnSet(f, S \ {Choice(S)})
<1> DEFINE T == S \ {Choice(S)}
<1>1. T \in SUBSET S /\ IsFiniteSet(T)
  BY FS_Subset
<1>2. PICK d : Adds(d, f, S) /\ SumFunctionOnSet(f, S) = d[S]
  BY SumAdds
<1>3. PICK e : Adds(e, f, T) /\ SumFunctionOnSet(f, T) = e[T]
  BY <1>1, SumAdds
<1>4. e[T] = d[T]
  BY <1>1, <1>2, <1>3, OneSum
<1>5. d[S] = IF S = {} THEN 0 ELSE f[Choice(S)] + d[T]
  BY <1>2 DEF Adds
<1> QED
  BY <1>2, <1>3, <1>4, <1>5

LEMMA SumOfNone == \A f : SumFunctionOnSet(f, {}) = 0
  BY SumUnfolds, FS_EmptySet

LEMMA SumIsNat ==
  ASSUME NEW S, IsFiniteSet(S), NEW f, \A x \in S : f[x] \in Nat
  PROVE  SumFunctionOnSet(f, S) \in Nat
<1> DEFINE B == {s \in SUBSET S : SumFunctionOnSet(f, s) \notin Nat}
<1> SUFFICES ASSUME B # {} PROVE FALSE
  BY DEF B
<1>1. \A s \in B : IsFiniteSet(s)
  BY FS_Subset
<1>2. PICK s \in B : \A x \in s : s \ {x} \notin B
  BY <1>1, SmallestSet
<1>3. CASE s = {}
  BY <1>3, SumOfNone
<1>4. CASE s # {}
  <2>1. SumFunctionOnSet(f, s) = f[Choice(s)] + SumFunctionOnSet(f, s \ {Choice(s)})
    BY <1>1, <1>4, SumUnfolds
  <2>2. Choice(s) \in s /\ f[Choice(s)] \in Nat
    BY <1>4, ChoiceIs
  <2>3. SumFunctionOnSet(f, s \ {Choice(s)}) \in Nat
    BY <1>2, <2>2
  <2> QED
    BY <2>1, <2>2, <2>3
<1> QED
  BY <1>3, <1>4

\* It does not matter which element is added last.
LEMMA SumPick ==
  ASSUME NEW S, IsFiniteSet(S), NEW f, \A x \in S : f[x] \in Nat, NEW x \in S
  PROVE  SumFunctionOnSet(f, S) = f[x] + SumFunctionOnSet(f, S \ {x})
<1> DEFINE Ok(s) == \A y \in s : SumFunctionOnSet(f, s)
                                    = f[y] + SumFunctionOnSet(f, s \ {y})
           B == {s \in SUBSET S : ~ Ok(s)}
<1> SUFFICES ASSUME B # {} PROVE FALSE
  BY DEF B
<1>1. \A s \in SUBSET S : IsFiniteSet(s) /\ SumFunctionOnSet(f, s) \in Nat
  BY FS_Subset, SumIsNat
<1>2. PICK s \in B : \A y \in s : s \ {y} \notin B
  BY <1>1, SmallestSet
<1>3. PICK y \in s : SumFunctionOnSet(f, s) # f[y] + SumFunctionOnSet(f, s \ {y})
  OBVIOUS
<1> DEFINE z == Choice(s)
<1>4. z \in s /\ SumFunctionOnSet(f, s) = f[z] + SumFunctionOnSet(f, s \ {z})
  BY <1>1, ChoiceIs, SumUnfolds
<1> HIDE DEF z
<1>5. y # z
  BY <1>3, <1>4
<1>6. s \ {y} \in SUBSET S /\ s \ {z} \in SUBSET S /\ Ok(s \ {y}) /\ Ok(s \ {z})
  BY <1>2, <1>4
<1>7. /\ SumFunctionOnSet(f, s \ {y}) = f[z] + SumFunctionOnSet(f, (s \ {y}) \ {z})
      /\ SumFunctionOnSet(f, s \ {z}) = f[y] + SumFunctionOnSet(f, (s \ {z}) \ {y})
  BY <1>4, <1>5, <1>6
<1>8. (s \ {y}) \ {z} = (s \ {z}) \ {y}
  OBVIOUS
<1> DEFINE v == SumFunctionOnSet(f, (s \ {z}) \ {y})
<1>9. f[y] \in Nat /\ f[z] \in Nat /\ v \in Nat
  BY <1>1, <1>4
<1> HIDE DEF v
<1>10. /\ SumFunctionOnSet(f, s \ {y}) = f[z] + v
       /\ SumFunctionOnSet(f, s) = f[z] + (f[y] + v)
  BY <1>4, <1>7, <1>8 DEF v
<1> QED
  BY <1>3, <1>9, <1>10

\* Sums of functions of which one is the larger.
LEMMA SumLeq ==
  ASSUME NEW S, IsFiniteSet(S), NEW f, NEW g,
         \A x \in S : f[x] \in Nat /\ g[x] \in Nat /\ f[x] <= g[x]
  PROVE  SumFunctionOnSet(f, S) <= SumFunctionOnSet(g, S)
<1> DEFINE B == {s \in SUBSET S : ~ (SumFunctionOnSet(f, s) <= SumFunctionOnSet(g, s))}
<1> SUFFICES ASSUME B # {} PROVE FALSE
  BY DEF B
<1>1. \A s \in SUBSET S : /\ IsFiniteSet(s)
                          /\ SumFunctionOnSet(f, s) \in Nat /\ SumFunctionOnSet(g, s) \in Nat
  BY FS_Subset, SumIsNat
<1>2. PICK s \in B : \A x \in s : s \ {x} \notin B
  BY <1>1, SmallestSet
<1>3. s # {}
  BY SumOfNone
<1> DEFINE z == Choice(s)
<1>4. /\ z \in s
      /\ SumFunctionOnSet(f, s) = f[z] + SumFunctionOnSet(f, s \ {z})
      /\ SumFunctionOnSet(g, s) = g[z] + SumFunctionOnSet(g, s \ {z})
  BY <1>1, <1>3, ChoiceIs, SumUnfolds
<1> HIDE DEF z
<1>5. /\ f[z] \in Nat /\ g[z] \in Nat /\ f[z] <= g[z]
      /\ SumFunctionOnSet(f, s \ {z}) \in Nat /\ SumFunctionOnSet(g, s \ {z}) \in Nat
      /\ SumFunctionOnSet(f, s \ {z}) <= SumFunctionOnSet(g, s \ {z})
  BY <1>1, <1>2, <1>4
<1> QED
  BY <1>4, <1>5

LEMMA SumOfConstant ==
  ASSUME NEW S, IsFiniteSet(S), NEW c \in Nat, NEW f, \A x \in S : f[x] = c
  PROVE  SumFunctionOnSet(f, S) = c * Cardinality(S)
<1> DEFINE B == {s \in SUBSET S : SumFunctionOnSet(f, s) # c * Cardinality(s)}
<1> SUFFICES ASSUME B # {} PROVE FALSE
  BY DEF B
<1>1. \A s \in SUBSET S : IsFiniteSet(s) /\ Cardinality(s) \in Nat
  BY FS_Subset, FS_CardinalityType
<1>2. PICK s \in B : \A x \in s : s \ {x} \notin B
  BY <1>1, SmallestSet
<1>3. s # {}
  BY SumOfNone, FS_EmptySet
<1> DEFINE z == Choice(s)
           m == Cardinality(s \ {z})
<1>4. /\ z \in s /\ f[z] = c
      /\ SumFunctionOnSet(f, s) = f[z] + SumFunctionOnSet(f, s \ {z})
  BY <1>1, <1>3, ChoiceIs, SumUnfolds
<1> HIDE DEF z
<1>5. m \in Nat /\ Cardinality(s) = m + 1
  BY <1>1, <1>4, FS_RemoveElement
<1>6. SumFunctionOnSet(f, s \ {z}) = c * m
  BY <1>2, <1>4
<1> HIDE DEF m
<1>7. c + c * m = c * (m + 1)
  BY <1>5
<1> QED
  BY <1>4, <1>5, <1>6, <1>7

\* The sum over two parts.
LEMMA SumParts ==
  ASSUME NEW S, IsFiniteSet(S), NEW f, \A x \in S : f[x] \in Nat, NEW P \in SUBSET S
  PROVE  SumFunctionOnSet(f, S) = SumFunctionOnSet(f, P) + SumFunctionOnSet(f, S \ P)
<1> DEFINE Rest(s) == SumFunctionOnSet(f, S \ (P \ s))
           B == {s \in SUBSET P : Rest(s) # SumFunctionOnSet(f, s)
                                               + SumFunctionOnSet(f, S \ P)}
<1>0. P \ P = {} /\ S \ {} = S
  OBVIOUS
<1> SUFFICES ASSUME B # {} PROVE FALSE
  <2>1. P \notin B
    OBVIOUS
  <2> QED
    BY <1>0, <2>1
<1>1. \A s \in SUBSET S : IsFiniteSet(s) /\ SumFunctionOnSet(f, s) \in Nat
  BY FS_Subset, SumIsNat
<1>2. PICK s \in B : \A x \in s : s \ {x} \notin B
  BY <1>1, SmallestSet
<1>3. s # {}
  <2>1. P \ {} = P
    OBVIOUS
  <2>2. SumFunctionOnSet(f, S \ P) \in Nat
    BY <1>1
  <2> QED
    BY <2>1, <2>2, SumOfNone
<1>4. PICK z \in s : TRUE
  BY <1>3
<1> DEFINE T == S \ (P \ s)
<1>5. T \in SUBSET S /\ z \in T /\ T \ {z} = S \ (P \ (s \ {z}))
  BY <1>4
<1>6. Rest(s) = f[z] + Rest(s \ {z})
  <2> HIDE DEF T
  <2>1. IsFiniteSet(T) /\ \A x \in T : f[x] \in Nat
    BY <1>1, <1>5
  <2>2. SumFunctionOnSet(f, T) = f[z] + SumFunctionOnSet(f, T \ {z})
    BY <1>5, <2>1, SumPick
  <2> QED
    BY <1>5, <2>2 DEF T
<1>7. SumFunctionOnSet(f, s) = f[z] + SumFunctionOnSet(f, s \ {z})
  BY <1>1, <1>4, SumPick
<1>8. Rest(s \ {z}) = SumFunctionOnSet(f, s \ {z}) + SumFunctionOnSet(f, S \ P)
  BY <1>2, <1>4
<1>9. /\ f[z] \in Nat /\ SumFunctionOnSet(f, s \ {z}) \in Nat
      /\ SumFunctionOnSet(f, S \ P) \in Nat
      /\ Rest(s) # SumFunctionOnSet(f, s) + SumFunctionOnSet(f, S \ P)
  BY <1>1, <1>2, <1>4
<1> HIDE DEF Rest, B
<1> QED
  BY <1>6, <1>7, <1>8, <1>9

\* Sums of sums.
LEMMA SumOfSums ==
  ASSUME NEW S, IsFiniteSet(S), NEW f, NEW g, NEW h,
         \A x \in S : f[x] \in Nat /\ g[x] \in Nat /\ h[x] = f[x] + g[x]
  PROVE  SumFunctionOnSet(h, S) = SumFunctionOnSet(f, S) + SumFunctionOnSet(g, S)
<1> DEFINE B == {s \in SUBSET S : SumFunctionOnSet(h, s)
                                    # SumFunctionOnSet(f, s) + SumFunctionOnSet(g, s)}
<1> SUFFICES ASSUME B # {} PROVE FALSE
  BY DEF B
<1>1. \A s \in SUBSET S : /\ IsFiniteSet(s)
                          /\ SumFunctionOnSet(f, s) \in Nat /\ SumFunctionOnSet(g, s) \in Nat
  BY FS_Subset, SumIsNat
<1>2. PICK s \in B : \A x \in s : s \ {x} \notin B
  BY <1>1, SmallestSet
<1>3. s # {}
  <2> SUFFICES ASSUME s = {} PROVE FALSE
    OBVIOUS
  <2>1. /\ SumFunctionOnSet(f, s) = 0 /\ SumFunctionOnSet(g, s) = 0
        /\ SumFunctionOnSet(h, s) = 0
    BY SumOfNone
  <2>2. SumFunctionOnSet(h, s) # SumFunctionOnSet(f, s) + SumFunctionOnSet(g, s)
    BY <1>2
  <2> QED
    BY <2>1, <2>2
<1> DEFINE z == Choice(s)
<1>4. /\ z \in s /\ h[z] = f[z] + g[z] /\ f[z] \in Nat /\ g[z] \in Nat
      /\ SumFunctionOnSet(f, s) = f[z] + SumFunctionOnSet(f, s \ {z})
      /\ SumFunctionOnSet(g, s) = g[z] + SumFunctionOnSet(g, s \ {z})
      /\ SumFunctionOnSet(h, s) = h[z] + SumFunctionOnSet(h, s \ {z})
  BY <1>1, <1>3, ChoiceIs, SumUnfolds
<1> HIDE DEF z
<1>5. /\ SumFunctionOnSet(f, s \ {z}) \in Nat /\ SumFunctionOnSet(g, s \ {z}) \in Nat
      /\ SumFunctionOnSet(h, s \ {z})
           = SumFunctionOnSet(f, s \ {z}) + SumFunctionOnSet(g, s \ {z})
  BY <1>1, <1>2, <1>4
<1> QED
  BY <1>4, <1>5

\* What is zero does not count.
LEMMA SumNarrow ==
  ASSUME NEW S, IsFiniteSet(S), NEW f, NEW P \in SUBSET S,
         \A x \in S : f[x] \in Nat, \A x \in S \ P : f[x] = 0
  PROVE  SumFunctionOnSet(f, S) = SumFunctionOnSet(f, P)
<1>1. IsFiniteSet(P) /\ IsFiniteSet(S \ P)
  BY FS_Subset
<1>2. SumFunctionOnSet(f, S) = SumFunctionOnSet(f, P) + SumFunctionOnSet(f, S \ P)
  BY SumParts
<1>3. SumFunctionOnSet(f, S \ P) = 0 * Cardinality(S \ P)
  BY <1>1, SumOfConstant
<1>4. 0 * Cardinality(S \ P) = 0 /\ SumFunctionOnSet(f, P) \in Nat
  BY <1>1, FS_CardinalityType, SumIsNat
<1> QED
  BY <1>2, <1>3, <1>4

\* A sum does not change when its elements are renamed.
LEMMA SumMoved ==
  ASSUME NEW S, IsFiniteSet(S), NEW T, IsFiniteSet(T), NEW f, NEW g, NEW to \in [S -> T],
         \A x \in S : f[x] \in Nat /\ f[x] = g[to[x]],
         \A x, y \in S : to[x] = to[y] => x = y,
         \A y \in T : \E x \in S : to[x] = y
  PROVE  SumFunctionOnSet(f, S) = SumFunctionOnSet(g, T)
<1> DEFINE Img(s) == {to[x] : x \in s}
           B == {s \in SUBSET S : SumFunctionOnSet(f, s) # SumFunctionOnSet(g, Img(s))}
<1>0. Img(S) = T
  OBVIOUS
<1> SUFFICES ASSUME B # {} PROVE FALSE
  <2>1. S \notin B
    OBVIOUS
  <2> QED
    BY <1>0, <2>1
<1>1. \A s \in SUBSET S : /\ IsFiniteSet(s) /\ IsFiniteSet(Img(s))
                          /\ \A y \in Img(s) : g[y] \in Nat
  <2> TAKE s \in SUBSET S
  <2>1. Img(s) \in SUBSET T
    OBVIOUS
  <2>2. \A y \in Img(s) : g[y] \in Nat
    OBVIOUS
  <2> HIDE DEF Img
  <2> QED
    BY <2>1, <2>2, FS_Subset
<1>2. PICK s \in B : \A x \in s : s \ {x} \notin B
  BY <1>1, SmallestSet
<1>3. s # {}
  <2> SUFFICES ASSUME s = {} PROVE FALSE
    OBVIOUS
  <2>1. Img(s) = {} /\ SumFunctionOnSet(f, s) # SumFunctionOnSet(g, Img(s))
    BY <1>2
  <2> HIDE DEF Img
  <2> QED
    BY <2>1, SumOfNone
<1>4. PICK x \in s : TRUE
  BY <1>3
<1>5. Img(s \ {x}) = Img(s) \ {to[x]} /\ to[x] \in Img(s) /\ f[x] = g[to[x]]
  BY <1>4
<1>6. SumFunctionOnSet(f, s \ {x}) = SumFunctionOnSet(g, Img(s \ {x}))
  BY <1>2, <1>4
<1>7. SumFunctionOnSet(f, s) # SumFunctionOnSet(g, Img(s))
  BY <1>2
<1> HIDE DEF Img
<1>8. SumFunctionOnSet(g, Img(s)) = g[to[x]] + SumFunctionOnSet(g, Img(s) \ {to[x]})
  BY <1>1, <1>4, <1>5, SumPick
<1>9. SumFunctionOnSet(f, s) = f[x] + SumFunctionOnSet(f, s \ {x})
  BY <1>1, <1>4, SumPick
<1> QED
  BY <1>5, <1>6, <1>7, <1>8, <1>9

-----------------------------------------------------------------------------
(* Transitions.                                                            *)

LEMMA MinMaxIs ==
  ASSUME NEW a \in Int, NEW b \in Int
  PROVE  /\ Min({a, b}) = IF a <= b THEN a ELSE b
         /\ Max({a, b}) = IF a <= b THEN b ELSE a
<1>1. \E x \in {a, b} : \A y \in {a, b} : x <= y
  OBVIOUS
<1>2. \E x \in {a, b} : \A y \in {a, b} : x >= y
  OBVIOUS
<1>3. Min({a, b}) \in {a, b} /\ \A y \in {a, b} : Min({a, b}) <= y
  BY <1>1 DEF Min
<1>4. Max({a, b}) \in {a, b} /\ \A y \in {a, b} : Max({a, b}) >= y
  BY <1>2 DEF Max
<1> QED
  BY <1>3, <1>4

LEMMA UnitIs == Unit \in Nat /\ Unit > 0 /\ HOURS_PER_DAY \in Nat /\ HOURS_PER_DAY > 0
  BY ShapeAssumption

(* How long a transition may be.                                           *)
Longest == Max({MAX_RAMP_HOURS, HOURS_PER_DAY * MAX_SEASON_TRANSITION_DAYS})

LEMMA LongestIs ==
  /\ Longest \in Nat /\ MAX_RAMP_HOURS <= Longest
  /\ \A days \in 0 .. MAX_SEASON_TRANSITION_DAYS :
        HOURS_PER_DAY * days \in Nat /\ HOURS_PER_DAY * days <= Longest
<1>1. /\ HOURS_PER_DAY \in Nat /\ MAX_RAMP_HOURS \in Nat
      /\ MAX_SEASON_TRANSITION_DAYS \in Nat
  BY ShapeAssumption
<1> DEFINE b == HOURS_PER_DAY * MAX_SEASON_TRANSITION_DAYS
<1>2. b \in Nat
  BY <1>1
<1>3. ASSUME NEW days \in 0 .. MAX_SEASON_TRANSITION_DAYS
      PROVE  HOURS_PER_DAY * days \in Nat /\ HOURS_PER_DAY * days <= b
  <2> DEFINE r == MAX_SEASON_TRANSITION_DAYS - days
  <2>1. r \in Nat /\ days \in Nat /\ MAX_SEASON_TRANSITION_DAYS = days + r
    BY <1>1
  <2> HIDE DEF r
  <2>2. HOURS_PER_DAY * days \in Nat /\ HOURS_PER_DAY * r \in Nat
    BY <1>1, <2>1
  <2>3. HOURS_PER_DAY * (days + r) = HOURS_PER_DAY * days + HOURS_PER_DAY * r
    BY <1>1, <2>1
  <2> QED
    BY <2>1, <2>2, <2>3
<1> HIDE DEF b
<1>4. Longest = IF MAX_RAMP_HOURS <= b THEN b ELSE MAX_RAMP_HOURS
  BY <1>1, <1>2, MinMaxIs DEF Longest, b
<1> QED
  BY <1>1, <1>2, <1>3, <1>4

\* A transition rises from nothing to all of it, the same way on both sides.
LEMMA SineIs ==
  ASSUME NEW w \in 1 .. Longest, NEW x \in 1 .. w - 1
  PROVE  /\ Sine(x, w) \in Nat /\ Sine(-x, w) \in Nat
         /\ Sine(x, w) + Sine(-x, w) = Unit /\ 2 * Sine(x, w) > Unit
<1>0. w \in Nat /\ w >= 1 /\ Longest \in Nat
  BY LongestIs
<1>1. \A y \in 1 - w .. w - 1 :
        /\ Sine(y, w) \in Nat /\ Sine(y, w) + Sine(-y, w) = Unit
        /\ Sine(y, w) > (IF y = 1 - w THEN 0 ELSE Sine(y - 1, w))
  BY ShapeAssumption DEF Longest
<1>2. Unit \in Nat
  BY UnitIs
<1> DEFINE bad == {y \in Nat : y \in 1 .. w - 1 /\ ~ (2 * Sine(y, w) > Unit)}
<1>4. bad = {}
  <2> SUFFICES ASSUME bad # {} PROVE FALSE
    OBVIOUS
  <2>1. PICK y \in bad : \A z \in bad : y <= z
    BY LeastOf
  <2>2. /\ y \in Nat /\ y - 1 \in 0 .. w - 1 /\ y \in 1 - w .. w - 1
        /\ y - 1 \in 1 - w .. w - 1 /\ y # 1 - w
    BY <1>0, <2>1
  <2>3. /\ Sine(y, w) \in Nat /\ Sine(y - 1, w) \in Nat
        /\ Sine(y, w) > Sine(y - 1, w)
    BY <1>1, <2>2
  <2>4. CASE y - 1 = 0
    <3>1. w > 1 /\ y = 1
      BY <1>0, <2>1, <2>4
    <3>2. /\ 0 \in 1 - w .. w - 1 /\ 0 # 1 - w /\ 1 \in 1 - w .. w - 1
          /\ -1 \in 1 - w .. w - 1 /\ 0 - 1 = -1
      BY <1>0, <3>1
    <3>3. /\ Sine(1, w) \in Nat /\ Sine(0, w) \in Nat /\ Sine(-1, w) \in Nat
          /\ Sine(1, w) + Sine(-1, w) = Unit /\ Sine(0, w) > Sine(-1, w)
      BY <1>1, <3>2
    <3> QED
      BY <1>2, <2>1, <2>3, <3>1, <3>3
  <2>5. CASE y - 1 # 0
    <3>1. y - 1 \notin bad /\ y - 1 \in 1 .. w - 1
      BY <2>1, <2>2, <2>5
    <3>2. 2 * Sine(y - 1, w) > Unit
      BY <3>1
    <3> QED
      BY <1>2, <2>1, <2>3, <3>2
  <2> QED
    BY <2>4, <2>5
<1>5. x \in 1 - w .. w - 1 /\ -x \in 1 - w .. w - 1 /\ x \in Nat
  BY <1>0
<1>6. 2 * Sine(x, w) > Unit
  BY <1>4, <1>5
<1> QED
  BY <1>1, <1>5, <1>6

LEMMA RampIs ==
  ASSUME NEW w \in 0 .. Longest, NEW x \in Nat \ {0}
  PROVE  /\ ramp(x, w) \in 0 .. Unit /\ ramp(-x, w) \in 0 .. Unit
         /\ ramp(x, w) + ramp(-x, w) = Unit
         /\ 2 * ramp(x, w) > Unit
         /\ x >= w => ramp(-x, w) = 0
<1>1. Unit \in Nat /\ Unit > 0 /\ w \in Nat /\ Longest \in Nat
  BY LongestIs, UnitIs
<1>2. CASE x >= w
  <2>1. ~ (x <= -w) /\ -x <= -w
    BY <1>1, <1>2
  <2> QED
    BY <1>1, <1>2, <2>1 DEF ramp
<1>3. CASE x < w
  <2>1. /\ ~ (x <= -w) /\ ~ (x >= w) /\ ~ (-x <= -w) /\ ~ (-x >= w)
        /\ w \in 1 .. Longest /\ x \in 1 .. w - 1
    BY <1>1, <1>3
  <2>2. ramp(x, w) = Sine(x, w) /\ ramp(-x, w) = Sine(-x, w)
    BY <2>1 DEF ramp
  <2> QED
    BY <1>1, <1>3, <2>1, <2>2, SineIs
<1> QED
  BY <1>1, <1>2, <1>3

-----------------------------------------------------------------------------
(* The hours of a day.                                                     *)

\* What is left of a transition k hours and a half from its middle.
Rest(w) == [k \in Nat |-> ramp(-(2 * k + 1), w)]

LEMMA RestIs ==
  ASSUME NEW w \in 0 .. Longest, NEW k \in Nat
  PROVE  /\ Rest(w)[k] \in 0 .. Unit
         /\ ramp(2 * k + 1, w) = Unit - Rest(w)[k]
         /\ ramp(-(2 * k + 1), w) = Rest(w)[k]
         /\ 2 * Rest(w)[k] < Unit
         /\ 2 * k + 1 >= w => Rest(w)[k] = 0
<1> DEFINE x == 2 * k + 1
<1>1. x \in Nat \ {0}
  OBVIOUS
<1> HIDE DEF x
<1>2. /\ ramp(x, w) \in 0 .. Unit /\ ramp(-x, w) \in 0 .. Unit
      /\ ramp(x, w) + ramp(-x, w) = Unit
      /\ 2 * ramp(x, w) > Unit
      /\ x >= w => ramp(-x, w) = 0
  BY <1>1, RampIs
<1>3. Rest(w)[k] = ramp(-x, w)
  BY DEF Rest, x
<1>4. Unit \in Nat
  BY UnitIs
<1> QED
  BY <1>2, <1>3, <1>4 DEF x

\* A transition takes the same from both sides, if there is room for it.
LEMMA RestBalances ==
  ASSUME NEW w \in 0 .. Longest, NEW a \in Nat, NEW b \in Nat, w <= 2 * a, w <= 2 * b
  PROVE  SumFunctionOnSet(Rest(w), 0 .. a - 1) = SumFunctionOnSet(Rest(w), 0 .. b - 1)
<1>0. w \in Nat
  BY LongestIs
<1>1. ASSUME NEW c \in Nat, NEW d \in Nat, w <= 2 * c, c <= d
      PROVE  SumFunctionOnSet(Rest(w), 0 .. d - 1) = SumFunctionOnSet(Rest(w), 0 .. c - 1)
  <2>1. 0 .. c - 1 \in SUBSET (0 .. d - 1) /\ 0 .. d - 1 \subseteq Nat
    BY <1>1
  <2>2. \A k \in 0 .. d - 1 : Rest(w)[k] \in Nat
    BY <2>1, RestIs, UnitIs
  <2>3. \A k \in (0 .. d - 1) \ (0 .. c - 1) : Rest(w)[k] = 0
    <3> TAKE k \in (0 .. d - 1) \ (0 .. c - 1)
    <3>1. k \in Nat /\ 2 * k + 1 >= w
      BY <1>0, <1>1
    <3> QED
      BY <3>1, RestIs
  <2>4. IsFiniteSet(0 .. d - 1)
    BY <1>1, FS_Interval
  <2> QED
    BY <2>1, <2>2, <2>3, <2>4, SumNarrow
<1>2. CASE a <= b
  BY <1>1, <1>2
<1>3. CASE b <= a
  BY <1>1, <1>3
<1> QED
  BY <1>2, <1>3

LEMMA HourAround ==
  ASSUME NEW n \in Nat, n > 0, NEW v \in Int, -n <= v, v < n
  PROVE  v % n = IF v < 0 THEN v + n ELSE v
BY SMT

\* A shape as it is accepted: a day and a night with room for the transitions.
Hourly(s) ==
    /\ ValidHours(s) /\ TransitionsFit(s)

LEMMA HourlyIs ==
  ASSUME NEW s, Hourly(s)
  PROVE  LET st == s.day_start_hour
             en == s.day_end_hour
             m == s.morning_ramp_hours
             e == s.evening_ramp_hours
         IN  /\ st \in Nat /\ en \in Nat /\ st < en /\ en <= HOURS_PER_DAY
             /\ day_hours(s) = en - st /\ day_hours(s) \in Nat /\ day_hours(s) > 0
             /\ night_hours(s) = HOURS_PER_DAY - (en - st)
             /\ night_hours(s) \in Nat /\ night_hours(s) > 0
             /\ m \in 0 .. Longest /\ e \in 0 .. Longest
             /\ m + e <= 2 * day_hours(s) /\ m + e <= 2 * night_hours(s)
<1>1. HOURS_PER_DAY \in Nat /\ HOURS_PER_DAY > 0
  BY UnitIs
<1>2. /\ s.day_start_hour \in 0 .. HOURS_PER_DAY - 1
      /\ s.day_end_hour \in 1 .. HOURS_PER_DAY
      /\ day_hours(s) \in 1 .. HOURS_PER_DAY - 1
      /\ s.morning_ramp_hours \in 0 .. MAX_RAMP_HOURS
      /\ s.evening_ramp_hours \in 0 .. MAX_RAMP_HOURS
  BY DEF Hourly, ValidHours, Hours
<1>3. /\ day_hours(s) = s.day_end_hour - s.day_start_hour
      /\ night_hours(s) = HOURS_PER_DAY - (s.day_end_hour - s.day_start_hour)
  BY DEF day_hours, night_hours
<1>4. MAX_RAMP_HOURS \in Nat /\ Longest \in Nat /\ MAX_RAMP_HOURS <= Longest
  BY LongestIs, ShapeAssumption
<1>5. s.morning_ramp_hours + s.evening_ramp_hours <= 2 * Min({day_hours(s), night_hours(s)})
  BY DEF Hourly, TransitionsFit
<1>6. Min({day_hours(s), night_hours(s)}) = IF day_hours(s) <= night_hours(s)
                                            THEN day_hours(s) ELSE night_hours(s)
  BY <1>1, <1>2, <1>3, MinMaxIs
<1> QED
  BY <1>1, <1>2, <1>3, <1>4, <1>5, <1>6

\* An hour of the day: it loses what is left of the transitions.
LEMMA WeightByDay ==
  ASSUME NEW s, Hourly(s), NEW h \in Hours, InDay(s, h)
  PROVE  LET a == Rest(s.morning_ramp_hours)[h - s.day_start_hour]
             b == Rest(s.evening_ramp_hours)[s.day_end_hour - 1 - h]
         IN  /\ h - s.day_start_hour \in 0 .. day_hours(s) - 1
             /\ s.day_end_hour - 1 - h \in 0 .. day_hours(s) - 1
             /\ day_weight(s, h) \in 0 .. Unit /\ 2 * day_weight(s, h) > Unit
             /\ day_weight(s, h) + a + b = Unit
<1> DEFINE st == s.day_start_hour
           en == s.day_end_hour
           m == s.morning_ramp_hours
           e == s.evening_ramp_hours
           i == h - st
           j == en - 1 - h
           a == Rest(m)[i]
           b == Rest(e)[j]
<1>1. /\ st \in Nat /\ en \in Nat /\ st < en /\ en <= HOURS_PER_DAY
      /\ day_hours(s) = en - st
      /\ m \in 0 .. Longest /\ e \in 0 .. Longest
      /\ m + e <= 2 * day_hours(s) /\ HOURS_PER_DAY \in Nat /\ Unit \in Nat /\ Longest \in Nat
  BY HourlyIs, UnitIs, LongestIs
<1>2. h \in Nat /\ st <= h /\ h < en
  BY <1>1 DEF InDay, Hours
<1>3. day_weight(s, h) = Min({ramp((2 * h + 1) - 2 * st, m), ramp(2 * en - (2 * h + 1), e)})
  <2>1. day_weight(s, h) = IF InDay(s, h)
          THEN Min({ramp((2 * h + 1) - 2 * st, m), ramp(2 * en - (2 * h + 1), e)})
          ELSE Max({ramp(-((2 * st - (2 * h + 1)) % (2 * HOURS_PER_DAY)), m),
                    ramp(-(((2 * h + 1) - 2 * en) % (2 * HOURS_PER_DAY)), e)})
    BY DEF day_weight
  <2> QED
    BY <2>1, Zenon
<1> HIDE DEF st, en, m, e
<1>4. i \in 0 .. day_hours(s) - 1 /\ j \in 0 .. day_hours(s) - 1 /\ i + j + 1 = day_hours(s)
  BY <1>1, <1>2
<1>5. (2 * h + 1) - 2 * st = 2 * i + 1 /\ 2 * en - (2 * h + 1) = 2 * j + 1
  BY <1>1, <1>2
<1>6. i \in Nat /\ j \in Nat
  BY <1>1, <1>4
<1>7. day_weight(s, h) = Min({ramp(2 * i + 1, m), ramp(2 * j + 1, e)})
  BY <1>3, <1>5
<1> HIDE DEF i, j
<1>8. /\ a \in 0 .. Unit /\ b \in 0 .. Unit /\ 2 * a < Unit /\ 2 * b < Unit
      /\ ramp(2 * i + 1, m) = Unit - a /\ ramp(2 * j + 1, e) = Unit - b
      /\ 2 * i + 1 >= m => a = 0
      /\ 2 * j + 1 >= e => b = 0
  BY <1>1, <1>6, RestIs
<1> HIDE DEF a, b
<1>9. day_weight(s, h) = IF Unit - a <= Unit - b THEN Unit - a ELSE Unit - b
  BY <1>1, <1>7, <1>8, MinMaxIs
<1>10. a = 0 \/ b = 0
  BY <1>1, <1>4, <1>6, <1>8
<1>11. /\ day_weight(s, h) \in 0 .. Unit /\ 2 * day_weight(s, h) > Unit
       /\ day_weight(s, h) + a + b = Unit
  BY <1>1, <1>8, <1>9, <1>10
<1> QED
  BY <1>4, <1>11 DEF a, b, i, j, st, en, m, e

\* An hour of the night: it gains them.
LEMMA WeightByNight ==
  ASSUME NEW s, Hourly(s), NEW h \in Hours, ~ InDay(s, h)
  PROVE  LET i == (s.day_start_hour - 1 - h) % HOURS_PER_DAY
             j == (h - s.day_end_hour) % HOURS_PER_DAY
         IN  /\ i = night_hours(s) - 1 - j
             /\ j = IF h < s.day_end_hour THEN h - s.day_end_hour + HOURS_PER_DAY
                                          ELSE h - s.day_end_hour
             /\ i \in 0 .. night_hours(s) - 1 /\ j \in 0 .. night_hours(s) - 1
             /\ day_weight(s, h) \in 0 .. Unit /\ 2 * day_weight(s, h) < Unit
             /\ day_weight(s, h) = Rest(s.morning_ramp_hours)[i]
                                     + Rest(s.evening_ramp_hours)[j]
<1> DEFINE st == s.day_start_hour
           en == s.day_end_hour
           m == s.morning_ramp_hours
           e == s.evening_ramp_hours
           H == HOURS_PER_DAY
           i == (st - 1 - h) % H
           j == (h - en) % H
           a == Rest(m)[i]
           b == Rest(e)[j]
<1>1. /\ st \in Nat /\ en \in Nat /\ st < en /\ en <= H
      /\ night_hours(s) = H - (en - st)
      /\ m \in 0 .. Longest /\ e \in 0 .. Longest
      /\ m + e <= 2 * night_hours(s) /\ H \in Nat /\ H > 0 /\ Unit \in Nat /\ Longest \in Nat
  BY HourlyIs, UnitIs, LongestIs
<1>2. h \in Nat /\ h < H /\ (h < st \/ en <= h)
  BY <1>1 DEF InDay, Hours
<1>3. day_weight(s, h) = Max({ramp(-((2 * st - (2 * h + 1)) % (2 * H)), m),
                              ramp(-(((2 * h + 1) - 2 * en) % (2 * H)), e)})
  <2>1. day_weight(s, h) = IF InDay(s, h)
          THEN Min({ramp((2 * h + 1) - 2 * st, m), ramp(2 * en - (2 * h + 1), e)})
          ELSE Max({ramp(-((2 * st - (2 * h + 1)) % (2 * H)), m),
                    ramp(-(((2 * h + 1) - 2 * en) % (2 * H)), e)})
    BY DEF day_weight
  <2> QED
    BY <2>1, Zenon
<1> HIDE DEF st, en, m, e, H
<1>4. /\ i = (IF st - 1 - h < 0 THEN st - 1 - h + H ELSE st - 1 - h)
      /\ j = (IF h - en < 0 THEN h - en + H ELSE h - en)
  BY <1>1, <1>2, HourAround
<1>5. /\ (2 * st - (2 * h + 1)) % (2 * H)
            = (IF 2 * st - (2 * h + 1) < 0 THEN 2 * st - (2 * h + 1) + 2 * H
                                           ELSE 2 * st - (2 * h + 1))
      /\ ((2 * h + 1) - 2 * en) % (2 * H)
            = (IF (2 * h + 1) - 2 * en < 0 THEN (2 * h + 1) - 2 * en + 2 * H
                                         ELSE (2 * h + 1) - 2 * en)
  BY <1>1, <1>2, HourAround
<1> HIDE DEF i, j
<1>6. /\ (2 * st - (2 * h + 1)) % (2 * H) = 2 * i + 1
      /\ ((2 * h + 1) - 2 * en) % (2 * H) = 2 * j + 1
  BY <1>1, <1>2, <1>4, <1>5
<1>7. /\ i \in 0 .. night_hours(s) - 1 /\ j \in 0 .. night_hours(s) - 1
      /\ i = night_hours(s) - 1 - j /\ i \in Nat /\ j \in Nat
  BY <1>1, <1>2, <1>4
<1>8. day_weight(s, h) = Max({ramp(-(2 * i + 1), m), ramp(-(2 * j + 1), e)})
  BY <1>3, <1>6
<1>9. /\ a \in 0 .. Unit /\ b \in 0 .. Unit /\ 2 * a < Unit /\ 2 * b < Unit
      /\ ramp(-(2 * i + 1), m) = a /\ ramp(-(2 * j + 1), e) = b
      /\ 2 * i + 1 >= m => a = 0
      /\ 2 * j + 1 >= e => b = 0
  BY <1>1, <1>7, RestIs
<1>91. a \in Int /\ b \in Int
  BY <1>1, <1>9
<1> HIDE DEF a, b
<1>10. day_weight(s, h) = IF a <= b THEN b ELSE a
  BY <1>8, <1>9, <1>91, MinMaxIs
<1>11. a = 0 \/ b = 0
  BY <1>1, <1>7, <1>9
<1>12. /\ day_weight(s, h) \in 0 .. Unit /\ 2 * day_weight(s, h) < Unit
       /\ day_weight(s, h) = a + b
  BY <1>1, <1>9, <1>10, <1>11
<1>13. j = (IF h < en THEN h - en + H ELSE h - en)
  BY <1>1, <1>2, <1>4
<1> QED
  BY <1>7, <1>12, <1>13 DEF a, b, i, j, st, en, m, e, H

\* to numbers the elements of S from 0 to n - 1.
Numbers(to, S, n) ==
    /\ to \in [S -> 0 .. n - 1]
    /\ \A x, y \in S : to[x] = to[y] => x = y
    /\ \A k \in 0 .. n - 1 : \E x \in S : to[x] = k

\* What the hours of a part lose or gain by one transition.
LEMMA SideOf ==
  ASSUME NEW w \in 0 .. Longest, NEW S, IsFiniteSet(S), NEW n \in Nat,
         NEW to, Numbers(to, S, n),
         NEW f, \A x \in S : f[x] = Rest(w)[to[x]]
  PROVE  SumFunctionOnSet(f, S) = SumFunctionOnSet(Rest(w), 0 .. n - 1)
<1>1. \A x \in S : f[x] \in Nat /\ f[x] = Rest(w)[to[x]]
  <2> TAKE x \in S
  <2>1. to[x] \in Nat /\ f[x] = Rest(w)[to[x]]
    BY DEF Numbers
  <2> QED
    BY <2>1, RestIs, UnitIs
<1>2. IsFiniteSet(0 .. n - 1)
  BY FS_Interval
<1> QED
  BY <1>1, <1>2, SumMoved DEF Numbers

\* The hours of the day, counted from either end.
LEMMA DayIsCounted ==
  ASSUME NEW st \in Nat, NEW en \in Nat, st < en, NEW D, D = st .. en - 1
  PROVE  /\ Cardinality(D) = en - st
         /\ Numbers([h \in D |-> h - st], D, en - st)
         /\ Numbers([h \in D |-> en - 1 - h], D, en - st)
<1> DEFINE n == en - st
           Since == [h \in D |-> h - st]
           Until == [h \in D |-> en - 1 - h]
<1>1. D = st .. en - 1
  OBVIOUS
<1>2. Cardinality(D) = n
  <2>1. Cardinality(st .. en - 1) = (en - 1) - st + 1
    BY FS_Interval
  <2> QED
    BY <1>1, <2>1
<1>3. ASSUME NEW x \in D
      PROVE  Since[x] = x - st /\ Until[x] = en - 1 - x /\ x \in Int
             /\ x - st \in 0 .. n - 1 /\ en - 1 - x \in 0 .. n - 1
  BY <1>1
<1>4. ASSUME NEW x \in D, NEW y \in D
      PROVE  (Since[x] = Since[y] => x = y) /\ (Until[x] = Until[y] => x = y)
  <2> HIDE DEF Since, Until
  <2> QED
    BY <1>3
<1>5. ASSUME NEW k \in 0 .. n - 1
      PROVE  (\E x \in D : Since[x] = k) /\ (\E x \in D : Until[x] = k)
  <2>1. /\ st + k \in D /\ (st + k) - st = k
        /\ en - 1 - k \in D /\ en - 1 - (en - 1 - k) = k
    BY <1>1
  <2>2. Since[st + k] = k /\ Until[en - 1 - k] = k
    BY <1>3, <2>1
  <2> HIDE DEF Since, Until
  <2> QED
    BY <2>1, <2>2
<1>6. Since \in [D -> 0 .. n - 1] /\ Until \in [D -> 0 .. n - 1]
  BY <1>3
<1>7. Numbers(Since, D, n) /\ Numbers(Until, D, n)
  <2> HIDE DEF Since, Until, n
  <2> QED
    BY <1>4, <1>5, <1>6 DEF Numbers
<1> QED
  BY <1>2, <1>7

\* The hours of the night, counted from the evening and to the morning.
SinceDay(N, en, H) == [h \in N |-> IF h < en THEN h - en + H ELSE h - en]
UntilDay(N, en, H, o) == [h \in N |-> o - 1 - SinceDay(N, en, H)[h]]

LEMMA NightApart ==
  ASSUME NEW st \in Nat, NEW en \in Nat, st < en, NEW H \in Nat, en <= H,
         NEW x \in Int, 0 <= x, x < H, x < st \/ en <= x,
         NEW y \in Int, 0 <= y, y < H, y < st \/ en <= y,
         (IF x < en THEN x - en + H ELSE x - en) = (IF y < en THEN y - en + H ELSE y - en)
  PROVE  x = y
OBVIOUS

LEMMA NightIsCounted ==
  ASSUME NEW st \in Nat, NEW en \in Nat, st < en, NEW H \in Nat, en <= H, NEW N,
         N = (0 .. st - 1) \cup (en .. H - 1), NEW o, o = H - (en - st)
  PROVE  Numbers(SinceDay(N, en, H), N, o) /\ Numbers(UntilDay(N, en, H, o), N, o)
<1> DEFINE Ago == SinceDay(N, en, H)
           Ahead == UntilDay(N, en, H, o)
<1>0. Ago = [h \in N |-> Ago[h]] /\ Ahead = [h \in N |-> Ahead[h]]
  BY DEF SinceDay, UntilDay
<1>1. \A h \in N : /\ h \in Int /\ 0 <= h /\ h < H /\ (h < st \/ en <= h)
                   /\ Ago[h] = IF h < en THEN h - en + H ELSE h - en
                   /\ Ahead[h] = o - 1 - Ago[h]
  BY DEF SinceDay, UntilDay
<1> HIDE DEF Ago, Ahead
<1>2. \A h \in N : Ago[h] \in 0 .. o - 1 /\ Ahead[h] \in 0 .. o - 1
  <2> TAKE h \in N
  <2>1. /\ h \in Int /\ 0 <= h /\ h < H /\ (h < st \/ en <= h)
        /\ Ago[h] = (IF h < en THEN h - en + H ELSE h - en)
        /\ Ahead[h] = o - 1 - Ago[h]
    BY <1>1
  <2> QED
    BY <2>1
<1>3. ASSUME NEW x \in N, NEW y \in N, Ago[x] = Ago[y] PROVE x = y
  <2>1. /\ x \in Int /\ x < H /\ 0 <= x /\ (x < st \/ en <= x)
        /\ Ago[x] = (IF x < en THEN x - en + H ELSE x - en)
        /\ y \in Int /\ y < H /\ 0 <= y /\ (y < st \/ en <= y)
        /\ Ago[y] = (IF y < en THEN y - en + H ELSE y - en)
    BY <1>1
  <2>2. (IF x < en THEN x - en + H ELSE x - en) = (IF y < en THEN y - en + H ELSE y - en)
    BY <1>3, <2>1
  <2> QED
    BY <2>1, <2>2, NightApart
<1>4. ASSUME NEW k \in 0 .. o - 1 PROVE \E x \in N : Ago[x] = k
  <2>1. CASE en + k < H
    <3>1. en + k \in N /\ ~ (en + k < en) /\ en + k - en = k
      BY <2>1
    <3>2. Ago[en + k] = k
      BY <1>1, <3>1
    <3> QED
      BY <3>1, <3>2
  <2>2. CASE ~ (en + k < H)
    <3>1. en + k - H \in N /\ en + k - H < en /\ (en + k - H) - en + H = k
      BY <2>2
    <3>2. Ago[en + k - H] = k
      BY <1>1, <3>1
    <3> QED
      BY <3>1, <3>2
  <2> QED
    BY <2>1, <2>2
<1>5. ASSUME NEW x \in N, NEW y \in N, Ahead[x] = Ahead[y] PROVE x = y
  <2>1. Ahead[x] = o - 1 - Ago[x] /\ Ahead[y] = o - 1 - Ago[y] /\ Ago[x] \in Int /\ Ago[y] \in Int
    BY <1>1, <1>2
  <2> DEFINE p == Ago[x]
             q == Ago[y]
             v == Ahead[x]
  <2>2. v = o - 1 - p /\ v = o - 1 - q /\ p \in Int /\ q \in Int
    BY <1>5, <2>1
  <2>3. o \in Int
    OBVIOUS
  <2> HIDE DEF p, q, v
  <2>4. p = q
    BY <2>2, <2>3
  <2> QED
    BY <1>3, <2>4 DEF p, q
<1>6. ASSUME NEW k \in 0 .. o - 1 PROVE \E x \in N : Ahead[x] = k
  <2>1. o - 1 - k \in 0 .. o - 1
    OBVIOUS
  <2>2. PICK x \in N : Ago[x] = o - 1 - k
    BY <1>4, <2>1
  <2>3. Ahead[x] = o - 1 - (o - 1 - k) /\ o - 1 - (o - 1 - k) = k
    BY <1>1, <2>2
  <2> QED
    BY <2>3
<1>7. Ago \in [N -> 0 .. o - 1] /\ Ahead \in [N -> 0 .. o - 1]
  BY <1>0, <1>2
<1>8. Numbers(Ago, N, o)
  BY <1>3, <1>4, <1>7 DEF Numbers
<1>9. Numbers(Ahead, N, o)
  BY <1>5, <1>6, <1>7 DEF Numbers
<1> QED
  BY <1>8, <1>9 DEF Ago, Ahead

\* Over a day, the day has as many hours as it had without transitions.
LEMMA DayIsKept ==
  ASSUME NEW s, Hourly(s)
  PROVE  SumFunction([h \in Hours |-> day_weight(s, h)]) = day_hours(s) * Unit
<1> DEFINE st == s.day_start_hour
           en == s.day_end_hour
           m == s.morning_ramp_hours
           e == s.evening_ramp_hours
           H == HOURS_PER_DAY
           n == day_hours(s)
           o == night_hours(s)
           f == [h \in Hours |-> day_weight(s, h)]
           D == {h \in Hours : InDay(s, h)}
           N == Hours \ D
           Since == [h \in D |-> h - st]
           Until == [h \in D |-> en - 1 - h]
           Ago == [h \in N |-> (h - en) % H]
           Ahead == [h \in N |-> (st - 1 - h) % H]
           a == [h \in D |-> Rest(m)[Since[h]]]
           b == [h \in D |-> Rest(e)[Until[h]]]
           c == [h \in N |-> Rest(m)[Ahead[h]]]
           d == [h \in N |-> Rest(e)[Ago[h]]]
           fa == [h \in D |-> f[h] + a[h]]
           fab == [h \in D |-> fa[h] + b[h]]
<1>1. /\ st \in Nat /\ en \in Nat /\ st < en /\ en <= H
      /\ n = en - st /\ n \in Nat /\ n > 0
      /\ o = H - (en - st) /\ o \in Nat /\ o > 0
      /\ m \in 0 .. Longest /\ e \in 0 .. Longest /\ m \in Nat /\ e \in Nat
      /\ m <= 2 * n /\ e <= 2 * n /\ m <= 2 * o /\ e <= 2 * o
      /\ H \in Nat /\ H > 0 /\ Unit \in Nat
  <2>1. m \in Nat /\ e \in Nat
    BY HourlyIs, LongestIs
  <2> QED
    BY <2>1, HourlyIs, UnitIs
<1>2. IsFiniteSet(Hours) /\ IsFiniteSet(D) /\ IsFiniteSet(N) /\ Hours \ D = N
      /\ D \in SUBSET Hours /\ N \in SUBSET Hours
  <2>1. IsFiniteSet(Hours)
    BY <1>1, FS_Interval DEF Hours
  <2> QED
    BY <2>1, FS_Subset
<1>3. \A h \in D : /\ h - st \in 0 .. n - 1 /\ en - 1 - h \in 0 .. n - 1
                   /\ f[h] \in 0 .. Unit
                   /\ f[h] + Rest(m)[h - st] + Rest(e)[en - 1 - h] = Unit
  <2> TAKE h \in D
  <2>1. h \in Hours /\ InDay(s, h)
    OBVIOUS
  <2> QED
    BY <2>1, WeightByDay
<1>4. \A h \in N : /\ (st - 1 - h) % H = o - 1 - ((h - en) % H)
                   /\ (h - en) % H = IF h < en THEN h - en + H ELSE h - en
                   /\ (st - 1 - h) % H \in 0 .. o - 1 /\ (h - en) % H \in 0 .. o - 1
                   /\ f[h] \in 0 .. Unit
                   /\ f[h] = Rest(m)[(st - 1 - h) % H] + Rest(e)[(h - en) % H]
  <2> TAKE h \in N
  <2>1. h \in Hours /\ ~ InDay(s, h)
    OBVIOUS
  <2> QED
    BY <2>1, WeightByNight
<1>5. \A h : h \in D <=> h \in Nat /\ st <= h /\ h < en
  BY <1>1 DEF Hours, InDay
<1>6. \A h : h \in N <=> h \in Nat /\ h < H /\ (h < st \/ en <= h)
  BY <1>1 DEF Hours, InDay
<1> HIDE DEF st, en, m, e, H, n, o, D, N
<1>7. Cardinality(D) = n /\ Numbers(Since, D, n) /\ Numbers(Until, D, n)
  <2>1. D = st .. en - 1
    <3>1. ASSUME NEW h PROVE h \in D <=> h \in st .. en - 1
      BY <1>1, <1>5
    <3> QED
      BY <3>1
  <2>2. st \in Nat /\ en \in Nat /\ st < en /\ n = en - st
    BY <1>1
  <2> QED
    BY <2>1, <2>2, DayIsCounted
<1>8. Numbers(Ago, N, o) /\ Numbers(Ahead, N, o)
  <2>1. N = (0 .. st - 1) \cup (en .. H - 1)
    <3>1. ASSUME NEW h PROVE h \in N <=> h \in (0 .. st - 1) \cup (en .. H - 1)
      BY <1>1, <1>6
    <3> QED
      BY <3>1
  <2>2. Ago = SinceDay(N, en, H) /\ Ahead = UntilDay(N, en, H, o)
    BY <1>4 DEF SinceDay, UntilDay
  <2>3. /\ st \in Nat /\ en \in Nat /\ st < en /\ H \in Nat /\ en <= H
        /\ o = H - (en - st)
    BY <1>1
  <2> HIDE DEF Ago, Ahead
  <2> QED
    BY <2>1, <2>2, <2>3, NightIsCounted
<1>11. /\ SumFunctionOnSet(a, D) = SumFunctionOnSet(Rest(m), 0 .. n - 1)
       /\ SumFunctionOnSet(b, D) = SumFunctionOnSet(Rest(e), 0 .. n - 1)
       /\ SumFunctionOnSet(c, N) = SumFunctionOnSet(Rest(m), 0 .. o - 1)
       /\ SumFunctionOnSet(d, N) = SumFunctionOnSet(Rest(e), 0 .. o - 1)
  <2>1. /\ \A h \in D : a[h] = Rest(m)[Since[h]] /\ b[h] = Rest(e)[Until[h]]
        /\ \A h \in N : c[h] = Rest(m)[Ahead[h]] /\ d[h] = Rest(e)[Ago[h]]
    OBVIOUS
  <2> HIDE DEF Since, Until, Ahead, Ago, a, b, c, d
  <2>2. SumFunctionOnSet(a, D) = SumFunctionOnSet(Rest(m), 0 .. n - 1)
    BY <1>1, <1>2, <1>7, <2>1, SideOf
  <2>3. SumFunctionOnSet(b, D) = SumFunctionOnSet(Rest(e), 0 .. n - 1)
    BY <1>1, <1>2, <1>7, <2>1, SideOf
  <2>4. SumFunctionOnSet(c, N) = SumFunctionOnSet(Rest(m), 0 .. o - 1)
    BY <1>1, <1>2, <1>8, <2>1, SideOf
  <2>5. SumFunctionOnSet(d, N) = SumFunctionOnSet(Rest(e), 0 .. o - 1)
    BY <1>1, <1>2, <1>8, <2>1, SideOf
  <2> QED
    BY <2>2, <2>3, <2>4, <2>5
<1>12. /\ SumFunctionOnSet(Rest(m), 0 .. n - 1) = SumFunctionOnSet(Rest(m), 0 .. o - 1)
       /\ SumFunctionOnSet(Rest(e), 0 .. n - 1) = SumFunctionOnSet(Rest(e), 0 .. o - 1)
  BY <1>1, RestBalances
<1>13. \A h \in D : /\ f[h] \in Nat /\ a[h] \in Nat /\ b[h] \in Nat /\ fa[h] \in Nat
                    /\ fa[h] = f[h] + a[h] /\ fab[h] = fa[h] + b[h] /\ fab[h] = Unit
  <2> TAKE h \in D
  <2>0. h - st \in 0 .. n - 1 /\ en - 1 - h \in 0 .. n - 1
    BY <1>3
  <2>1. /\ a[h] = Rest(m)[h - st] /\ b[h] = Rest(e)[en - 1 - h]
        /\ h - st \in Nat /\ en - 1 - h \in Nat
    BY <1>1, <2>0
  <2>2. a[h] \in 0 .. Unit /\ b[h] \in 0 .. Unit
    BY <1>1, <2>1, RestIs
  <2>3. f[h] \in 0 .. Unit /\ f[h] + a[h] + b[h] = Unit
    BY <1>3, <2>1
  <2>4. fa[h] = f[h] + a[h] /\ fab[h] = fa[h] + b[h]
    OBVIOUS
  <2> HIDE DEF f, a, b, fa, fab
  <2> QED
    BY <1>1, <2>2, <2>3, <2>4
<1>14. \A h \in N : f[h] \in Nat /\ c[h] \in Nat /\ d[h] \in Nat /\ f[h] = c[h] + d[h]
  <2> TAKE h \in N
  <2>0. (st - 1 - h) % H \in 0 .. o - 1 /\ (h - en) % H \in 0 .. o - 1
    BY <1>4
  <2>1. /\ c[h] = Rest(m)[(st - 1 - h) % H] /\ d[h] = Rest(e)[(h - en) % H]
        /\ (st - 1 - h) % H \in Nat /\ (h - en) % H \in Nat
    BY <1>1, <2>0
  <2>2. c[h] \in 0 .. Unit /\ d[h] \in 0 .. Unit
    BY <1>1, <2>1, RestIs
  <2>3. f[h] \in 0 .. Unit /\ f[h] = c[h] + d[h]
    BY <1>4, <2>1
  <2> HIDE DEF f, c, d
  <2> QED
    BY <1>1, <2>2, <2>3
<1>15. DOMAIN f = Hours
  OBVIOUS
<1>16. \A h \in Hours : f[h] \in Nat
  <2>1. \A h \in Hours : h \in D \/ h \in N
    BY DEF N
  <2> QED
    BY <1>13, <1>14, <2>1
<1> HIDE DEF f, a, b, c, d, fa, fab
<1>17. /\ SumFunctionOnSet(fab, D) = SumFunctionOnSet(fa, D) + SumFunctionOnSet(b, D)
       /\ SumFunctionOnSet(fa, D) = SumFunctionOnSet(f, D) + SumFunctionOnSet(a, D)
       /\ SumFunctionOnSet(fab, D) = Unit * Cardinality(D)
       /\ SumFunctionOnSet(f, N) = SumFunctionOnSet(c, N) + SumFunctionOnSet(d, N)
       /\ SumFunctionOnSet(f, Hours) = SumFunctionOnSet(f, D) + SumFunctionOnSet(f, N)
  <2>1. SumFunctionOnSet(fab, D) = SumFunctionOnSet(fa, D) + SumFunctionOnSet(b, D)
    BY <1>2, <1>13, SumOfSums
  <2>2. SumFunctionOnSet(fa, D) = SumFunctionOnSet(f, D) + SumFunctionOnSet(a, D)
    BY <1>2, <1>13, SumOfSums
  <2>3. SumFunctionOnSet(fab, D) = Unit * Cardinality(D)
    BY <1>1, <1>2, <1>13, SumOfConstant
  <2>4. SumFunctionOnSet(f, N) = SumFunctionOnSet(c, N) + SumFunctionOnSet(d, N)
    BY <1>2, <1>14, SumOfSums
  <2>5. SumFunctionOnSet(f, Hours) = SumFunctionOnSet(f, D) + SumFunctionOnSet(f, N)
    BY <1>2, <1>16, SumParts
  <2> QED
    BY <2>1, <2>2, <2>3, <2>4, <2>5
<1>18. /\ SumFunctionOnSet(f, D) \in Nat /\ SumFunctionOnSet(a, D) \in Nat
       /\ SumFunctionOnSet(b, D) \in Nat
  BY <1>2, <1>13, SumIsNat
<1>20. SumFunctionOnSet(f, Hours) = n * Unit
  <2>1. Unit * n \in Nat /\ Unit * n = n * Unit
    BY <1>1
  <2> QED
    BY <1>11, <1>12, <1>7, <1>17, <1>18, <2>1
<1>21. SumFunction(f) = n * Unit
  BY <1>15, <1>20 DEF SumFunction
<1> QED
  BY <1>21 DEF f, n

-----------------------------------------------------------------------------
(* The change of season.                                                   *)

LEMMA SeasonsAre ==
  ASSUME NEW z, ValidSeasons(z)
  PROVE  LET e == z.summer_end_period
             w == HOURS_PER_DAY * z.transition_days
         IN  e \in Nat /\ e > 0 /\ w \in Nat /\ w \in 0 .. Longest /\ w <= 2 * e
<1>1. z.transition_days \in 0 .. MAX_SEASON_TRANSITION_DAYS
  BY DEF ValidSeasons
<1>2. HOURS_PER_DAY * z.transition_days \in 0 .. Longest /\ HOURS_PER_DAY * z.transition_days \in Nat
  BY <1>1, LongestIs
<1>3. z.summer_end_period \in Nat /\ z.summer_end_period > 0
  BY ShapeAssumption DEF ValidSeasons
<1>4. HOURS_PER_DAY * z.transition_days <= 2 * z.summer_end_period
  BY DEF ValidSeasons
<1> QED
  BY <1>2, <1>3, <1>4

LEMMA WinterIs ==
  ASSUME NEW z, ValidSeasons(z), NEW t \in Nat, t > 0
  PROVE  LET e == z.summer_end_period
             w == HOURS_PER_DAY * z.transition_days
         IN  /\ winter_weight(z, t) \in 0 .. Unit
             /\ t <= e => winter_weight(z, t) = Rest(w)[e - t]
             /\ t > e => winter_weight(z, t) + Rest(w)[t - e - 1] = Unit
<1> DEFINE e == z.summer_end_period
           w == HOURS_PER_DAY * z.transition_days
           x == 2 * t - 1 - 2 * z.summer_end_period
<1>1. e \in Nat /\ w \in 0 .. Longest /\ Unit \in Nat
  BY SeasonsAre, UnitIs
<1>2. winter_weight(z, t) = ramp(x, w)
  BY DEF winter_weight
<1>3. x \in Int /\ x = 2 * t - 1 - 2 * e
  BY <1>1
<1> HIDE DEF e, w, x
<1>4. CASE t <= e
  <2> DEFINE k == e - t
  <2>1. k \in Nat /\ x = -(2 * k + 1)
    BY <1>1, <1>3, <1>4
  <2> HIDE DEF k
  <2>2. Rest(w)[k] \in 0 .. Unit /\ ramp(-(2 * k + 1), w) = Rest(w)[k]
    BY <1>1, <2>1, RestIs
  <2>3. winter_weight(z, t) \in 0 .. Unit /\ winter_weight(z, t) = Rest(w)[k]
    BY <1>2, <2>1, <2>2
  <2>4. ~ (t > e)
    BY <1>1, <1>4
  <2> QED
    BY <2>3, <2>4 DEF k, e, w
<1>5. CASE t > e
  <2> DEFINE k == t - e - 1
  <2>1. k \in Nat /\ x = 2 * k + 1
    BY <1>1, <1>3, <1>5
  <2> HIDE DEF k
  <2>2. Rest(w)[k] \in 0 .. Unit /\ ramp(2 * k + 1, w) = Unit - Rest(w)[k]
    BY <1>1, <2>1, RestIs
  <2> DEFINE r == Rest(w)[k]
             v == winter_weight(z, t)
  <2>3. v = Unit - r /\ r \in 0 .. Unit
    BY <1>2, <2>1, <2>2
  <2> HIDE DEF r, v
  <2>4. v \in 0 .. Unit /\ v + r = Unit
    BY <1>1, <2>3
  <2>5. ~ (t <= e)
    BY <1>1, <1>5
  <2> QED
    BY <2>4, <2>5 DEF k, e, w, r, v
<1>6. t <= e \/ t > e
  BY <1>1
<1> QED
  BY <1>4, <1>5, <1>6

\* Over the change of season, winter has as many hours as it had without it.
LEMMA SeasonIsKept ==
  ASSUME NEW z, ValidSeasons(z)
  PROVE  LET n == z.summer_end_period + HOURS_PER_DAY * z.transition_days
         IN  SumFunction([t \in 1 .. n |-> winter_weight(z, t)])
               = (n - z.summer_end_period) * Unit
<1> DEFINE e == z.summer_end_period
           w == HOURS_PER_DAY * z.transition_days
           n == e + w
           f == [t \in 1 .. n |-> winter_weight(z, t)]
           S == 1 .. e
           T == 1 .. n \ S
           Left == [t \in S |-> e - t]
           Past == [t \in T |-> t - e - 1]
           a == [t \in T |-> Rest(w)[t - e - 1]]
           g == [t \in T |-> Unit]
<1>1. /\ e \in Nat /\ e > 0 /\ w \in Nat /\ w \in 0 .. Longest /\ w <= 2 * e /\ w <= 2 * w
      /\ Unit \in Nat /\ n \in Nat
  BY SeasonsAre, UnitIs
<1>2. \A t \in 1 .. n : /\ f[t] \in 0 .. Unit
                        /\ t <= e => f[t] = Rest(w)[e - t]
                        /\ t > e => f[t] + Rest(w)[t - e - 1] = Unit
  <2> TAKE t \in 1 .. n
  <2>1. t \in Nat /\ t > 0 /\ f[t] = winter_weight(z, t)
    BY <1>1
  <2> QED
    BY <2>1, WinterIs
<1> HIDE DEF e, w, f
<1>3. T = e + 1 .. n
  <2>1. ASSUME NEW t PROVE t \in T <=> t \in e + 1 .. n
    BY <1>1
  <2> HIDE DEF T
  <2> QED
    BY <2>1
<1>4. /\ IsFiniteSet(1 .. n) /\ IsFiniteSet(S) /\ IsFiniteSet(T) /\ S \in SUBSET (1 .. n)
      /\ Cardinality(T) = w
  <2>1. IsFiniteSet(1 .. n) /\ S \in SUBSET (1 .. n)
    BY <1>1, FS_Interval
  <2>2. IsFiniteSet(S) /\ IsFiniteSet(T)
    BY <2>1, FS_Subset
  <2>3. Cardinality(e + 1 .. n) = IF e + 1 > n THEN 0 ELSE n - (e + 1) + 1
    BY <1>1, FS_Interval
  <2>4. Cardinality(e + 1 .. n) = w
    BY <1>1, <2>3
  <2> QED
    BY <1>3, <2>1, <2>2, <2>4
<1>5. Numbers(Left, S, e)
  <2>1. \A t \in S : Left[t] = e - t /\ t \in Int /\ e - t \in 0 .. e - 1
    BY <1>1
  <2>2. Left \in [S -> 0 .. e - 1]
    BY <2>1
  <2>3. ASSUME NEW x \in S, NEW y \in S, Left[x] = Left[y] PROVE x = y
    <3>1. e - x = e - y /\ x \in Int /\ y \in Int
      BY <2>1, <2>3
    <3> QED
      BY <1>1, <3>1
  <2>4. ASSUME NEW k \in 0 .. e - 1 PROVE \E x \in S : Left[x] = k
    <3>1. e - k \in S /\ e - (e - k) = k
      BY <1>1
    <3>2. Left[e - k] = k
      BY <2>1, <3>1
    <3> QED
      BY <3>1, <3>2
  <2> HIDE DEF Left, S
  <2> QED
    BY <2>2, <2>3, <2>4 DEF Numbers
<1>6. Numbers(Past, T, w)
  <2> DEFINE Q == e + 1 .. n
  <2>0. T = Q
    BY <1>3
  <2>1. \A t \in T : Past[t] = t - e - 1 /\ t \in Int /\ t - e - 1 \in 0 .. w - 1
    <3> TAKE t \in T
    <3>1. t \in e + 1 .. n
      BY <1>3
    <3> QED
      BY <1>1, <3>1
  <2>2. Past \in [T -> 0 .. w - 1]
    BY <2>1
  <2> HIDE DEF Past, T
  <2>3. ASSUME NEW x \in T, NEW y \in T, Past[x] = Past[y] PROVE x = y
    <3>1. x - e - 1 = y - e - 1 /\ x \in Int /\ y \in Int
      BY <2>1, <2>3
    <3> QED
      BY <1>1, <3>1
  <2>4. ASSUME NEW k \in 0 .. w - 1 PROVE \E x \in T : Past[x] = k
    <3>1. e + 1 + k \in Q /\ (e + 1 + k) - e - 1 = k
      BY <1>1
    <3>2. e + 1 + k \in T /\ Past[e + 1 + k] = k
      BY <2>0, <2>1, <3>1
    <3> QED
      BY <3>2
  <2> QED
    BY <2>2, <2>3, <2>4 DEF Numbers
<1>7. \A t \in S : f[t] = Rest(w)[Left[t]] /\ f[t] \in Nat
  <2> TAKE t \in S
  <2>1. t \in 1 .. n /\ t <= e /\ Left[t] = e - t
    BY <1>1
  <2> QED
    BY <1>1, <1>2, <2>1
<1>8. \A t \in T : /\ f[t] \in Nat /\ a[t] \in Nat /\ g[t] = f[t] + a[t] /\ g[t] = Unit
                   /\ a[t] = Rest(w)[Past[t]]
  <2> TAKE t \in T
  <2>1. t \in 1 .. n /\ t > e /\ t - e - 1 \in Nat
    <3>1. t \in e + 1 .. n
      BY <1>3
    <3> QED
      BY <1>1, <3>1
  <2>2. f[t] \in 0 .. Unit /\ f[t] + Rest(w)[t - e - 1] = Unit
    BY <1>2, <2>1
  <2>3. Rest(w)[t - e - 1] \in 0 .. Unit
    BY <1>1, <2>1, RestIs
  <2>4. a[t] = Rest(w)[t - e - 1] /\ g[t] = Unit /\ Past[t] = t - e - 1
    OBVIOUS
  <2> QED
    BY <1>1, <2>2, <2>3, <2>4
<1>9. \A t \in 1 .. n : f[t] \in Nat
  BY <1>1, <1>2
<1>10. DOMAIN f = 1 .. n
  BY DEF f
<1> HIDE DEF S, T, Left, Past, a, g
<1>11. SumFunctionOnSet(f, S) = SumFunctionOnSet(Rest(w), 0 .. e - 1)
  <2>1. \A t \in S : f[t] = Rest(w)[Left[t]]
    BY <1>7
  <2>2. w \in 0 .. Longest /\ IsFiniteSet(S) /\ e \in Nat
    BY <1>1, <1>4
  <2> QED
    BY <1>5, <2>1, <2>2, SideOf
<1>12. SumFunctionOnSet(a, T) = SumFunctionOnSet(Rest(w), 0 .. w - 1)
  BY <1>1, <1>4, <1>6, <1>8, SideOf
<1>13. SumFunctionOnSet(Rest(w), 0 .. e - 1) = SumFunctionOnSet(Rest(w), 0 .. w - 1)
  BY <1>1, RestBalances
<1>14. SumFunctionOnSet(g, T) = SumFunctionOnSet(f, T) + SumFunctionOnSet(a, T)
  BY <1>4, <1>8, SumOfSums
<1>15. SumFunctionOnSet(g, T) = Unit * w
  BY <1>1, <1>4, <1>8, SumOfConstant
<1>16. SumFunctionOnSet(f, 1 .. n) = SumFunctionOnSet(f, S) + SumFunctionOnSet(f, T)
  BY <1>4, <1>9, SumParts DEF T
<1>17. /\ SumFunctionOnSet(f, S) \in Nat /\ SumFunctionOnSet(f, T) \in Nat
       /\ SumFunctionOnSet(a, T) \in Nat
  BY <1>4, <1>7, <1>8, SumIsNat
<1>18. SumFunctionOnSet(f, 1 .. n) = (n - e) * Unit
  <2>1. Unit * w = (n - e) * Unit
    BY <1>1
  <2> QED
    BY <1>11, <1>12, <1>13, <1>14, <1>15, <1>16, <1>17, <2>1
<1>19. SumFunction(f) = (n - e) * Unit
  BY <1>10, <1>18 DEF SumFunction
<1> QED
  BY <1>19 DEF f, n, e, w

-----------------------------------------------------------------------------
(* The weights of a period.                                                *)

Bounded(g) == g.min \in Nat /\ g.max \in Nat /\ ValidSegment(g)

\* A profile as it is accepted, with bounds that are numbers of quanta.
Accepted(p) ==
    /\ ValidProfile(p)
    /\ Bounded(p.summer.day) /\ Bounded(p.summer.night)
    /\ Seasonal(p) => Bounded(p.seasons.winter.day) /\ Bounded(p.seasons.winter.night)

LEMMA AcceptedIsHourly ==
  ASSUME NEW p, Accepted(p)
  PROVE  /\ Hourly(p.summer)
         /\ Seasonal(p) => ValidSeasons(p.seasons) /\ Hourly(p.seasons.winter)
  BY DEF Accepted, ValidProfile, ValidShape, Hourly

LEMMA HourOfIs ==
  ASSUME NEW t \in Nat, t > 0
  PROVE  HourOf(t) \in Hours
<1>1. t - 1 \in Nat /\ HOURS_PER_DAY \in Nat /\ HOURS_PER_DAY > 0
  BY UnitIs
<1>2. (t - 1) % HOURS_PER_DAY \in 0 .. HOURS_PER_DAY - 1
  BY <1>1
<1> QED
  BY <1>2 DEF HourOf, Hours

LEMMA DayWeightIs ==
  ASSUME NEW s, Hourly(s), NEW h \in Hours
  PROVE  /\ day_weight(s, h) \in 0 .. Unit
         /\ InDay(s, h) => 2 * day_weight(s, h) > Unit
         /\ ~ InDay(s, h) => 2 * day_weight(s, h) < Unit
<1>1. CASE InDay(s, h)
  BY <1>1, WeightByDay
<1>2. CASE ~ InDay(s, h)
  BY <1>2, WeightByNight
<1> QED
  BY <1>1, <1>2

(* How much of period t is winter.                                         *)
Winter(p, t) == IF Seasonal(p) THEN winter_weight(p.seasons, t) ELSE 0

Halves(s, t, w) ==
    [night |-> w * (Unit - day_weight(s, HourOf(t))), day |-> w * day_weight(s, HourOf(t))]

LEMMA WeightsAre ==
  ASSUME NEW p, Accepted(p), NEW t \in Nat, t > 0
  PROVE  /\ DOMAIN weights(p, t) = IF Seasonal(p) THEN {"summer", "winter"} ELSE {"summer"}
         /\ weights(p, t)["summer"] = Halves(p.summer, t, Unit - Winter(p, t))
         /\ Seasonal(p) =>
              weights(p, t)["winter"] = Halves(p.seasons.winter, t, Winter(p, t))
         /\ Winter(p, t) \in 0 .. Unit
<1>1. Winter(p, t) \in 0 .. Unit
  BY AcceptedIsHourly, WinterIs, UnitIs DEF Winter
<1>2. DOMAIN weights(p, t) = IF Seasonal(p) THEN {"summer", "winter"} ELSE {"summer"}
  BY DEF weights
<1>3. weights(p, t)["summer"] = Halves(p.summer, t, Unit - Winter(p, t))
  BY DEF weights, Halves, Winter
<1>4. Seasonal(p) => weights(p, t)["winter"] = Halves(p.seasons.winter, t, Winter(p, t))
  BY DEF weights, Halves, Winter
<1> QED
  BY <1>1, <1>2, <1>3, <1>4

LEMMA HalvesAre ==
  ASSUME NEW s, Hourly(s), NEW t \in Nat, t > 0, NEW w \in 0 .. Unit
  PROVE  /\ Halves(s, t, w).night \in Nat /\ Halves(s, t, w).day \in Nat
         /\ Halves(s, t, w).night + Halves(s, t, w).day = w * Unit
         /\ w * Unit \in Nat
         /\ w > 0 => (Halves(s, t, w).night > Halves(s, t, w).day
                        <=> ~ InDay(s, HourOf(t)))
<1> DEFINE d == day_weight(s, HourOf(t))
           n == Unit - d
<1>1. /\ d \in 0 .. Unit
      /\ InDay(s, HourOf(t)) => 2 * d > Unit
      /\ ~ InDay(s, HourOf(t)) => 2 * d < Unit
  BY HourOfIs, DayWeightIs
<1>2. Halves(s, t, w).night = w * n /\ Halves(s, t, w).day = w * d
  BY DEF Halves
<1>3. Unit \in Nat /\ w \in Nat
  BY UnitIs
<1> HIDE DEF d
<1>4. n \in Nat /\ d \in Nat /\ n + d = Unit
  BY <1>1, <1>3
<1> HIDE DEF n
<1>5. w * n \in Nat /\ w * d \in Nat /\ w * n + w * d = w * Unit /\ w * Unit \in Nat
  BY <1>3, <1>4
<1>6. ASSUME w > 0 PROVE w * n > w * d <=> ~ InDay(s, HourOf(t))
  <2>1. CASE InDay(s, HourOf(t))
    <3>1. n <= d
      BY <1>1, <1>3, <1>4, <2>1
    <3>2. w * n <= w * d
      BY <1>3, <1>4, <3>1
    <3> QED
      BY <1>5, <2>1, <3>2
  <2>2. CASE ~ InDay(s, HourOf(t))
    <3> DEFINE r == n - d
    <3>1. r \in Nat /\ r > 0 /\ n = d + r
      BY <1>1, <1>3, <1>4, <2>2
    <3> HIDE DEF r
    <3>2. w * n = w * d + w * r /\ w * r > 0 /\ w * r \in Nat
      BY <1>3, <1>4, <1>6, <3>1
    <3> QED
      BY <1>5, <2>2, <3>2
  <2> QED
    BY <2>1, <2>2
<1> QED
  BY <1>2, <1>5, <1>6

\* When all of a period is one season, the mask of the preview shades it
\* exactly if it is night more than day.
LEMMA MaskIsRight ==
  ASSUME NEW p, Accepted(p), NEW t \in Nat, t > 0,
         \E z \in DOMAIN weights(p, t) :
            weights(p, t)[z].night + weights(p, t)[z].day = Unit * Unit
  PROVE  LET w == weights(p, t)
             season == CHOOSE z \in DOMAIN w : \A y \in DOMAIN w \ {z} :
                          w[y].night + w[y].day = 0
         IN  night_mask(p, t) = (w[season].night > w[season].day)
<1> DEFINE w == weights(p, t)
           v == Winter(p, t)
           Whole(z) == \A y \in DOMAIN w \ {z} : w[y].night + w[y].day = 0
           season == CHOOSE z \in DOMAIN w : Whole(z)
<1>1. Unit \in Nat /\ Unit > 0
  BY UnitIs
<1>2. v \in 0 .. Unit /\ Unit - v \in 0 .. Unit
  BY <1>1, WeightsAre
<1>3. /\ DOMAIN w = IF Seasonal(p) THEN {"summer", "winter"} ELSE {"summer"}
      /\ w["summer"] = Halves(p.summer, t, Unit - v)
      /\ Seasonal(p) => w["winter"] = Halves(p.seasons.winter, t, v)
  BY WeightsAre
<1>4. /\ Hourly(p.summer)
      /\ Seasonal(p) => Hourly(p.seasons.winter)
  BY AcceptedIsHourly
<1>5. /\ w["summer"].night + w["summer"].day = (Unit - v) * Unit
      /\ Unit - v > 0 => (w["summer"].night > w["summer"].day
                            <=> ~ InDay(p.summer, HourOf(t)))
  BY <1>2, <1>3, <1>4, HalvesAre
<1>6. Seasonal(p) =>
        /\ w["winter"].night + w["winter"].day = v * Unit
        /\ v > 0 => (w["winter"].night > w["winter"].day
                       <=> ~ InDay(p.seasons.winter, HourOf(t)))
  BY <1>2, <1>3, <1>4, HalvesAre
<1>7. /\ Seasonal(p) => v = winter_weight(p.seasons, t)
      /\ ~ Seasonal(p) => v = 0
  BY DEF Winter
<1>8. PICK z \in DOMAIN w : w[z].night + w[z].day = Unit * Unit
  OBVIOUS
<1> HIDE DEF w, v
<1>9. (Unit - v) * Unit = Unit * Unit => v = 0
  <2>1. (Unit - v) * Unit + v * Unit = Unit * Unit /\ v \in Nat
    BY <1>1, <1>2
  <2>2. v > 0 => v * Unit > 0
    BY <1>1, <1>2
  <2>3. (Unit - v) * Unit \in Int /\ v * Unit \in Int /\ Unit * Unit \in Int
    BY <1>1, <1>2
  <2> QED
    BY <2>1, <2>2, <2>3
<1>10. v * Unit = Unit * Unit => v = Unit
  <2>1. (Unit - v) * Unit + v * Unit = Unit * Unit /\ v \in Nat
    BY <1>1, <1>2
  <2>2. Unit - v > 0 => (Unit - v) * Unit > 0
    BY <1>1, <1>2
  <2>3. (Unit - v) * Unit \in Int /\ v * Unit \in Int /\ Unit * Unit \in Int
    BY <1>1, <1>2
  <2> QED
    BY <1>1, <1>2, <2>1, <2>2, <2>3
<1>11. Unit * Unit > 0 /\ 0 * Unit = 0
  BY <1>1
<1>12. CASE v = 0
  <2>1. (Unit - v) * Unit = Unit * Unit /\ v * Unit = 0 /\ Unit - v > 0
    BY <1>1, <1>11, <1>12
  <2>2. season = "summer"
    <3>1. Whole("summer") /\ "summer" \in DOMAIN w
      BY <1>3, <1>6, <2>1
    <3>2. \A y \in DOMAIN w : Whole(y) => y = "summer"
      <4> TAKE y \in DOMAIN w
      <4>1. y # "summer" => "summer" \in DOMAIN w \ {y}
        BY <3>1
      <4>2. w["summer"].night + w["summer"].day # 0
        BY <1>5, <1>11, <2>1
      <4> QED
        BY <4>1, <4>2
    <3> QED
      BY <3>1, <3>2
  <2>3. ~ (2 * v >= Unit)
    BY <1>1, <1>12
  <2>4. night_mask(p, t) = ~ InDay(p.summer, HourOf(t))
    BY <1>7, <2>3 DEF night_mask
  <2>5. (w["summer"].night > w["summer"].day) = ~ InDay(p.summer, HourOf(t))
    BY <1>5, <2>1
  <2> QED
    BY <2>2, <2>4, <2>5 DEF w
<1>13. CASE v # 0
  <2>1. Seasonal(p) /\ z = "winter"
    BY <1>3, <1>5, <1>7, <1>8, <1>9, <1>13
  <2>2. v = Unit
    BY <1>6, <1>8, <1>10, <2>1
  <2>3. (Unit - v) * Unit = 0 /\ v * Unit = Unit * Unit /\ v > 0 /\ 2 * v >= Unit
    BY <1>1, <1>11, <2>2
  <2>4. season = "winter"
    <3>1. Whole("winter") /\ "winter" \in DOMAIN w
      BY <1>3, <1>5, <2>1, <2>3
    <3>2. \A y \in DOMAIN w : Whole(y) => y = "winter"
      <4> TAKE y \in DOMAIN w
      <4>1. y # "winter" => "winter" \in DOMAIN w \ {y}
        BY <3>1
      <4>2. w["winter"].night + w["winter"].day # 0
        BY <1>6, <1>11, <2>1, <2>3
      <4> QED
        BY <4>1, <4>2
    <3> QED
      BY <3>1, <3>2
  <2>5. night_mask(p, t) = ~ InDay(p.seasons.winter, HourOf(t))
    BY <1>7, <2>1, <2>3 DEF night_mask
  <2>6. (w["winter"].night > w["winter"].day) = ~ InDay(p.seasons.winter, HourOf(t))
    BY <1>6, <2>1, <2>3
  <2> QED
    BY <2>4, <2>5, <2>6 DEF w
<1> QED
  BY <1>12, <1>13

-----------------------------------------------------------------------------
(* The demand of a period.                                                 *)

LEMMA SumOfTwo ==
  ASSUME NEW a, NEW b, a # b, NEW f, f[a] \in Nat, f[b] \in Nat
  PROVE  IsFiniteSet({a, b}) /\ SumFunctionOnSet(f, {a, b}) = f[a] + f[b]
<1>1. IsFiniteSet({a, b}) /\ IsFiniteSet({b})
  <2>1. IsFiniteSet({b}) /\ {a, b} = {b} \cup {a}
    BY FS_Singleton
  <2> QED
    BY <2>1, FS_AddElement
<1>2. {a, b} \ {a} = {b} /\ {b} \ {b} = {}
  OBVIOUS
<1>3. /\ SumFunctionOnSet(f, {a, b}) = f[a] + SumFunctionOnSet(f, {b})
      /\ SumFunctionOnSet(f, {b}) = f[b] + SumFunctionOnSet(f, {})
  <2>1. \A x \in {a, b} : f[x] \in Nat
    OBVIOUS
  <2>2. \A x \in {b} : f[x] \in Nat
    OBVIOUS
  <2>3. SumFunctionOnSet(f, {a, b}) = f[a] + SumFunctionOnSet(f, {a, b} \ {a})
    BY <1>1, <2>1, SumPick
  <2>4. SumFunctionOnSet(f, {b}) = f[b] + SumFunctionOnSet(f, {b} \ {b})
    BY <1>1, <2>2, SumPick
  <2> QED
    BY <1>2, <2>3, <2>4
<1>4. SumFunctionOnSet(f, {}) = 0
  BY SumOfNone
<1> QED
  BY <1>1, <1>3, <1>4

LEMMA SumScaled ==
  ASSUME NEW S, IsFiniteSet(S), NEW f, NEW g, NEW c \in Nat,
         \A x \in S : f[x] \in Nat /\ g[x] = f[x] * c
  PROVE  SumFunctionOnSet(g, S) = SumFunctionOnSet(f, S) * c
<1> DEFINE B == {s \in SUBSET S : SumFunctionOnSet(g, s) # SumFunctionOnSet(f, s) * c}
<1> SUFFICES ASSUME B # {} PROVE FALSE
  BY DEF B
<1>1. \A s \in SUBSET S : IsFiniteSet(s) /\ SumFunctionOnSet(f, s) \in Nat
  BY FS_Subset, SumIsNat
<1>2. PICK s \in B : \A x \in s : s \ {x} \notin B
  BY <1>1, SmallestSet
<1>3. s # {}
  <2> SUFFICES ASSUME s = {} PROVE FALSE
    OBVIOUS
  <2>1. SumFunctionOnSet(f, s) = 0 /\ SumFunctionOnSet(g, s) = 0 /\ 0 * c = 0
    BY SumOfNone
  <2>2. SumFunctionOnSet(g, s) # SumFunctionOnSet(f, s) * c
    BY <1>2
  <2> QED
    BY <2>1, <2>2
<1> DEFINE z == Choice(s)
           m == SumFunctionOnSet(f, s \ {z})
           v == f[z]
<1>4. /\ z \in s /\ g[z] = f[z] * c /\ f[z] \in Nat
      /\ SumFunctionOnSet(f, s) = f[z] + SumFunctionOnSet(f, s \ {z})
      /\ SumFunctionOnSet(g, s) = g[z] + SumFunctionOnSet(g, s \ {z})
  BY <1>1, <1>3, ChoiceIs, SumUnfolds
<1> HIDE DEF z
<1>5. m \in Nat /\ v \in Nat /\ SumFunctionOnSet(g, s \ {z}) = m * c
  BY <1>1, <1>2, <1>4
<1>6. SumFunctionOnSet(f, s) = v + m /\ SumFunctionOnSet(g, s) = v * c + m * c
  BY <1>4, <1>5
<1>7. SumFunctionOnSet(g, s) # SumFunctionOnSet(f, s) * c
  BY <1>2
<1> HIDE DEF m, v
<1>8. (v + m) * c = v * c + m * c
  BY <1>5
<1> QED
  BY <1>6, <1>7, <1>8

LEMMA LeastIs ==
  ASSUME NEW S, S \subseteq Nat, S # {}
  PROVE  Min(S) \in S /\ \A y \in S : Min(S) <= y
BY LeastOf DEF Min

LEMMA GreatestIs ==
  ASSUME NEW S, S \subseteq Nat, S # {}, NEW b \in Nat, \A y \in S : y <= b
  PROVE  Max(S) \in S /\ \A y \in S : y <= Max(S)
<1> DEFINE T == {b - y : y \in S}
<1>1. T \subseteq Nat /\ T # {}
  <2>1. \A y \in S : b - y \in Nat
    OBVIOUS
  <2> QED
    BY <2>1
<1>2. PICK x \in T : \A y \in T : x <= y
  BY <1>1, LeastOf
<1>3. PICK m \in S : x = b - m
  BY <1>2
<1>4. \A y \in S : m >= y
  <2> TAKE y \in S
  <2>1. b - y \in T /\ y \in Nat /\ m \in Nat
    OBVIOUS
  <2>2. x <= b - y
    BY <1>2, <2>1
  <2> QED
    BY <1>3, <2>1, <2>2
<1>5. Max(S) \in S /\ \A y \in S : Max(S) >= y
  BY <1>4 DEF Max
<1> QED
  BY <1>5

\* Finitely many numbers are all below some number.
LEMMA HighestOf ==
  ASSUME NEW S, IsFiniteSet(S), NEW f, \A x \in S : f[x] \in Nat
  PROVE  \E b \in Nat : \A x \in S : f[x] <= b
<1> DEFINE b == SumFunctionOnSet(f, S)
<1>1. b \in Nat
  BY SumIsNat
<1>2. ASSUME NEW x \in S PROVE f[x] <= b
  <2> DEFINE r == SumFunctionOnSet(f, S \ {x})
  <2>1. IsFiniteSet(S \ {x})
    BY FS_Subset
  <2>2. r \in Nat
    BY <2>1, SumIsNat
  <2>3. b = f[x] + r
    BY SumPick
  <2> HIDE DEF b, r
  <2> QED
    BY <2>2, <2>3
<1> HIDE DEF b
<1> QED
  BY <1>1, <1>2

LEMMA Larger ==
  ASSUME NEW w \in Nat, NEW a \in Nat, NEW b \in Nat, a <= b
  PROVE  w * a \in Nat /\ w * b \in Nat /\ w * a <= w * b
OBVIOUS

(* The segments that a demand can be drawn from.                           *)
Slots(p, t) == {<<season, half>> : season \in DOMAIN weights(p, t), half \in {"night", "day"}}

Share(p, t) == [i \in Slots(p, t) |-> weights(p, t)[i[1]][i[2]]]

\* The weights of a period are the whole of it.
LEMMA SharesAreWhole ==
  ASSUME NEW p, Accepted(p), NEW t \in Nat, t > 0
  PROVE  /\ IsFiniteSet(Slots(p, t)) /\ \A i \in Slots(p, t) : Share(p, t)[i] \in Nat
         /\ SumFunctionOnSet(Share(p, t), Slots(p, t)) = Unit * Unit
<1> DEFINE w == weights(p, t)
           v == Winter(p, t)
           f == Share(p, t)
           A == {<<"summer", "night">>, <<"summer", "day">>}
           B == {<<"winter", "night">>, <<"winter", "day">>}
<1>1. Unit \in Nat /\ v \in 0 .. Unit /\ Unit - v \in 0 .. Unit
  BY WeightsAre, UnitIs
<1>2. /\ w["summer"].night \in Nat /\ w["summer"].day \in Nat
      /\ w["summer"].night + w["summer"].day = (Unit - v) * Unit
  BY <1>1, WeightsAre, AcceptedIsHourly, HalvesAre
<1>3. Seasonal(p) => /\ w["winter"].night \in Nat /\ w["winter"].day \in Nat
                     /\ w["winter"].night + w["winter"].day = v * Unit
  BY <1>1, WeightsAre, AcceptedIsHourly, HalvesAre
<1>4. Slots(p, t) = IF Seasonal(p) THEN A \cup B ELSE A
  <2>1. DOMAIN w = IF Seasonal(p) THEN {"summer", "winter"} ELSE {"summer"}
    BY WeightsAre
  <2>2. Slots(p, t) = {<<season, half>> : season \in DOMAIN w, half \in {"night", "day"}}
    BY DEF Slots
  <2> HIDE DEF w
  <2> QED
    BY <2>1, <2>2
<1>5. \A i \in Slots(p, t) : f[i] = w[i[1]][i[2]]
  BY DEF Share
<1>6. A \subseteq Slots(p, t) /\ (Seasonal(p) => B \subseteq Slots(p, t))
  BY <1>4
<1>7. /\ f[<<"summer", "night">>] = w["summer"].night
      /\ f[<<"summer", "day">>] = w["summer"].day
  BY <1>5, <1>6
<1>8. Seasonal(p) => /\ f[<<"winter", "night">>] = w["winter"].night
                     /\ f[<<"winter", "day">>] = w["winter"].day
  BY <1>5, <1>6
<1> HIDE DEF f, w
<1>9. IsFiniteSet(A) /\ SumFunctionOnSet(f, A) = (Unit - v) * Unit
  <2>1. <<"summer", "night">> # <<"summer", "day">>
    OBVIOUS
  <2>2. f[<<"summer", "night">>] \in Nat /\ f[<<"summer", "day">>] \in Nat
    BY <1>2, <1>7
  <2>3. IsFiniteSet(A) /\ SumFunctionOnSet(f, A)
                            = f[<<"summer", "night">>] + f[<<"summer", "day">>]
    BY <2>1, <2>2, SumOfTwo, Zenon
  <2> QED
    BY <1>2, <1>7, <2>3
<1>10. Seasonal(p) => IsFiniteSet(B) /\ SumFunctionOnSet(f, B) = v * Unit
  <2> SUFFICES ASSUME Seasonal(p)
               PROVE  IsFiniteSet(B) /\ SumFunctionOnSet(f, B) = v * Unit
    OBVIOUS
  <2>1. <<"winter", "night">> # <<"winter", "day">>
    OBVIOUS
  <2>2. f[<<"winter", "night">>] \in Nat /\ f[<<"winter", "day">>] \in Nat
    BY <1>3, <1>8
  <2>3. IsFiniteSet(B) /\ SumFunctionOnSet(f, B)
                            = f[<<"winter", "night">>] + f[<<"winter", "day">>]
    BY <2>1, <2>2, SumOfTwo, Zenon
  <2> QED
    BY <1>3, <1>8, <2>3
<1>11. \A i \in Slots(p, t) : f[i] \in Nat
  BY <1>2, <1>3, <1>4, <1>7, <1>8
<1>12. (Unit - v) * Unit + v * Unit = Unit * Unit
  <2> HIDE DEF v
  <2> QED
    BY <1>1
<1>13. CASE Seasonal(p)
  <2>1. IsFiniteSet(A \cup B)
    BY <1>9, <1>10, <1>13, FS_Union
  <2>2. (A \cup B) \ A = B /\ A \in SUBSET (A \cup B)
    OBVIOUS
  <2>3. \A i \in A \cup B : f[i] \in Nat
    BY <1>4, <1>11, <1>13
  <2>4. SumFunctionOnSet(f, A \cup B)
          = SumFunctionOnSet(f, A) + SumFunctionOnSet(f, (A \cup B) \ A)
    <3> HIDE DEF A, B
    <3> QED
      BY <2>1, <2>2, <2>3, SumParts
  <2>5. SumFunctionOnSet(f, A \cup B) = Unit * Unit
    <3> HIDE DEF A, B
    <3> QED
      BY <1>9, <1>10, <1>12, <1>13, <2>2, <2>4
  <2> QED
    BY <1>4, <1>11, <1>13, <2>1, <2>5 DEF f
<1>14. CASE ~ Seasonal(p)
  <2>1. v = 0
    BY <1>14 DEF Winter
  <2>2. (Unit - v) * Unit = Unit * Unit
    BY <1>1, <2>1
  <2> QED
    BY <1>4, <1>9, <1>11, <1>14, <2>2 DEF f
<1> QED
  BY <1>13, <1>14

\* What a slot draws from.
LEMMA SegmentIs ==
  ASSUME NEW p, Accepted(p), NEW t \in Nat, t > 0, NEW i \in Slots(p, t)
  PROVE  Bounded(Segment(p, i[1], i[2]))
<1>1. DOMAIN weights(p, t) = IF Seasonal(p) THEN {"summer", "winter"} ELSE {"summer"}
  BY WeightsAre
<1>2. PICK season \in DOMAIN weights(p, t), half \in {"night", "day"} : i = <<season, half>>
  BY DEF Slots
<1>3. /\ p.summer["day"] = p.summer.day /\ p.summer["night"] = p.summer.night
      /\ p.seasons.winter["day"] = p.seasons.winter.day
      /\ p.seasons.winter["night"] = p.seasons.winter.night
  OBVIOUS
<1>4. i[1] = season /\ i[2] = half
  BY <1>2
<1>5. CASE season = "summer"
  <2>1. Segment(p, i[1], i[2]) = p.summer[half]
    BY <1>4, <1>5 DEF Segment
  <2> QED
    BY <1>3, <2>1 DEF Accepted
<1>6. CASE season # "summer"
  <2>1. Segment(p, i[1], i[2]) = p.seasons.winter[half] /\ Seasonal(p)
    BY <1>1, <1>4, <1>6 DEF Segment
  <2> QED
    BY <1>3, <2>1 DEF Accepted
<1> QED
  BY <1>5, <1>6

\* Weighted values, slot by slot.
LEMMA MixedIs ==
  ASSUME NEW p, NEW t, NEW value
  PROVE  LET A == DOMAIN value
             g == [i \in A |-> weights(p, t)[i[1]][i[2]] * value[i]]
         IN  Mixed(p, t, value) = SumFunctionOnSet(g, A)
BY DEF Mixed, SumFunction

LEMMA RoundedIs ==
  ASSUME NEW x \in Nat
  PROVE  Rounded(x) \in Int
<1> DEFINE one == Rounding * Unit * Unit
           y == 2 * x + one
           d == 2 * one
<1>1. Rounding \in Nat /\ Rounding > 0 /\ Unit \in Nat /\ Unit > 0
  BY ShapeAssumption, UnitIs
<1>2. one \in Nat /\ one > 0
  <2>1. Rounding * Unit \in Nat /\ Rounding * Unit > 0
    BY <1>1
  <2> DEFINE r == Rounding * Unit
  <2> HIDE DEF r
  <2>2. r \in Nat /\ r > 0
    BY <2>1 DEF r
  <2>3. r * Unit \in Nat /\ r * Unit > 0
    BY <1>1, <2>2
  <2> QED
    BY <2>3 DEF r
<1>3. Rounded(x) = (y \div d) * one
  BY DEF Rounded
<1> HIDE DEF one
<1>4. y \in Nat /\ d \in Nat /\ d > 0
  BY <1>2
<1> HIDE DEF y, d
<1>5. y \div d \in Int
  BY <1>4
<1> DEFINE q == y \div d
<1>6. q \in Int
  BY <1>5
<1> HIDE DEF q
<1>7. q * one \in Int
  BY <1>2, <1>6
<1> QED
  BY <1>3, <1>7 DEF q

\* Every demand of an accepted profile is positive and between the bounds of
\* the segments of its period.
LEMMA DemandIsBetween ==
  ASSUME NEW p, Accepted(p), NEW t \in Nat, t > 0, NEW draw \in Draws(p, t)
  PROVE  LET x   == PeriodDemand(p, t, draw)
             all == {Segment(p, i[1], i[2]) : i \in DOMAIN draw}
         IN  /\ x > 0
             /\ x >= Unit * Unit * Min({g.min : g \in all})
             /\ x <= Unit * Unit * Max({g.max : g \in all})
<1> DEFINE A == Active(p, t)
           S == Slots(p, t)
           f == Share(p, t)
           Seg(i) == Segment(p, i[1], i[2])
           all == {Seg(i) : i \in A}
           mins == {g.min : g \in all}
           maxs == {g.max : g \in all}
           c == Min(mins)
           d == Max(maxs)
           UU == Unit * Unit
           low == [i \in A |-> Seg(i).min]
           high == [i \in A |-> Seg(i).max]
           gl == [i \in A |-> weights(p, t)[i[1]][i[2]] * low[i]]
           gd == [i \in A |-> weights(p, t)[i[1]][i[2]] * draw[i]]
           gh == [i \in A |-> weights(p, t)[i[1]][i[2]] * high[i]]
           gc == [i \in A |-> f[i] * c]
           ge == [i \in A |-> f[i] * d]
           L == SumFunctionOnSet(gl, A)
           M == SumFunctionOnSet(gd, A)
           R == SumFunctionOnSet(gh, A)
<1>1. Unit \in Nat /\ Unit > 0 /\ UU \in Nat /\ UU > 0
  BY UnitIs
<1>2. A \subseteq S /\ \A i \in S : f[i] = weights(p, t)[i[1]][i[2]]
  BY DEF Active, Slots, Share
<1>3. /\ IsFiniteSet(S) /\ \A i \in S : f[i] \in Nat
      /\ SumFunctionOnSet(f, S) = UU
  BY SharesAreWhole
<1>4. \A i \in S \ A : f[i] = 0
  <2> TAKE i \in S \ A
  <2>1. ~ (f[i] > 0)
    BY <1>2 DEF Active, Slots
  <2>2. f[i] \in Nat
    BY <1>3
  <2> QED
    BY <2>1, <2>2
<1>5. IsFiniteSet(A) /\ SumFunctionOnSet(f, A) = UU
  <2>1. IsFiniteSet(A)
    BY <1>2, <1>3, FS_Subset
  <2>2. SumFunctionOnSet(f, S) = SumFunctionOnSet(f, A)
    <3> HIDE DEF S, A, f
    <3> QED
      BY <1>2, <1>3, <1>4, SumNarrow
  <2> QED
    BY <1>3, <2>1, <2>2
<1>6. A # {}
  <2> SUFFICES ASSUME A = {} PROVE FALSE
    OBVIOUS
  <2> HIDE DEF A, f, UU
  <2>1. SumFunctionOnSet(f, A) = 0
    BY SumOfNone
  <2> QED
    BY <1>1, <1>5, <2>1
<1>7. /\ DOMAIN draw = A
      /\ \A i \in A : draw[i] \in Seg(i).min .. Seg(i).max
  BY DEF Draws
<1>8. \A i \in A : /\ Seg(i).min \in Nat /\ Seg(i).min > 0 /\ Seg(i).max \in Nat
                   /\ Seg(i).max > Seg(i).min
  <2> TAKE i \in A
  <2>1. i \in S
    BY <1>2
  <2>2. Bounded(Seg(i))
    BY <2>1, SegmentIs
  <2> QED
    BY <2>2 DEF Bounded, ValidSegment
<1>9. \A i \in A : /\ low[i] = Seg(i).min /\ high[i] = Seg(i).max
                   /\ low[i] \in Nat /\ high[i] \in Nat /\ draw[i] \in Nat
                   /\ low[i] <= draw[i] /\ draw[i] <= high[i]
  <2> TAKE i \in A
  <2>1. low[i] = Seg(i).min /\ high[i] = Seg(i).max
    OBVIOUS
  <2> HIDE DEF low, high, Seg, A
  <2> QED
    BY <1>7, <1>8, <2>1
<1>10. c \in Nat /\ c > 0 /\ \A i \in A : c <= low[i]
  <2>1. \A m \in mins : \E i \in A : m = Seg(i).min
    OBVIOUS
  <2>2. \A i \in A : Seg(i).min \in mins
    OBVIOUS
  <2> HIDE DEF mins, Seg, low, A
  <2>3. mins \subseteq Nat /\ mins # {}
    BY <1>6, <1>8, <2>1, <2>2
  <2>4. c \in mins /\ \A m \in mins : c <= m
    BY <2>3, LeastIs
  <2> HIDE DEF c
  <2> QED
    BY <1>8, <1>9, <2>1, <2>2, <2>4
<1>11. d \in Nat /\ \A i \in A : high[i] <= d
  <2>1. \A m \in maxs : \E i \in A : m = Seg(i).max
    OBVIOUS
  <2>2. \A i \in A : Seg(i).max \in maxs
    OBVIOUS
  <2>3. \E b \in Nat : \A i \in A : high[i] <= b
    <3>1. \A i \in A : high[i] \in Nat
      BY <1>9
    <3> HIDE DEF high, A
    <3> QED
      BY <1>5, <3>1, HighestOf
  <2> HIDE DEF maxs, Seg, high, A
  <2>4. maxs \subseteq Nat /\ maxs # {}
    BY <1>6, <1>8, <2>1, <2>2
  <2>5. PICK b \in Nat : \A m \in maxs : m <= b
    BY <1>9, <2>1, <2>3
  <2>6. d \in maxs /\ \A m \in maxs : m <= d
    BY <2>4, <2>5, GreatestIs
  <2> HIDE DEF d
  <2> QED
    BY <1>8, <1>9, <2>1, <2>2, <2>6
<1>12. \A i \in A : /\ gl[i] = f[i] * low[i] /\ gd[i] = f[i] * draw[i]
                    /\ gh[i] = f[i] * high[i] /\ gc[i] = f[i] * c /\ ge[i] = f[i] * d
                    /\ f[i] \in Nat
  <2> TAKE i \in A
  <2>1. f[i] = weights(p, t)[i[1]][i[2]] /\ f[i] \in Nat
    BY <1>2, <1>3
  <2> HIDE DEF f, low, high, c, d
  <2> QED
    BY <2>1
<1> HIDE DEF A, S, f, Seg, all, mins, maxs, c, d, low, high, gl, gd, gh, gc, ge
<1>13. \A i \in A : /\ gc[i] \in Nat /\ gl[i] \in Nat /\ gd[i] \in Nat /\ gh[i] \in Nat
                    /\ ge[i] \in Nat
                    /\ gc[i] <= gl[i] /\ gl[i] <= gd[i] /\ gd[i] <= gh[i] /\ gh[i] <= ge[i]
  <2> TAKE i \in A
  <2> DEFINE w == f[i]
             l == low[i]
             v == draw[i]
             h == high[i]
  <2>1. /\ w \in Nat /\ l \in Nat /\ v \in Nat /\ h \in Nat /\ c \in Nat /\ d \in Nat
        /\ c <= l /\ l <= v /\ v <= h /\ h <= d
    BY <1>9, <1>10, <1>11, <1>12
  <2>2. /\ gc[i] = w * c /\ gl[i] = w * l /\ gd[i] = w * v /\ gh[i] = w * h /\ ge[i] = w * d
    BY <1>12
  <2> HIDE DEF w, l, v, h
  <2>3. /\ w * c \in Nat /\ w * l \in Nat /\ w * v \in Nat /\ w * h \in Nat /\ w * d \in Nat
        /\ w * c <= w * l /\ w * l <= w * v /\ w * v <= w * h /\ w * h <= w * d
    BY <2>1, Larger
  <2> QED
    BY <2>2, <2>3
<1>14. /\ SumFunctionOnSet(gc, A) = UU * c /\ SumFunctionOnSet(ge, A) = UU * d
       /\ L \in Nat /\ M \in Nat /\ R \in Nat
       /\ SumFunctionOnSet(gc, A) <= L /\ L <= M /\ M <= R
       /\ R <= SumFunctionOnSet(ge, A)
  <2>1. SumFunctionOnSet(gc, A) = UU * c
    BY <1>5, <1>10, <1>12, SumScaled
  <2>2. SumFunctionOnSet(ge, A) = UU * d
    BY <1>5, <1>11, <1>12, SumScaled
  <2>3. L \in Nat /\ M \in Nat /\ R \in Nat
    BY <1>5, <1>13, SumIsNat
  <2>4. SumFunctionOnSet(gc, A) <= L
    BY <1>5, <1>13, SumLeq
  <2>5. L <= M
    BY <1>5, <1>13, SumLeq
  <2>6. M <= R
    BY <1>5, <1>13, SumLeq
  <2>7. R <= SumFunctionOnSet(ge, A)
    BY <1>5, <1>13, SumLeq
  <2> QED
    BY <2>1, <2>2, <2>3, <2>4, <2>5, <2>6, <2>7
<1>15. PeriodDemand(p, t, draw) = Min({Max({Rounded(M), L}), R})
  <2>1. Mixed(p, t, draw) = M
    BY <1>7, MixedIs DEF gd
  <2>2. Mixed(p, t, low) = L
    <3>1. DOMAIN low = A
      BY DEF low
    <3> QED
      BY <3>1, MixedIs DEF gl
  <2>3. Mixed(p, t, high) = R
    <3>1. DOMAIN high = A
      BY DEF high
    <3> QED
      BY <3>1, MixedIs DEF gh
  <2>4. /\ low = [i \in DOMAIN draw |-> Segment(p, i[1], i[2]).min]
        /\ high = [i \in DOMAIN draw |-> Segment(p, i[1], i[2]).max]
    BY <1>7 DEF low, high, Seg
  <2>5. PeriodDemand(p, t, draw)
          = Min({Max({Rounded(Mixed(p, t, draw)), Mixed(p, t, low)}), Mixed(p, t, high)})
    BY <2>4 DEF PeriodDemand
  <2> QED
    BY <2>1, <2>2, <2>3, <2>5
<1> DEFINE x == PeriodDemand(p, t, draw)
           r == Rounded(M)
           k == Max({r, L})
<1>16. r \in Int
  BY <1>14, RoundedIs
<1>17. x = Min({k, R})
  BY <1>15
<1> HIDE DEF L, M, R, r, x
<1>18. r \in Int /\ L \in Int /\ R \in Int
  BY <1>14, <1>16
<1>19. k \in Int /\ k >= L
  <2>1. k = IF r <= L THEN L ELSE r
    BY <1>18, MinMaxIs
  <2> QED
    BY <1>18, <2>1
<1> HIDE DEF k
<1>22. x = IF k <= R THEN k ELSE R
  BY <1>17, <1>18, <1>19, MinMaxIs
<1>20. UU * c > 0 /\ UU * c \in Nat /\ UU * d \in Nat
  BY <1>1, <1>10, <1>11
<1> HIDE DEF UU
<1>21. x > 0 /\ x >= UU * c /\ x <= UU * d
  BY <1>14, <1>18, <1>19, <1>20, <1>22
<1> QED
  BY <1>7, <1>21 DEF x, UU, c, d, mins, maxs, all, Seg

\* What the inputs of a behaviour are.
LEMMA ProfilesAreAccepted ==
  ASSUME NEW p \in Profiles
  PROVE  Accepted(p)
<1>1. ASSUME NEW s \in ProfileShapes
      PROVE  Bounded(s.day) /\ Bounded(s.night)
  <2> DEFINE G == [min : {1}, max : {2, 7}, distribution : {"UNIFORM"}]
  <2>1. s \in Shapes({0, 5}, G)
    BY DEF ProfileShapes
  <2>2. s.day \in G /\ s.night \in G /\ ValidShape(s)
    BY <2>1 DEF Shapes
  <2>3. \A g \in G : g.min \in Nat /\ g.max \in Nat
    OBVIOUS
  <2>4. ValidSegment(s.day) /\ ValidSegment(s.night)
    BY <2>2 DEF ValidShape
  <2> QED
    BY <2>2, <2>3, <2>4 DEF Bounded
<1>2. ValidProfile(p)
  BY DEF Profiles
<1>3. CASE p \in [summer : ProfileShapes]
  <2>1. p.summer \in ProfileShapes /\ ~ Seasonal(p)
    BY <1>3 DEF Seasonal
  <2> QED
    BY <1>1, <1>2, <2>1 DEF Accepted
<1>4. CASE \E s \in ProfileShapes, d \in {0, 2}, w \in ProfileShapes :
              p = [summer |-> s, seasons |-> [summer_end_period |-> 30,
                                             transition_days |-> d, winter |-> w]]
  <2>1. p.summer \in ProfileShapes /\ p.seasons.winter \in ProfileShapes
    BY <1>4
  <2> QED
    BY <1>1, <1>2, <2>1 DEF Accepted
<1> QED
  BY <1>3, <1>4 DEF Profiles

LEMMA InputsAre ==
  ASSUME NEW i \in {Library} \cup ShapeInputs
  PROVE  /\ i.kind = "shape" => Hourly(i.shape)
         /\ i.kind = "seasons" => ValidSeasons(i.seasons)
         /\ i.kind = "profile" => Accepted(i.profile) /\ i.t \in Nat /\ i.t > 0
<1>1. CASE i = Library
  BY <1>1 DEF Library
<1>2. CASE i \in [kind : {"shape"}, shape : Shapes(0 .. MAX_RAMP_HOURS, {AnySegment})]
  <2>1. i.kind = "shape" /\ i.shape \in Shapes(0 .. MAX_RAMP_HOURS, {AnySegment})
    BY <1>2
  <2>2. ValidShape(i.shape)
    BY <2>1 DEF Shapes
  <2> QED
    BY <2>1, <2>2 DEF ValidShape, Hourly
<1>3. CASE i \in [kind : {"seasons"}, seasons : Seasons]
  <2>1. i.kind = "seasons" /\ i.seasons \in Seasons
    BY <1>3
  <2> QED
    BY <2>1 DEF Seasons
<1>4. CASE i \in [kind : {"profile"}, profile : Profiles,
                  t : {1, 6, 12, 20, 21, 28, 31, 35, 60}]
  <2>1. i.kind = "profile" /\ i.profile \in Profiles /\ i.t \in Nat /\ i.t > 0
    BY <1>4
  <2> QED
    BY <2>1, ProfilesAreAccepted
<1> QED
  BY <1>1, <1>2, <1>3, <1>4 DEF ShapeInputs

\* The demand of a profile is right, whatever is accepted.  Over a day the
\* transitions give the night what they take from the day, the hours next to a
\* boundary stay on their side, the change of season takes as much from summer as
\* it gives to winter, the mask of a preview shades the hours that are mostly
\* night, and every draw of every period is a positive demand between the bounds
\* of the segments that are active in it, however it is mixed and rounded: for any
\* number of hours, any width of the transitions, any sine that rises and is the
\* same up and down, and any rounding (day_weight, winter_weight, night_mask,
\* MixtureProfile.demand, validate_horizon).
THEOREM DrawsAreRight == MCSpec => []DrawsAreUsable
<1> DEFINE Given == input \in {Library} \cup ShapeInputs
<1>1. MCSpec => []Given
  <2>1. MCInit => Given
    BY DEF MCInit
  <2>2. Given /\ [MCNext]_<<vars, input>> => Given'
    <3>1. [MCNext]_<<vars, input>> => input' = input
      BY DEF MCNext
    <3>2. Given /\ input' = input => Given'
      BY DEF ShapeInputs, Profiles, ProfileShapes, Shapes, Seasons, Library, AnySegment
    <3> QED
      BY <3>1, <3>2
  <2> QED
    BY <2>1, <2>2, PTL DEF MCSpec
<1>2. Given => DrawsAreUsable
  <2> SUFFICES ASSUME Given PROVE DrawsAreUsable
    OBVIOUS
  <2>1. CASE input.kind = "shape"
    <3>1. Hourly(input.shape)
      BY <2>1, InputsAre
    <3>2. \A h \in Hours : (2 * day_weight(input.shape, h) > Unit) = InDay(input.shape, h)
      <4> TAKE h \in Hours
      <4>1. day_weight(input.shape, h) \in 0 .. Unit /\ Unit \in Nat
        BY <3>1, DayWeightIs, UnitIs
      <4>2. /\ InDay(input.shape, h) => 2 * day_weight(input.shape, h) > Unit
            /\ ~ InDay(input.shape, h) => 2 * day_weight(input.shape, h) < Unit
        BY <3>1, DayWeightIs
      <4> DEFINE q == day_weight(input.shape, h)
      <4>3. 2 * q < Unit => ~ (2 * q > Unit)
        <5> HIDE DEF q
        <5> QED
          BY <4>1 DEF q
      <4>4. CASE InDay(input.shape, h)
        <5>1. InDay(input.shape, h) = TRUE
          BY <4>4 DEF InDay
        <5>2. (2 * q > Unit) = TRUE
          BY <4>2, <4>4
        <5> QED
          BY <5>1, <5>2
      <4>5. CASE ~ InDay(input.shape, h)
        <5>1. InDay(input.shape, h) = FALSE
          BY <4>5 DEF InDay
        <5>2. (2 * q > Unit) = FALSE
          BY <4>2, <4>3, <4>5
        <5> QED
          BY <5>1, <5>2
      <4> QED
        BY <4>4, <4>5
    <3> QED
      BY <2>1, <3>1, <3>2, DayIsKept
         DEF DrawsAreUsable, TransitionsKeepTheDay, DemandIsUsable
  <2>2. CASE input.kind = "seasons"
    <3>1. ValidSeasons(input.seasons)
      BY <2>2, InputsAre
    <3> QED
      BY <2>2, <3>1, SeasonIsKept
         DEF DrawsAreUsable, TransitionsKeepTheDay, DemandIsUsable
  <2>3. CASE input.kind = "profile"
    <3>1. Accepted(input.profile) /\ input.t \in Nat /\ input.t > 0
      BY <2>3, InputsAre
    <3>2. TransitionsKeepTheDay
      BY <2>3, <3>1, MaskIsRight DEF TransitionsKeepTheDay
    <3>3. DemandIsUsable
      BY <3>1, DemandIsBetween DEF DemandIsUsable, Usable
    <3> QED
      BY <3>2, <3>3 DEF DrawsAreUsable
  <2>4. CASE input.kind \notin {"shape", "seasons", "profile"}
    BY <2>4 DEF DrawsAreUsable, TransitionsKeepTheDay, DemandIsUsable
  <2> QED
    BY <2>1, <2>2, <2>3, <2>4
<1> QED
  BY <1>1, <1>2, PTL
=============================================================================

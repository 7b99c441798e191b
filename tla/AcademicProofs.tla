--------------------------- MODULE AcademicProofs ---------------------------
(***************************************************************************)
(* The academic offices for any number of programmes, courses, students,   *)
(* rooms and overlapping requests, and for every behaviour: TLC stops at   *)
(* the first save on a stale read, the proofs go on past it.  One argument *)
(* recurs.  A request that is not stale still knows the row it has read,   *)
(* because every save marks the other requests on its row; so a save       *)
(* either acts on the row as it is or is recorded as raced.                *)
(***************************************************************************)
EXTENDS Academic, FiniteSums, TLAPS

----------------------------------------------------------------------------
(* Prerequisites.                                                          *)

\* One round of the walk, and the walk itself.
Upwards(graph, known) == known \cup {r \in Courses : \E k \in known : <<k, r>> \in graph}
IsWalk(seen, graph, required, n) ==
    seen = [i \in 0..n |-> IF i = 0 THEN {required} ELSE Upwards(graph, seen[i - 1])]

Closed(graph, known) == \A k \in known, r \in Courses : <<k, r>> \in graph => r \in known

\* The walk is a function: it can be made longer by one round at a time.
LEMMA WalkExists ==
    ASSUME NEW graph, NEW required, NEW n \in Nat
    PROVE  \E seen : IsWalk(seen, graph, required, n)
  <1> SUFFICES ASSUME ~ \E seen : IsWalk(seen, graph, required, n) PROVE FALSE
    OBVIOUS
  <1>1. PICK T : T = {m \in Nat : ~ \E seen : IsWalk(seen, graph, required, m)}
    OBVIOUS
  <1>2. PICK m \in T : \A k \in T : m <= k
    <2>1. T \in SUBSET Nat /\ T # {}
      BY <1>1
    <2> QED BY <2>1, LeastNumber
  <1>3. m \in Nat /\ ~ \E seen : IsWalk(seen, graph, required, m)
    BY <1>1, <1>2
  <1>4. CASE m = 0
    <2>1. PICK s : s = [i \in 0..0 |-> {required}]
      OBVIOUS
    <2>2. s = [i \in 0..0 |-> IF i = 0 THEN {required} ELSE Upwards(graph, s[i - 1])]
      BY <2>1
    <2> QED BY <1>3, <1>4, <2>2 DEF IsWalk
  <1>5. CASE m # 0
    <2>1. m - 1 \in Nat /\ m - 1 \notin T
      BY <1>2, <1>3, <1>5
    <2>2. PICK s : IsWalk(s, graph, required, m - 1)
      BY <1>1, <2>1
    <2>3. \A i \in 0..(m - 1) : s[i] = IF i = 0 THEN {required} ELSE Upwards(graph, s[i - 1])
      BY <2>2 DEF IsWalk
    <2>4. PICK w : w = [i \in 0..m |-> IF i = m THEN Upwards(graph, s[m - 1]) ELSE s[i]]
      OBVIOUS
    <2>5. \A i \in 0..m : w[i] = IF i = m THEN Upwards(graph, s[m - 1]) ELSE s[i]
      BY <2>4
    <2>6. \A i \in 0..m : w[i] = IF i = 0 THEN {required} ELSE Upwards(graph, w[i - 1])
      <3> SUFFICES ASSUME NEW i \in 0..m
                   PROVE  w[i] = IF i = 0 THEN {required} ELSE Upwards(graph, w[i - 1])
        OBVIOUS
      <3>1. CASE i = m
        <4>1. m - 1 \in 0..m /\ m - 1 # m
          BY <1>3, <1>5
        <4>2. w[m] = Upwards(graph, s[m - 1]) /\ w[m - 1] = s[m - 1]
          BY <1>3, <2>5, <4>1
        <4> QED BY <1>5, <3>1, <4>2
      <3>2. CASE i # m
        <4>1. i \in 0..(m - 1) /\ (i # 0 => i - 1 \in 0..m /\ i - 1 # m)
          BY <1>3, <3>2
        <4>2. w[i] = s[i] /\ (i # 0 => w[i - 1] = s[i - 1])
          BY <2>5, <3>2, <4>1
        <4> QED BY <2>3, <4>1, <4>2
      <3> QED BY <3>1, <3>2
    <2>7. w = [i \in 0..m |-> IF i = 0 THEN {required} ELSE Upwards(graph, w[i - 1])]
      BY <2>4, <2>6
    <2> QED BY <1>3, <2>7 DEF IsWalk
  <1> QED BY <1>4, <1>5

\* Every round finds a new course or none is left to find.
LEMMA WalkGrows ==
    ASSUME NEW graph, NEW required \in Courses, NEW n \in Nat,
           NEW seen, IsWalk(seen, graph, required, n), NEW i \in 0..n
    PROVE  /\ seen[i] \in SUBSET Courses /\ required \in seen[i]
           /\ Closed(graph, seen[i]) \/ Cardinality(seen[i]) >= i + 1
  <1>0. \A j \in 0..n : seen[j] = IF j = 0 THEN {required} ELSE Upwards(graph, seen[j - 1])
    BY DEF IsWalk
  <1> DEFINE P(j) == /\ seen[j] \in SUBSET Courses /\ required \in seen[j]
                     /\ Closed(graph, seen[j]) \/ Cardinality(seen[j]) >= j + 1
  <1> SUFFICES ASSUME ~P(i) PROVE FALSE
    OBVIOUS
  <1>1. PICK T : T = {j \in 0..n : ~P(j)}
    OBVIOUS
  <1>2. PICK m \in T : \A k \in T : m <= k
    <2>1. T \in SUBSET Nat /\ T # {}
      BY <1>1
    <2> QED BY <2>1, LeastNumber
  <1>3. m \in 0..n /\ ~P(m)
    BY <1>1, <1>2
  <1>4. CASE m = 0
    <2>1. seen[0] = {required}
      BY <1>0, <1>3, <1>4
    <2>2. Cardinality({required}) = 1
      BY FS_Singleton
    <2> QED BY <1>3, <1>4, <2>1, <2>2
  <1>5. CASE m # 0
    <2>1. m - 1 \in 0..n /\ m - 1 \notin T
      BY <1>2, <1>3, <1>5
    <2>2. P(m - 1)
      BY <1>1, <2>1
    <2>3. PICK old : old = seen[m - 1]
      OBVIOUS
    <2>4. seen[m] = Upwards(graph, old)
      BY <1>0, <1>3, <1>5, <2>3
    <2>5. PICK new : new = seen[m]
      OBVIOUS
    <2>6. /\ old \in SUBSET Courses /\ required \in old
          /\ Closed(graph, old) \/ Cardinality(old) >= m
      BY <1>3, <2>2, <2>3
    <2>7. new \in SUBSET Courses /\ required \in new /\ old \subseteq new
      BY <2>4, <2>5, <2>6 DEF Upwards
    <2>8. CASE Closed(graph, old)
      <3>1. new = old
        BY <2>4, <2>5, <2>7, <2>8 DEF Upwards, Closed
      <3> QED BY <1>3, <2>5, <2>7, <2>8, <3>1
    <2>9. CASE ~Closed(graph, old) /\ Cardinality(old) >= m
      <3>1. PICK r \in Courses : r \notin old /\ r \in new
        BY <2>4, <2>5, <2>9 DEF Upwards, Closed
      <3>2. IsFiniteSet(old) /\ IsFiniteSet(new)
        BY <2>6, <2>7, FS_Subset, CoursesAssumption
      <3>3. Cardinality(old \cup {r}) = Cardinality(old) + 1 /\ IsFiniteSet(old \cup {r})
        BY <3>1, <3>2, FS_AddElement
      <3>4. Cardinality(old \cup {r}) <= Cardinality(new)
        BY <2>7, <3>1, <3>2, FS_Subset
      <3>5. Cardinality(old) \in Nat /\ Cardinality(new) \in Nat
        BY <3>2, FS_CardinalityType
      <3>6. Cardinality(new) >= m + 1
        BY <1>3, <2>9, <3>3, <3>4, <3>5
      <3> QED BY <1>3, <2>5, <2>7, <3>6
    <2> QED BY <2>6, <2>8, <2>9
  <1> QED BY <1>4, <1>5

\* A link that creates no cycle: the courses its requirement waits for, directly or
\* not, are a set the course itself is not in.
LEMMA WalkSeparates ==
    ASSUME NEW graph, NEW course, NEW required \in Courses, ~CreatesCycle(graph, course, required)
    PROVE  \E known \in SUBSET Courses : required \in known /\ course \notin known /\ Closed(graph, known)
  <1>1. PICK n : n = Cardinality(Courses)
    OBVIOUS
  <1>2. n \in Nat
    BY <1>1, FS_CardinalityType, CoursesAssumption
  <1>3. PICK seen : seen = CHOOSE s : IsWalk(s, graph, required, n)
    OBVIOUS
  <1>4. IsWalk(seen, graph, required, n)
    BY <1>2, <1>3, WalkExists
  <1>5. course \notin seen[n]
    <2>1. CreatesCycle(graph, course, required) = (course \in seen[n])
      BY <1>1, <1>3, Zenon DEF CreatesCycle, IsWalk, Upwards
    <2> QED BY <2>1
  <1>6. /\ seen[n] \in SUBSET Courses /\ required \in seen[n]
        /\ Closed(graph, seen[n]) \/ Cardinality(seen[n]) >= n + 1
    <2>1. n \in 0..n
      BY <1>2
    <2> QED BY <1>2, <1>4, <2>1, WalkGrows
  <1>7. Cardinality(seen[n]) <= n /\ Cardinality(seen[n]) \in Nat
    BY <1>1, <1>6, FS_Subset, FS_CardinalityType, CoursesAssumption
  <1> QED BY <1>2, <1>5, <1>6, <1>7

Acyclic(graph) == \A S \in (SUBSET Courses) \ {{}} : \E c \in S : \A r \in S : <<c, r>> \notin graph

\* Adding a link from outside a closed set into it keeps the graph free of cycles: a
\* group that meets the closed set has a course to begin with there, and a group that
\* does not is not touched by the link.
LEMMA LinkIntoClosedSet ==
    ASSUME NEW graph, NEW course, NEW required, NEW known \in SUBSET Courses,
           Acyclic(graph), required \in known, course \notin known, Closed(graph, known)
    PROVE  Acyclic(graph \cup {<<course, required>>})
  <1> SUFFICES ASSUME NEW S \in (SUBSET Courses) \ {{}}
               PROVE  \E c \in S : \A r \in S : <<c, r>> \notin graph \cup {<<course, required>>}
    BY DEF Acyclic
  <1>1. CASE S \cap known = {}
    <2>1. PICK c \in S : \A r \in S : <<c, r>> \notin graph
      BY DEF Acyclic
    <2> QED BY <1>1, <2>1
  <1>2. CASE S \cap known # {}
    <2>1. PICK T : T = S \cap known
      OBVIOUS
    <2>2. PICK c \in T : \A r \in T : <<c, r>> \notin graph
      BY <1>2, <2>1 DEF Acyclic
    <2>3. \A r \in S : <<c, r>> \in graph => r \in T
      BY <2>1, <2>2 DEF Closed
    <2> QED BY <2>1, <2>2, <2>3
  <1> QED BY <1>1, <1>2

\* A graph with fewer links has no new cycle, and what was closed stays closed.
LEMMA FewerLinks ==
    ASSUME NEW graph, NEW fewer \in SUBSET graph
    PROVE  /\ Acyclic(graph) => Acyclic(fewer)
           /\ \A known : Closed(graph, known) => Closed(fewer, known)
  BY DEF Acyclic, Closed

\* A link that has been checked and not overtaken still leads from outside a closed
\* set into it.
LinkType == Courses \X Courses
EditType == [add : LinkType, old : LinkType \cup {NoLink}, stale : BOOLEAN]

MayAdd(graph, course, required) ==
    \E known \in SUBSET Courses : required \in known /\ course \notin known /\ Closed(graph, known)

CurriculumInv ==
    /\ links \in SUBSET LinkType
    /\ version \in [Versions -> VersionStatus]
    /\ linksRaced \in BOOLEAN
    /\ edit \in [Editors -> EditType \cup {NoEdit}]
    /\ \A e \in Editors : edit[e] # NoEdit /\ ~edit[e].stale =>
          MayAdd(links \ {edit[e].old}, edit[e].add[1], edit[e].add[2])
    /\ linksRaced \/ Acyclic(links)

\* Every step on the prerequisite graph and the versions.
LEMMA CurriculumStep == CurriculumInv /\ [CurriculumNext]_curriculumVars => CurriculumInv'
  <1> SUFFICES ASSUME CurriculumInv, [CurriculumNext]_curriculumVars PROVE CurriculumInv'
    OBVIOUS
  <1>0. /\ links \in SUBSET LinkType /\ edit \in [Editors -> EditType \cup {NoEdit}]
        /\ linksRaced \in BOOLEAN /\ version \in [Versions -> VersionStatus]
    BY DEF CurriculumInv
  <1>1. ASSUME NEW e \in Editors, NEW c \in Courses, NEW r \in Courses,
               NEW old \in links \cup {NoLink}, ValidateLink(e, c, r, old)
        PROVE  CurriculumInv'
    <2>1. PICK new : new = [add |-> <<c, r>>, old |-> old, stale |-> FALSE]
      OBVIOUS
    <2>2. new \in EditType /\ new.add[1] = c /\ new.add[2] = r /\ new.old = old
      BY <1>0, <2>1 DEF EditType, LinkType
    <2>3. MayAdd(links \ {old}, c, r)
      BY <1>1, WalkSeparates DEF ValidateLink, MayAdd
    <2>4. edit' = [edit EXCEPT ![e] = new] /\ UNCHANGED <<links, version, linksRaced>>
      BY <1>1, <2>1 DEF ValidateLink
    <2>5. edit' \in [Editors -> EditType \cup {NoEdit}]
      BY <1>0, <2>2, <2>4
    <2>6. \A d \in Editors : edit'[d] = IF d = e THEN new ELSE edit[d]
      BY <1>0, <2>4
    <2>7. \A d \in Editors : edit'[d] # NoEdit /\ ~edit'[d].stale =>
             MayAdd(links \ {edit'[d].old}, edit'[d].add[1], edit'[d].add[2])
      BY <2>2, <2>3, <2>6 DEF CurriculumInv
    <2> QED BY <2>4, <2>5, <2>7 DEF CurriculumInv, MayAdd, Acyclic, Closed
  <1>2. ASSUME NEW e \in Editors, SaveLink(e) PROVE CurriculumInv'
    <2>1. edit[e] \in EditType
      BY <1>0, <1>2 DEF SaveLink
    <2>2. PICK c \in Courses, r \in Courses : edit[e].add = <<c, r>>
      BY <2>1 DEF EditType, LinkType
    <2>3. PICK graph : graph = links \ {edit[e].old}
      OBVIOUS
    <2>4. links' = graph \cup {<<c, r>>} /\ linksRaced' = (linksRaced \/ edit[e].stale) /\ version' = version
      BY <1>2, <2>2, <2>3 DEF SaveLink
    <2>5. links' \in SUBSET LinkType /\ linksRaced' \in BOOLEAN
      BY <1>0, <2>1, <2>3, <2>4 DEF EditType, LinkType
    <2>6. linksRaced' \/ Acyclic(links')
      <3> SUFFICES ASSUME ~linksRaced, ~edit[e].stale PROVE Acyclic(links')
        BY <2>4
      <3>1. Acyclic(graph)
        BY <2>3, FewerLinks DEF CurriculumInv
      <3>2. edit[e] # NoEdit /\ edit[e].add[1] = c /\ edit[e].add[2] = r
        BY <1>2, <2>2 DEF SaveLink
      <3>3. MayAdd(graph, c, r)
        BY <2>3, <3>2 DEF CurriculumInv
      <3>4. Acyclic(graph \cup {<<c, r>>})
        BY <3>1, <3>3, LinkIntoClosedSet DEF MayAdd
      <3> QED BY <2>4, <3>4
    <2>7. /\ edit' \in [Editors -> EditType \cup {NoEdit}]
          /\ \A d \in Editors : edit'[d] = NoEdit \/ edit'[d].stale
      <3>1. \A d \in Editors : edit[d] # NoEdit =>
               [edit[d] EXCEPT !.stale = TRUE] \in EditType /\ [edit[d] EXCEPT !.stale = TRUE].stale
        BY <1>0 DEF EditType
      <3>2. edit' = [d \in Editors |-> IF d = e \/ edit[d] = NoEdit THEN NoEdit
                                       ELSE [edit[d] EXCEPT !.stale = TRUE]]
        BY <1>2 DEF SaveLink
      <3> QED BY <3>1, <3>2
    <2> QED BY <1>0, <2>4, <2>5, <2>6, <2>7 DEF CurriculumInv, Acyclic
  <1>3. ASSUME NEW e \in Editors, RefuseLink(e) PROVE CurriculumInv'
    <2>1. /\ edit' \in [Editors -> EditType \cup {NoEdit}]
          /\ \A d \in Editors : edit'[d] = NoEdit \/ edit'[d] = edit[d]
          /\ UNCHANGED <<links, version, linksRaced>>
      BY <1>0, <1>3 DEF RefuseLink
    <2> QED BY <2>1 DEF CurriculumInv, MayAdd, Acyclic, Closed
  <1>4. ASSUME NEW link \in links, DeleteLink(link) PROVE CurriculumInv'
    <2>1. links' \in SUBSET links /\ UNCHANGED <<version, edit, linksRaced>>
      BY <1>4 DEF DeleteLink
    <2>2. linksRaced \/ Acyclic(links')
      BY <2>1, FewerLinks DEF CurriculumInv
    <2>3. ASSUME NEW e \in Editors, edit[e] # NoEdit, ~edit[e].stale
          PROVE  MayAdd(links' \ {edit[e].old}, edit[e].add[1], edit[e].add[2])
      <3>1. PICK more, fewer : more = links \ {edit[e].old} /\ fewer = links' \ {edit[e].old}
        OBVIOUS
      <3>2. MayAdd(more, edit[e].add[1], edit[e].add[2]) /\ fewer \in SUBSET more
        BY <2>1, <2>3, <3>1 DEF CurriculumInv
      <3> QED BY <3>1, <3>2, FewerLinks DEF MayAdd
    <2> QED BY <1>0, <2>1, <2>2, <2>3 DEF CurriculumInv, MayAdd, Acyclic, Closed
  <1>5. ASSUME NEW v \in Versions, NEW status \in VersionStatus, SetVersionStatus(v, status)
        PROVE  CurriculumInv'
    BY <1>0, <1>5 DEF SetVersionStatus, CurriculumInv, MayAdd, Acyclic, Closed
  <1>6. CASE UNCHANGED curriculumVars
    BY <1>6 DEF curriculumVars, CurriculumInv, MayAdd, Acyclic, Closed
  <1> QED BY <1>1, <1>2, <1>3, <1>4, <1>5, <1>6 DEF CurriculumNext

\* The graph stays free of cycles and the checked links addable.
LEMMA CurriculumInvariant == CurriculumSpec => []CurriculumInv
  <1>1. CurriculumInit => CurriculumInv
    <2>1. Acyclic({})
      BY DEF Acyclic
    <2>2. CurriculumInit => /\ links = {} /\ linksRaced = FALSE
                            /\ version \in [Versions -> VersionStatus]
                            /\ edit \in [Editors -> EditType \cup {NoEdit}]
                            /\ \A e \in Editors : edit[e] = NoEdit
      BY DEF CurriculumInit, VersionStatus
    <2> QED BY <2>1, <2>2 DEF CurriculumInv
  <1> QED BY <1>1, CurriculumStep, PTL DEF CurriculumSpec

\* Every group of courses has one to begin with, for any number of courses and
\* editors and any sequence of additions, changes and deletions.
THEOREM CoursesCanBeTaken == CurriculumSpec => []EveryCourseCanBeTaken
  <1>1. CurriculumInv => EveryCourseCanBeTaken
    BY DEF CurriculumInv, EveryCourseCanBeTaken, Acyclic
  <1> QED BY <1>1, CurriculumInvariant, PTL

----------------------------------------------------------------------------
(* Registrations.                                                          *)

EnrOps == {"register", "drop", "complete"}
RegRow == [status : RegStatus \cup {"none"}, repeat : BOOLEAN]
EnrRequest == [do : EnrOps, key : Keys, row : RegRow, stale : BOOLEAN]

Taken(s, t) == {d \in Offered : reg[<<s, d, t>>].status = "registered"}
PassedBy(s) == {c \in Offered : \E t \in Semesters : reg[<<s, c, t>>].status = "completed"}
HasPassedFor(s, k) == \A l \in Required : l[1] = k => l[2] \in PassedBy(s)
Repeated(s, k, t) == \E u \in Semesters \ {t} : reg[<<s, k, u>>] # NoRow

\* What a request that is not stale has decided holds of the rows as they are.
EnrFits(call) ==
    \E s \in Students, k \in Offered, t \in Semesters :
        /\ call.key = <<s, k, t>>
        /\ call.do = "register" =>
              /\ reg[<<s, k, t>>].status \in {"none", "dropped"}
              /\ call.row.status = reg[<<s, k, t>>].status
              /\ call.row.repeat = Repeated(s, k, t)
              /\ HasPassedFor(s, k)
              /\ CreditHours[k] + Total(CreditHours, Taken(s, t) \ {k}) <= MaxCredits
        /\ call.do = "drop" => call.row = reg[<<s, k, t>>] /\ call.row.status = "registered"
        /\ call.do = "complete" => /\ call.row = reg[<<s, k, t>>]
                                   /\ call.row.status \in {"registered", "dropped"}

SoundRow(s, k, t) ==
    /\ reg[<<s, k, t>>].status = "registered" => HasPassedFor(s, k)
    /\ \A u \in Semesters \ {t} : NoRow \in {reg[<<s, k, t>>], reg[<<s, k, u>>]}
                                     \/ reg[<<s, k, t>>].repeat \/ reg[<<s, k, u>>].repeat

SoundStudent(s) ==
    \A t \in Semesters :
        /\ Total(CreditHours, Taken(s, t)) <= MaxCredits
        /\ \A k \in Offered : SoundRow(s, k, t)

EnrollmentInv ==
    /\ reg \in [Keys -> Rows]
    /\ phase \in [Semesters -> 1..3]
    /\ enrCall \in [EnrCalls -> EnrRequest \cup {EnrIdle}]
    /\ \A c \in EnrCalls : enrCall[c] # EnrIdle /\ ~enrCall[c].stale => EnrFits(enrCall[c])
    /\ \A s \in Students \ enrRaced : SoundStudent(s)

\* The sums the model takes are totals of credit hours.
LEMMA LoadsAreTotals ==
    ASSUME NEW s, NEW t, NEW k
    PROVE  /\ Load(s, t) = Total(CreditHours, Taken(s, t))
           /\ ProjectedLoad(s, k, t) = CreditHours[k] + Total(CreditHours, Taken(s, t) \ {k})
  <1>1. {d \in Offered \ {k} : reg[<<s, d, t>>].status = "registered"} = Taken(s, t) \ {k}
    BY DEF Taken
  <1>2. Load(s, t) = Total(CreditHours, Taken(s, t))
    BY Zenon DEF Load, Total, Taken
  <1>3. ProjectedLoad(s, k, t) = CreditHours[k] + Total(CreditHours,
             {d \in Offered \ {k} : reg[<<s, d, t>>].status = "registered"})
    BY Zenon DEF ProjectedLoad, Total
  <1> QED BY <1>1, <1>2, <1>3

\* The courses on offer are finitely many, with whole credit hours.
LEMMA OfferedIsFinite ==
    /\ IsFiniteSet(Offered) /\ Offered \subseteq Courses
    /\ \A S \in SUBSET Offered : IsFiniteSet(S) /\ \A x \in S : CreditHours[x] \in Nat
    /\ \A l \in Required : l[1] \in Offered /\ l[2] \in Offered
  <1>1. IsFiniteSet(Offered)
    BY CreditsAssumption, CoursesAssumption, FS_Subset
  <1>2. \A S \in SUBSET Offered : IsFiniteSet(S) /\ \A x \in S : CreditHours[x] \in Nat
    BY <1>1, FS_Subset, CreditsAssumption
  <1>3. \A l \in Required : l[1] \in Offered /\ l[2] \in Offered
    BY CreditsAssumption
  <1> QED BY <1>1, <1>2, <1>3, CreditsAssumption

\* A student is as sound as the rows of the student.
LEMMA OtherStudents ==
    ASSUME NEW s \in Students,
           \A k \in Offered, t \in Semesters : reg'[<<s, k, t>>] = reg[<<s, k, t>>]
    PROVE  /\ \A t \in Semesters : Taken(s, t)' = Taken(s, t)
           /\ PassedBy(s)' = PassedBy(s)
           /\ \A k \in Offered, t \in Semesters : Repeated(s, k, t)' = Repeated(s, k, t)
           /\ SoundStudent(s) => SoundStudent(s)'
  <1>1. \A t \in Semesters : Taken(s, t)' = Taken(s, t)
    BY DEF Taken
  <1>2. PassedBy(s)' = PassedBy(s)
    BY DEF PassedBy
  <1>3. \A k \in Offered, t \in Semesters : Repeated(s, k, t)' = Repeated(s, k, t)
    BY DEF Repeated
  <1>4. \A k \in Offered, t \in Semesters : SoundRow(s, k, t) => SoundRow(s, k, t)'
    BY <1>2 DEF SoundRow, HasPassedFor
  <1>5. SoundStudent(s) => SoundStudent(s)'
    BY <1>1, <1>4 DEF SoundStudent
  <1> QED BY <1>1, <1>2, <1>3, <1>5

\* Nothing changes for a request or a student while the rows stay.
LEMMA SameRows ==
    ASSUME reg' = reg
    PROVE  /\ \A call : EnrFits(call) => EnrFits(call)'
           /\ \A s : SoundStudent(s) => SoundStudent(s)'
  <1>1. \A s, t : Taken(s, t)' = Taken(s, t)
    BY DEF Taken
  <1>2. \A s, k, t : Repeated(s, k, t)' = Repeated(s, k, t)
    BY DEF Repeated
  <1>3. \A s, k : HasPassedFor(s, k)' <=> HasPassedFor(s, k)
    BY DEF HasPassedFor, PassedBy
  <1>4. ASSUME NEW call, EnrFits(call) PROVE EnrFits(call)'
    <2>1. PICK s \in Students, k \in Offered, t \in Semesters :
              /\ call.key = <<s, k, t>>
              /\ call.do = "register" =>
                    /\ reg[<<s, k, t>>].status \in {"none", "dropped"}
                    /\ call.row.status = reg[<<s, k, t>>].status
                    /\ call.row.repeat = Repeated(s, k, t)
                    /\ HasPassedFor(s, k)
                    /\ CreditHours[k] + Total(CreditHours, Taken(s, t) \ {k}) <= MaxCredits
              /\ call.do = "drop" => call.row = reg[<<s, k, t>>] /\ call.row.status = "registered"
              /\ call.do = "complete" => /\ call.row = reg[<<s, k, t>>]
                                         /\ call.row.status \in {"registered", "dropped"}
      BY <1>4 DEF EnrFits
    <2>2. Taken(s, t)' = Taken(s, t) /\ Repeated(s, k, t)' = Repeated(s, k, t)
      BY <1>1, <1>2
    <2> QED BY <1>3, <2>1, <2>2 DEF EnrFits
  <1>5. \A s : SoundStudent(s) => SoundStudent(s)'
    BY <1>1, <1>3 DEF SoundStudent, SoundRow
  <1> QED BY <1>4, <1>5

\* Saving a row of a sound student: a completed course stays completed, what becomes
\* registered has its prerequisites and its place in the load, and what was new is
\* marked a repeat when the course has another row.
LEMMA SaveKeepsStudent ==
    ASSUME reg \in [Keys -> Rows], NEW s \in Students, NEW k \in Offered, NEW t \in Semesters,
           NEW row \in [status : RegStatus, repeat : BOOLEAN],
           reg' = [reg EXCEPT ![<<s, k, t>>] = row],
           SoundStudent(s),
           reg[<<s, k, t>>].status # "completed",
           row.status = "registered" =>
              HasPassedFor(s, k) /\ CreditHours[k] + Total(CreditHours, Taken(s, t) \ {k}) <= MaxCredits,
           \/ reg[<<s, k, t>>] # NoRow /\ row.repeat = reg[<<s, k, t>>].repeat
           \/ row.repeat = Repeated(s, k, t)
    PROVE  SoundStudent(s)'
  <1>1. \A d \in Offered, u \in Semesters :
           <<s, d, u>> \in Keys /\ reg'[<<s, d, u>>] = IF d = k /\ u = t THEN row ELSE reg[<<s, d, u>>]
    BY DEF Keys
  <1>2. PassedBy(s) \subseteq PassedBy(s)'
    BY <1>1 DEF PassedBy
  <1>3. \A d \in Offered : HasPassedFor(s, d) => HasPassedFor(s, d)'
    BY <1>2 DEF HasPassedFor
  <1>4. ASSUME NEW u \in Semesters
        PROVE  (Total(CreditHours, Taken(s, u)) <= MaxCredits)'
    <2>0. Total(CreditHours, Taken(s, u)) <= MaxCredits
      BY DEF SoundStudent
    <2>1. CASE u # t
      <3>1. Taken(s, u)' = Taken(s, u)
        BY <1>1, <2>1 DEF Taken
      <3> QED BY <2>0, <3>1
    <2>2. CASE u = t /\ row.status # "registered"
      <3>1. PICK S, T : S = Taken(s, u) /\ T = Taken(s, u)'
        OBVIOUS
      <3>2. T \in SUBSET S /\ S \in SUBSET Offered
        BY <1>1, <2>2, <3>1 DEF Taken
      <3>3. Total(CreditHours, T) <= Total(CreditHours, S)
        BY <3>2, OfferedIsFinite, SumGrows
      <3>4. Total(CreditHours, T) \in Nat /\ Total(CreditHours, S) \in Nat
        BY <3>2, OfferedIsFinite, SumSplitsOff
      <3> QED BY <2>0, <3>1, <3>3, <3>4, CreditsAssumption
    <2>3. CASE u = t /\ row.status = "registered"
      <3>1. PICK T : T = Taken(s, u)'
        OBVIOUS
      <3>2. T \in SUBSET Offered /\ k \in T /\ T \ {k} = Taken(s, t) \ {k}
        BY <1>1, <2>3, <3>1 DEF Taken
      <3>3. Total(CreditHours, T) = CreditHours[k] + Total(CreditHours, T \ {k})
        BY <3>2, OfferedIsFinite, SumSplitsOff
      <3> QED BY <2>3, <3>1, <3>2, <3>3
    <2> QED BY <2>1, <2>2, <2>3
  <1>5. ASSUME NEW d \in Offered, NEW u \in Semesters
        PROVE  SoundRow(s, d, u)'
    <2>1. reg'[<<s, d, u>>].status = "registered" => HasPassedFor(s, d)'
      BY <1>1, <1>3 DEF SoundStudent, SoundRow
    <2>2. ASSUME NEW v \in Semesters \ {u}
          PROVE  NoRow \in {reg'[<<s, d, u>>], reg'[<<s, d, v>>]}
                    \/ reg'[<<s, d, u>>].repeat \/ reg'[<<s, d, v>>].repeat
      <3>0. NoRow \in {reg[<<s, d, u>>], reg[<<s, d, v>>]}
               \/ reg[<<s, d, u>>].repeat \/ reg[<<s, d, v>>].repeat
        BY DEF SoundStudent, SoundRow
      <3>1. CASE d # k \/ (u # t /\ v # t)
        BY <1>1, <3>0, <3>1
      <3>2. CASE d = k /\ (u = t \/ v = t)
        <4>1. PICK w \in Semesters \ {t} : {u, v} = {t, w}
          BY <3>2
        <4>2. reg'[<<s, k, t>>] = row /\ reg'[<<s, k, w>>] = reg[<<s, k, w>>]
          BY <1>1, <4>1
        <4>3. reg[<<s, k, w>>] = NoRow \/ row.repeat \/ reg[<<s, k, w>>].repeat
          <5>1. CASE reg[<<s, k, t>>] # NoRow /\ row.repeat = reg[<<s, k, t>>].repeat
            BY <3>0, <3>2, <4>1, <5>1
          <5>2. CASE row.repeat = Repeated(s, k, t)
            BY <5>2 DEF Repeated
          <5> QED BY <5>1, <5>2
        <4> QED BY <3>2, <4>1, <4>2, <4>3
      <3> QED BY <3>1, <3>2
    <2> QED BY <2>1, <2>2 DEF SoundRow
  <1> QED BY <1>4, <1>5 DEF SoundStudent

\* The state after a request has saved its row, whatever it decided.
LEMMA SaveRowStep ==
    ASSUME EnrollmentInv, NEW c \in EnrCalls, enrCall[c].do \in EnrOps,
           NEW status \in RegStatus, SaveRow(c, [enrCall[c].row EXCEPT !.status = status]),
           \/ enrCall[c].do = "register" /\ status = "registered"
           \/ enrCall[c].do = "drop" /\ status = "dropped"
           \/ enrCall[c].do = "complete" /\ status = "completed"
    PROVE  EnrollmentInv'
  <1>0. /\ reg \in [Keys -> Rows]
        /\ enrCall \in [EnrCalls -> EnrRequest \cup {EnrIdle}]
        /\ enrCall[c] \in EnrRequest
    BY DEF EnrollmentInv, EnrIdle, EnrOps
  <1>1. PICK s \in Students, k \in Offered, t \in Semesters : enrCall[c].key = <<s, k, t>>
    BY <1>0 DEF EnrRequest, Keys
  <1>2. PICK row : row = [enrCall[c].row EXCEPT !.status = status]
    OBVIOUS
  <1>3. /\ row \in [status : RegStatus, repeat : BOOLEAN]
        /\ row.status = status /\ row.repeat = enrCall[c].row.repeat
    BY <1>0, <1>2 DEF EnrRequest, RegRow
  <1>4. /\ reg' = [reg EXCEPT ![<<s, k, t>>] = row] /\ phase' = phase
        /\ enrRaced' = IF enrCall[c].stale THEN enrRaced \cup {s} ELSE enrRaced
    BY <1>1, <1>2 DEF SaveRow
  <1>5. \A d \in EnrCalls : enrCall'[d] = IF d = c \/ enrCall[d] = EnrIdle THEN EnrIdle
           ELSE [enrCall[d] EXCEPT !.stale = enrCall[d].stale \/ enrCall[d].key[1] = s]
    BY <1>1 DEF SaveRow
  <1>6. ASSUME NEW d \in EnrCalls, d # c, enrCall[d] # EnrIdle
        PROVE  /\ enrCall'[d] \in EnrRequest
               /\ enrCall'[d].do = enrCall[d].do /\ enrCall'[d].key = enrCall[d].key
               /\ enrCall'[d].row = enrCall[d].row
               /\ ~enrCall'[d].stale => ~enrCall[d].stale /\ enrCall[d].key[1] # s
    <2>1. PICK b \in BOOLEAN : b = (enrCall[d].stale \/ enrCall[d].key[1] = s)
      BY <1>0, <1>6 DEF EnrRequest
    <2>2. enrCall'[d] = [enrCall[d] EXCEPT !.stale = b] /\ enrCall[d] \in EnrRequest
      BY <1>0, <1>5, <1>6, <2>1
    <2> QED BY <2>1, <2>2 DEF EnrRequest
  <1>7. /\ enrCall' \in [EnrCalls -> EnrRequest \cup {EnrIdle}]
        /\ reg' \in [Keys -> Rows]
    <2>1. enrCall' = [d \in EnrCalls |-> enrCall'[d]]
      BY DEF SaveRow
    <2>2. \A d \in EnrCalls : enrCall'[d] \in EnrRequest \cup {EnrIdle}
      BY <1>5, <1>6
    <2>3. row \in Rows /\ <<s, k, t>> \in Keys
      BY <1>3 DEF Rows, Keys
    <2> QED BY <1>0, <1>4, <2>1, <2>2, <2>3
  <1>8. \A r \in Students, d \in Offered, u \in Semesters :
           <<r, d, u>> \in Keys /\ (r # s => reg'[<<r, d, u>>] = reg[<<r, d, u>>])
    BY <1>0, <1>4 DEF Keys
  <1>9. ASSUME NEW d \in EnrCalls, enrCall'[d] # EnrIdle, ~enrCall'[d].stale
        PROVE  EnrFits(enrCall[d])'
    <2>1. /\ d # c /\ enrCall[d] # EnrIdle /\ ~enrCall[d].stale /\ enrCall[d].key[1] # s
          /\ enrCall'[d].do = enrCall[d].do /\ enrCall'[d].key = enrCall[d].key
          /\ enrCall'[d].row = enrCall[d].row
      BY <1>5, <1>6, <1>9
    <2>2. EnrFits(enrCall[d])
      BY <2>1 DEF EnrollmentInv
    <2>3. PICK r \in Students, x \in Offered, u \in Semesters :
              /\ enrCall[d].key = <<r, x, u>>
              /\ enrCall[d].do = "register" =>
                    /\ reg[<<r, x, u>>].status \in {"none", "dropped"}
                    /\ enrCall[d].row.status = reg[<<r, x, u>>].status
                    /\ enrCall[d].row.repeat = Repeated(r, x, u)
                    /\ HasPassedFor(r, x)
                    /\ CreditHours[x] + Total(CreditHours, Taken(r, u) \ {x}) <= MaxCredits
              /\ enrCall[d].do = "drop" => enrCall[d].row = reg[<<r, x, u>>] /\ enrCall[d].row.status = "registered"
              /\ enrCall[d].do = "complete" => /\ enrCall[d].row = reg[<<r, x, u>>]
                                               /\ enrCall[d].row.status \in {"registered", "dropped"}
      BY <2>2 DEF EnrFits
    <2>4. r # s
      BY <2>1, <2>3
    <2>5. /\ Taken(r, u)' = Taken(r, u) /\ PassedBy(r)' = PassedBy(r)
          /\ Repeated(r, x, u)' = Repeated(r, x, u) /\ reg'[<<r, x, u>>] = reg[<<r, x, u>>]
      BY <1>8, <2>4, OtherStudents
    <2>6. HasPassedFor(r, x) => HasPassedFor(r, x)'
      BY <2>5 DEF HasPassedFor
    <2> QED BY <2>1, <2>3, <2>5, <2>6 DEF EnrFits
  <1>10. ASSUME NEW r \in Students \ enrRaced'
         PROVE  SoundStudent(r)'
    <2>1. r \notin enrRaced /\ SoundStudent(r)
      BY <1>4, <1>10 DEF EnrollmentInv
    <2>2. CASE r # s
      BY <1>8, <2>1, <2>2, OtherStudents
    <2>3. CASE r = s
      <3>1. ~enrCall[c].stale /\ enrCall[c] # EnrIdle
        BY <1>4, <1>10, <2>3 DEF EnrIdle, EnrOps
      <3>2. EnrFits(enrCall[c])
        BY <3>1 DEF EnrollmentInv
      <3>3. /\ enrCall[c].do = "register" =>
                  /\ reg[<<s, k, t>>].status \in {"none", "dropped"}
                  /\ enrCall[c].row.repeat = Repeated(s, k, t)
                  /\ HasPassedFor(s, k)
                  /\ CreditHours[k] + Total(CreditHours, Taken(s, t) \ {k}) <= MaxCredits
            /\ enrCall[c].do # "register" => /\ enrCall[c].row = reg[<<s, k, t>>]
                                             /\ enrCall[c].row.status \in {"registered", "dropped"}
        <4>1. PICK p \in Students, x \in Offered, u \in Semesters :
                 /\ enrCall[c].key = <<p, x, u>>
                 /\ enrCall[c].do = "register" =>
                       /\ reg[<<p, x, u>>].status \in {"none", "dropped"}
                       /\ enrCall[c].row.repeat = Repeated(p, x, u)
                       /\ HasPassedFor(p, x)
                       /\ CreditHours[x] + Total(CreditHours, Taken(p, u) \ {x}) <= MaxCredits
                 /\ enrCall[c].do \in {"drop", "complete"} =>
                       /\ enrCall[c].row = reg[<<p, x, u>>]
                       /\ enrCall[c].row.status \in {"registered", "dropped"}
          BY <3>2 DEF EnrFits
        <4>2. p = s /\ x = k /\ u = t
          BY <1>1, <4>1
        <4> QED BY <4>1, <4>2 DEF EnrOps
      <3>4. reg[<<s, k, t>>].status # "completed"
        BY <3>3
      <3>5. \/ reg[<<s, k, t>>] # NoRow /\ row.repeat = reg[<<s, k, t>>].repeat
            \/ row.repeat = Repeated(s, k, t)
        BY <1>3, <3>3 DEF NoRow
      <3>6. row.status = "registered" =>
              HasPassedFor(s, k) /\ CreditHours[k] + Total(CreditHours, Taken(s, t) \ {k}) <= MaxCredits
        BY <1>3, <3>3
      <3> QED BY <1>0, <1>3, <1>4, <2>1, <2>3, <3>4, <3>5, <3>6, SaveKeepsStudent
    <2> QED BY <2>2, <2>3
  <1> QED BY <1>4, <1>7, <1>9, <1>10 DEF EnrollmentInv

\* A request that begins has just made its checks.
LEMMA BeginCallStep ==
    ASSUME EnrollmentInv, NEW c \in EnrCalls, NEW what \in EnrOps, NEW key \in Keys, NEW row \in RegRow,
           BeginCall(c, what, key, row),
           EnrFits([do |-> what, key |-> key, row |-> row, stale |-> FALSE])
    PROVE  EnrollmentInv'
  <1>1. PICK call : call = [do |-> what, key |-> key, row |-> row, stale |-> FALSE]
    OBVIOUS
  <1>2. call \in EnrRequest /\ EnrFits(call)
    BY <1>1 DEF EnrRequest
  <1>3. /\ enrCall \in [EnrCalls -> EnrRequest \cup {EnrIdle}]
        /\ enrCall' = [enrCall EXCEPT ![c] = call] /\ UNCHANGED <<reg, phase, enrRaced>>
    BY <1>1 DEF EnrollmentInv, BeginCall
  <1>4. /\ enrCall' \in [EnrCalls -> EnrRequest \cup {EnrIdle}]
        /\ \A d \in EnrCalls : enrCall'[d] = IF d = c THEN call ELSE enrCall[d]
    BY <1>2, <1>3
  <1>5. \A d \in EnrCalls : enrCall'[d] # EnrIdle /\ ~enrCall'[d].stale => EnrFits(enrCall'[d])
    BY <1>2, <1>4 DEF EnrollmentInv
  <1> QED BY <1>3, <1>4, <1>5, SameRows DEF EnrollmentInv

\* Every step of the registration office.
LEMMA EnrollmentStep == EnrollmentInv /\ [EnrollmentNext]_enrollmentVars => EnrollmentInv'
  <1> SUFFICES ASSUME EnrollmentInv, [EnrollmentNext]_enrollmentVars PROVE EnrollmentInv'
    OBVIOUS
  <1>0. /\ reg \in [Keys -> Rows] /\ phase \in [Semesters -> 1..3]
        /\ enrCall \in [EnrCalls -> EnrRequest \cup {EnrIdle}]
    BY DEF EnrollmentInv
  <1>1. \A key \in Keys : /\ reg[key] \in RegRow
                          /\ reg[key].status = "none" => reg[key] = NoRow
    <2> SUFFICES ASSUME NEW key \in Keys
                 PROVE  reg[key] \in RegRow /\ (reg[key].status = "none" => reg[key] = NoRow)
      OBVIOUS
    <2>1. reg[key] = NoRow \/ reg[key] \in [status : RegStatus, repeat : BOOLEAN]
      BY <1>0 DEF Rows
    <2>2. NoRow \in RegRow
      BY DEF NoRow, RegRow
    <2> QED BY <2>1, <2>2 DEF RegRow, RegStatus
  <1>2. ASSUME NEW c \in EnrCalls, NEW s \in Students, NEW k \in Offered, NEW t \in Semesters,
               NEW answer, NEW over, RegisterCheck(c, s, k, t, answer, over)
        PROVE  EnrollmentInv'
    <2>1. PICK key : key = <<s, k, t>>
      OBVIOUS
    <2>2. PICK b \in BOOLEAN : b = Repeated(s, k, t)
      BY DEF Repeated
    <2>3. IsRepeat(s, k, t) = b
      <3>1. \A u \in Semesters : reg[<<s, k, u>>].status = "none" <=> reg[<<s, k, u>>] = NoRow
        BY <1>1 DEF Keys, NoRow
      <3> QED BY <2>2, <3>1 DEF IsRepeat, Repeated
    <2>4. PICK row : row = [reg[key] EXCEPT !.repeat = b]
      OBVIOUS
    <2>5. key \in Keys /\ row \in RegRow /\ row.status = reg[key].status /\ row.repeat = b
      BY <1>1, <2>1, <2>4 DEF Keys, RegRow
    <2>6. BeginCall(c, "register", key, row)
      BY <1>2, <2>1, <2>3, <2>4 DEF RegisterCheck
    <2>7. reg[key].status \in {"none", "dropped"}
      BY <1>1, <1>2, <2>1, <2>5 DEF RegisterCheck, RegRow, RegStatus
    <2>8. HasPassedFor(s, k)
      <3>1. UnmetPrerequisites(Required, k, Passed(s), [l \in Required |-> 0], {}) = {}
        BY <1>2 DEF RegisterCheck
      <3>2. DOMAIN Passed(s) = PassedBy(s)
        BY DEF Passed, PassedBy
      <3> QED BY <3>1, <3>2 DEF UnmetPrerequisites, HasPassedFor, Passed, PassedBy
    <2>9. CreditHours[k] + Total(CreditHours, Taken(s, t) \ {k}) <= MaxCredits
      BY <1>2, LoadsAreTotals DEF RegisterCheck
    <2>10. EnrFits([do |-> "register", key |-> key, row |-> row, stale |-> FALSE])
      BY <2>1, <2>2, <2>5, <2>7, <2>8, <2>9 DEF EnrFits
    <2> QED BY <2>5, <2>6, <2>10, BeginCallStep DEF EnrOps
  <1>3. ASSUME NEW c \in EnrCalls, NEW key \in Keys, NEW what \in {"drop", "complete"},
               LoadRegistration(c, key, what)
        PROVE  EnrollmentInv'
    <2>1. PICK s \in Students, k \in Offered, t \in Semesters : key = <<s, k, t>>
      BY DEF Keys
    <2>2. PICK row : row = reg[key]
      OBVIOUS
    <2>3. /\ what = "drop" => row.status = "registered"
          /\ row.status \in {"registered", "dropped"} /\ BeginCall(c, what, key, row) /\ row \in RegRow
      BY <1>1, <1>3, <2>2 DEF LoadRegistration
    <2>4. EnrFits([do |-> what, key |-> key, row |-> row, stale |-> FALSE])
      BY <2>1, <2>2, <2>3 DEF EnrFits
    <2> QED BY <2>3, <2>4, BeginCallStep DEF EnrOps
  <1>4. ASSUME NEW c \in EnrCalls, RegisterSave(c) PROVE EnrollmentInv'
    BY <1>4, SaveRowStep DEF RegisterSave, EnrOps, RegStatus
  <1>5. ASSUME NEW c \in EnrCalls, DropCourse(c) PROVE EnrollmentInv'
    BY <1>5, SaveRowStep DEF DropCourse, EnrOps, RegStatus
  <1>6. ASSUME NEW c \in EnrCalls, RecordPriorCompletion(c) PROVE EnrollmentInv'
    BY <1>6, SaveRowStep DEF RecordPriorCompletion, EnrOps, RegStatus
  <1>7. ASSUME NEW c \in EnrCalls, EnrAbandon(c) PROVE EnrollmentInv'
    <2>1. /\ enrCall' \in [EnrCalls -> EnrRequest \cup {EnrIdle}]
          /\ \A d \in EnrCalls : enrCall'[d] = EnrIdle \/ enrCall'[d] = enrCall[d]
          /\ UNCHANGED <<reg, phase, enrRaced>>
      BY <1>0, <1>7 DEF EnrAbandon
    <2> QED BY <2>1, SameRows DEF EnrollmentInv
  <1>8. ASSUME NEW t \in Semesters, TimePasses(t) PROVE EnrollmentInv'
    <2>1. Len(Phases) = 3
      BY DEF Phases
    <2>2. phase' \in [Semesters -> 1..3] /\ UNCHANGED <<reg, enrCall, enrRaced>>
      BY <1>0, <1>8, <2>1 DEF TimePasses
    <2> QED BY <2>2, SameRows DEF EnrollmentInv
  <1>9. CASE UNCHANGED enrollmentVars
    BY <1>9, SameRows DEF enrollmentVars, EnrollmentInv
  <1> QED BY <1>2, <1>3, <1>4, <1>5, <1>6, <1>7, <1>8, <1>9 DEF EnrollmentNext

\* Students stay sound and the requests that are not stale keep what they decided on.
LEMMA EnrollmentInvariant == EnrollmentSpec => []EnrollmentInv
  <1>1. EnrollmentInit => EnrollmentInv
    <2> SUFFICES ASSUME EnrollmentInit PROVE EnrollmentInv
      OBVIOUS
    <2>1. /\ reg \in [Keys -> Rows] /\ phase \in [Semesters -> 1..3]
          /\ enrCall \in [EnrCalls -> EnrRequest \cup {EnrIdle}]
          /\ \A c \in EnrCalls : enrCall[c] = EnrIdle
      BY DEF EnrollmentInit, Rows
    <2>2. \A s \in Students, k \in Offered, t \in Semesters : reg[<<s, k, t>>] = NoRow
      BY DEF EnrollmentInit, Keys
    <2>3. \A s \in Students, t \in Semesters : Taken(s, t) = {}
      BY <2>2 DEF Taken, NoRow
    <2>4. Total(CreditHours, {}) = 0 /\ 0 <= MaxCredits
      <3>1. {} \in SUBSET Offered
        OBVIOUS
      <3> QED BY <3>1, OfferedIsFinite, SumSplitsOff, CreditsAssumption
    <2>5. \A s \in Students, k \in Offered, t \in Semesters : SoundRow(s, k, t)
      <3>1. NoRow.status # "registered"
        BY DEF NoRow
      <3> QED BY <2>2, <3>1 DEF SoundRow
    <2>6. \A s \in Students : SoundStudent(s)
      BY <2>3, <2>4, <2>5 DEF SoundStudent
    <2> QED BY <2>1, <2>6 DEF EnrollmentInv
  <1> QED BY <1>1, EnrollmentStep, PTL DEF EnrollmentSpec

\* Loads, prerequisites and repeats stay right for any number of students, courses and
\* overlapping requests.
THEOREM StudentsAreRegisteredSoundly == EnrollmentSpec => []RegistrationsAreSound
  <1>1. EnrollmentInv => RegistrationsAreSound
    <2> SUFFICES ASSUME EnrollmentInv, NEW s \in Students \ enrRaced, NEW t \in Semesters
                 PROVE  /\ Load(s, t) <= MaxCredits
                        /\ \A l \in Required :
                              reg[<<s, l[1], t>>].status = "registered" => l[2] \in DOMAIN Passed(s)
                        /\ \A c \in Offered, u \in Semesters \ {t} :
                              NoRow \in {reg[<<s, c, t>>], reg[<<s, c, u>>]}
                                 \/ reg[<<s, c, t>>].repeat \/ reg[<<s, c, u>>].repeat
      BY DEF RegistrationsAreSound
    <2>1. SoundStudent(s)
      BY DEF EnrollmentInv
    <2>2. Load(s, t) <= MaxCredits
      BY <2>1, LoadsAreTotals DEF SoundStudent
    <2>3. DOMAIN Passed(s) = PassedBy(s)
      BY DEF Passed, PassedBy
    <2>4. \A l \in Required : l[1] \in Offered
      BY OfferedIsFinite
    <2> QED BY <2>1, <2>2, <2>3, <2>4 DEF SoundStudent, SoundRow, HasPassedFor
  <1> QED BY <1>1, EnrollmentInvariant, PTL

----------------------------------------------------------------------------
(* Results.                                                                *)

ApprovalOps == {"submit", "approve", "reject", "publish"}
AppealOps == {"uphold", "dismiss"}

\* A call that is not stale has read what the row says now, and what it needs.
ResultReadsAreCurrent ==
    \A c \in ResCalls :
        LET call == resCall[c] IN
        /\ call.do \in ApprovalOps => call.on \in Scopes
        /\ call.do \in AppealOps => call.on \in Appeals
        /\ call.do # "none" /\ ~call.stale =>
              call.seen \in Needs(call.do)
                /\ (call.do \in ApprovalOps => call.seen = approval[call.on])
                /\ (call.do \in AppealOps => call.seen = appeal[call.on])

\* What is approved or published Senate approved last.
SenateStands ==
    \A r \in Scopes \ resRaced : approval[r] \in {"approved", "published"} => senate[r] = "approved"

ResultCall == [do : ApprovalOps \cup AppealOps \cup {"none"}, on : Scopes \cup Appeals,
               seen : ApprovalStatus \cup AppealStatus \cup {"none"}, stale : BOOLEAN]

ResultsInv ==
    /\ ResultsTypeOK
    /\ resCall \in [ResCalls -> ResultCall]
    /\ ResultReadsAreCurrent
    /\ SenateStands

\* A finished call is idle, and of the others only those on another row stay current.
LEMMA FinishStep ==
    ASSUME resCall \in [ResCalls -> ResultCall], NEW c \in ResCalls, Finish(c)
    PROVE  /\ resCall' \in [ResCalls -> ResultCall]
           /\ \A d \in ResCalls :
                 \/ resCall'[d] = ResIdle
                 \/ /\ resCall'[d].do = resCall[d].do
                    /\ resCall'[d].on = resCall[d].on
                    /\ resCall'[d].seen = resCall[d].seen
                    /\ ~resCall'[d].stale => ~resCall[d].stale /\ resCall[d].on # resCall[c].on
           /\ resRaced \subseteq resRaced'
           /\ resCall[c].stale => resCall[c].on \in resRaced'
  <1>0. ResIdle \in ResultCall
    BY DEF ResIdle, ResultCall, Scopes
  <1>1. \A d \in ResCalls : resCall'[d] =
           IF d = c \/ resCall[d] = ResIdle THEN ResIdle
           ELSE [resCall[d] EXCEPT !.stale = @ \/ resCall[d].on = resCall[c].on]
    BY DEF Finish
  <1>2. ASSUME NEW d \in ResCalls, ~(d = c \/ resCall[d] = ResIdle)
        PROVE  /\ resCall'[d] \in ResultCall
               /\ resCall'[d].do = resCall[d].do
               /\ resCall'[d].on = resCall[d].on
               /\ resCall'[d].seen = resCall[d].seen
               /\ resCall'[d].stale = (resCall[d].stale \/ resCall[d].on = resCall[c].on)
    <2>1. resCall'[d] = [resCall[d] EXCEPT !.stale = @ \/ resCall[d].on = resCall[c].on]
      BY <1>1, <1>2
    <2>2. PICK b \in BOOLEAN : b = (resCall[d].stale \/ resCall[d].on = resCall[c].on)
      OBVIOUS
    <2>3. resCall'[d] = [resCall[d] EXCEPT !.stale = b]
      BY <2>1, <2>2
    <2>4. /\ resCall'[d] \in ResultCall
          /\ resCall'[d].do = resCall[d].do
          /\ resCall'[d].on = resCall[d].on
          /\ resCall'[d].seen = resCall[d].seen
          /\ resCall'[d].stale = b
      BY <2>3 DEF ResultCall
    <2> QED BY <2>2, <2>4
  <1>3. resCall' \in [ResCalls -> ResultCall]
    BY <1>0, <1>1, <1>2 DEF Finish
  <1> QED BY <1>1, <1>2, <1>3 DEF Finish

\* A save on an approval row: the current status is the one the call read, or the save
\* is a race.
LEMMA SaveApprovalStep ==
    ASSUME ResultsInv, NEW c \in ResCalls, resCall[c].do \in ApprovalOps,
           NEW status \in ApprovalStatus, NEW decision \in {"none", "approved", "rejected"},
           SaveApproval(c, status, decision),
           \/ resCall[c].stale \/ resCall[c].on \in resRaced
           \/ status \in {"approved", "published"} => decision = "approved"
    PROVE  ResultsInv'
  <1> DEFINE row == resCall[c].on
  <1> USE DEF ResultsInv
  <1>1. row \in Scopes
    BY DEF ResultReadsAreCurrent
  <1>2. /\ approval' = [approval EXCEPT ![row] = status]
        /\ senate' = [senate EXCEPT ![row] = decision]
        /\ appeal' = appeal
        /\ Finish(c)
    BY DEF SaveApproval
  <1>3. /\ resCall' \in [ResCalls -> ResultCall]
        /\ resRaced \subseteq resRaced'
        /\ resCall[c].stale => row \in resRaced'
    BY <1>2, FinishStep
  <1>4. ResultsTypeOK'
    BY <1>1, <1>2, <1>3 DEF ResultsTypeOK, ResultCall
  <1>5. SenateStands'
    <2> SUFFICES ASSUME NEW r \in Scopes \ resRaced', approval'[r] \in {"approved", "published"}
                 PROVE  senate'[r] = "approved"
      BY DEF SenateStands
    <2>1. CASE r = row
      BY <1>1, <1>2, <1>3, <2>1 DEF ResultsTypeOK
    <2>2. CASE r # row
      BY <1>1, <1>2, <1>3, <2>2 DEF ResultsTypeOK, SenateStands
    <2> QED BY <2>1, <2>2
  <1>6. ResultReadsAreCurrent'
    <2> SUFFICES ASSUME NEW d \in ResCalls
                 PROVE  /\ resCall'[d].do \in ApprovalOps => resCall'[d].on \in Scopes
                        /\ resCall'[d].do \in AppealOps => resCall'[d].on \in Appeals
                        /\ resCall'[d].do # "none" /\ ~resCall'[d].stale =>
                              /\ resCall'[d].seen \in Needs(resCall'[d].do)
                              /\ resCall'[d].do \in ApprovalOps => resCall'[d].seen = approval'[resCall'[d].on]
                              /\ resCall'[d].do \in AppealOps => resCall'[d].seen = appeal'[resCall'[d].on]
      BY DEF ResultReadsAreCurrent
    <2>1. CASE resCall'[d] = ResIdle
      BY <2>1 DEF ResIdle, ApprovalOps, AppealOps
    <2>2. CASE resCall'[d] # ResIdle
      <3>1. /\ resCall'[d].do = resCall[d].do
            /\ resCall'[d].on = resCall[d].on
            /\ resCall'[d].seen = resCall[d].seen
            /\ ~resCall'[d].stale => ~resCall[d].stale /\ resCall[d].on # row
        BY <1>2, <2>2, FinishStep
      <3> QED BY <1>1, <1>2, <3>1 DEF ResultReadsAreCurrent, ResultsTypeOK
    <2> QED BY <2>1, <2>2
  <1> QED BY <1>3, <1>4, <1>5, <1>6

\* What a call that finishes on an appeal leaves; appeals and approvals are separate.
LEMMA DecideAppealStep ==
    ASSUME ResultsInv, NEW c \in ResCalls, DecideAppeal(c)
    PROVE  ResultsInv'
  <1> DEFINE row == resCall[c].on
  <1> USE DEF ResultsInv
  <1>1. row \in Appeals
    BY DEF ResultReadsAreCurrent, DecideAppeal, AppealOps
  <1>2. PICK status \in {"upheld", "rejected"} : appeal' = [appeal EXCEPT ![row] = status]
    BY DEF DecideAppeal
  <1>3. approval' = approval /\ senate' = senate /\ Finish(c)
    BY DEF DecideAppeal
  <1>4. resCall' \in [ResCalls -> ResultCall] /\ resRaced \subseteq resRaced'
    BY <1>3, FinishStep
  <1>5. ResultsTypeOK' /\ SenateStands'
    BY <1>1, <1>2, <1>3, <1>4 DEF ResultsTypeOK, ResultCall, AppealStatus, SenateStands
  <1>6. ResultReadsAreCurrent'
    <2> SUFFICES ASSUME NEW d \in ResCalls
                 PROVE  /\ resCall'[d].do \in ApprovalOps => resCall'[d].on \in Scopes
                        /\ resCall'[d].do \in AppealOps => resCall'[d].on \in Appeals
                        /\ resCall'[d].do # "none" /\ ~resCall'[d].stale =>
                              /\ resCall'[d].seen \in Needs(resCall'[d].do)
                              /\ resCall'[d].do \in ApprovalOps => resCall'[d].seen = approval'[resCall'[d].on]
                              /\ resCall'[d].do \in AppealOps => resCall'[d].seen = appeal'[resCall'[d].on]
      BY DEF ResultReadsAreCurrent
    <2>1. CASE resCall'[d] = ResIdle
      BY <2>1 DEF ResIdle, ApprovalOps, AppealOps
    <2>2. CASE resCall'[d] # ResIdle
      <3>1. /\ resCall'[d].do = resCall[d].do
            /\ resCall'[d].on = resCall[d].on
            /\ resCall'[d].seen = resCall[d].seen
            /\ ~resCall'[d].stale => ~resCall[d].stale /\ resCall[d].on # row
        BY <1>3, <2>2, FinishStep
      <3> QED BY <1>1, <1>2, <1>3, <3>1 DEF ResultReadsAreCurrent, ResultsTypeOK
    <2> QED BY <2>1, <2>2
  <1> QED BY <1>4, <1>5, <1>6

\* A call that begins knows the row as it is.
LEMMA LoadResultStep ==
    ASSUME ResultsInv, NEW c \in ResCalls, NEW what, NEW row, NEW status,
           LoadResult(c, what, row, status),
           \/ what \in ApprovalOps /\ row \in Scopes /\ status = approval[row]
           \/ what \in AppealOps /\ row \in Appeals /\ status = appeal[row]
    PROVE  ResultsInv'
  <1> USE DEF ResultsInv
  <1>1. PICK new \in ResultCall : /\ resCall' = [resCall EXCEPT ![c] = new]
                                  /\ new.do = what /\ new.on = row /\ new.seen = status
    <2> DEFINE new == [do |-> what, on |-> row, seen |-> status, stale |-> FALSE]
    <2>1. new \in ResultCall
      BY DEF ResultCall, ResultsTypeOK, Scopes, ApprovalStatus, AppealStatus
    <2>2. resCall' = [resCall EXCEPT ![c] = new]
      BY DEF LoadResult
    <2>3. new.do = what /\ new.on = row /\ new.seen = status
      OBVIOUS
    <2> HIDE DEF new
    <2> QED BY <2>1, <2>2, <2>3
  <1>2. UNCHANGED <<approval, senate, appeal, resRaced>> /\ status \in Needs(what)
    BY DEF LoadResult
  <1>3. ResultsTypeOK' /\ SenateStands' /\ resCall' \in [ResCalls -> ResultCall]
    BY <1>1, <1>2 DEF ResultsTypeOK, SenateStands, ResultCall
  <1>4. ResultReadsAreCurrent'
    BY <1>1, <1>2 DEF ResultReadsAreCurrent, ApprovalOps, AppealOps
  <1> QED BY <1>3, <1>4

\* Every step of the results office.
LEMMA ResultsStep == ResultsInv /\ [ResultsNext]_resultsVars => ResultsInv'
  <1> SUFFICES ASSUME ResultsInv, [ResultsNext]_resultsVars PROVE ResultsInv'
    OBVIOUS
  <1>1. ASSUME NEW c \in ResCalls, NEW r \in Scopes, NEW what \in ApprovalOps,
               LoadResult(c, what, r, approval[r])
        PROVE  ResultsInv'
    BY <1>1, LoadResultStep
  <1>2. ASSUME NEW c \in ResCalls, NEW a \in Appeals, LoadAppeal(c, a)
        PROVE  ResultsInv'
    BY <1>2, LoadResultStep DEF LoadAppeal, AppealOps
  <1>3. ASSUME NEW c \in ResCalls, SubmitForApproval(c) \/ ApproveResults(c) \/ RejectResults(c)
        PROVE  ResultsInv'
    BY <1>3, SaveApprovalStep
       DEF SubmitForApproval, ApproveResults, RejectResults, ApprovalOps, ApprovalStatus
  <1>4. ASSUME NEW c \in ResCalls, PublishResults(c)
        PROVE  ResultsInv'
    <2>1. resCall[c].do = "publish" /\ SaveApproval(c, "published", senate[resCall[c].on])
      BY <1>4 DEF PublishResults
    <2>2. resCall[c].on \in Scopes
      BY <2>1 DEF ResultsInv, ResultReadsAreCurrent, ApprovalOps
    <2>3. ~resCall[c].stale => approval[resCall[c].on] = "approved"
      BY <2>1 DEF ResultsInv, ResultReadsAreCurrent, ApprovalOps, Needs
    <2>4. resCall[c].stale \/ resCall[c].on \in resRaced \/ senate[resCall[c].on] = "approved"
      BY <2>2, <2>3 DEF ResultsInv, SenateStands
    <2> QED BY <2>1, <2>2, <2>4, SaveApprovalStep
            DEF ResultsInv, ResultsTypeOK, ApprovalOps, ApprovalStatus
  <1>5. ASSUME NEW c \in ResCalls, ResAbandon(c)
        PROVE  ResultsInv'
    <2>1. ResIdle \in ResultCall
      BY DEF ResIdle, ResultCall, Scopes
    <2> QED BY <1>5, <2>1 DEF ResAbandon, ResultsInv, ResultsTypeOK, SenateStands,
                ResultReadsAreCurrent, ResIdle, ApprovalOps, AppealOps, ResultCall
  <1>6. ASSUME NEW a \in Appeals, SubmitAppeal(a)
        PROVE  ResultsInv'
    BY <1>6 DEF SubmitAppeal, ResultsInv, ResultsTypeOK, AppealStatus, SenateStands,
                ResultReadsAreCurrent, AppealOps, Needs
  <1>7. CASE UNCHANGED resultsVars
    BY <1>7 DEF resultsVars, ResultsInv, ResultsTypeOK, SenateStands, ResultReadsAreCurrent
  <1> QED BY <1>1, <1>2, <1>3, <1>4, <1>5, <1>6, <1>7, DecideAppealStep
          DEF ResultsNext, ApprovalOps

\* What is shown stays approved.
LEMMA ResultsInvariant == ResultsSpec => []ResultsInv
  <1>1. ResultsInit => ResultsInv
    BY DEF ResultsInit, ResultsInv, ResultsTypeOK, SenateStands, ResultReadsAreCurrent, ResIdle,
           ApprovalOps, AppealOps, ResultCall, Scopes
  <1> QED BY <1>1, ResultsStep, PTL DEF ResultsSpec

\* Whichever row a student's result is read from, Senate approved it and did not reject
\* it later, unless a decision was saved over one it had not seen.
THEOREM ResultsShownWereApproved == ResultsSpec => []ShownWasApproved
  <1>1. ResultsInv => ShownWasApproved
    BY DEF ResultsInv, SenateStands, ShownWasApproved, StudentResult, ApprovalFor, Scopes
  <1> QED BY <1>1, ResultsInvariant, PTL

\* Publication and the decision of an appeal are final, save for a save on a stale read.
THEOREM ResultDecisionsAreFinal == ResultsSpec => DecisionsAreFinal
  <1>1. ASSUME ResultsInv, NEW c \in ResCalls, NEW status, NEW decision,
               resCall[c].do \in ApprovalOps, SaveApproval(c, status, decision),
               NEW r \in Scopes, approval[r] = "published"
        PROVE  approval'[r] = "published" \/ r \in resRaced'
    <2>1. CASE resCall[c].on # r
      BY <1>1, <2>1 DEF SaveApproval, ResultsInv, ResultsTypeOK, ResultReadsAreCurrent
    <2>2. CASE resCall[c].on = r /\ resCall[c].stale
      BY <1>1, <2>2 DEF SaveApproval, Finish
    <2>3. CASE resCall[c].on = r /\ ~resCall[c].stale
      BY <1>1, <2>3 DEF ResultsInv, ResultReadsAreCurrent, ApprovalOps, Needs
    <2> QED BY <2>1, <2>2, <2>3
  <1>2. ASSUME ResultsInv, NEW c \in ResCalls, DecideAppeal(c),
               NEW a \in Appeals, appeal[a] \in {"upheld", "rejected"}
        PROVE  appeal'[a] = appeal[a] \/ a \in resRaced'
    <2>1. CASE resCall[c].on # a
      BY <1>2, <2>1 DEF DecideAppeal, ResultsInv, ResultsTypeOK, ResultReadsAreCurrent, AppealOps
    <2>2. CASE resCall[c].on = a /\ resCall[c].stale
      BY <1>2, <2>2 DEF DecideAppeal, Finish
    <2>3. CASE resCall[c].on = a /\ ~resCall[c].stale
      BY <1>2, <2>3 DEF DecideAppeal, ResultsInv, ResultReadsAreCurrent, AppealOps, Needs
    <2> QED BY <2>1, <2>2, <2>3
  <1>3. ASSUME ResultsInv, ResultsNext
        PROVE  /\ \A r \in Scopes : approval[r] = "published" =>
                     approval'[r] = "published" \/ r \in resRaced'
               /\ \A a \in Appeals : appeal[a] \in {"upheld", "rejected"} =>
                     appeal'[a] = appeal[a] \/ a \in resRaced'
    <2>1. ASSUME NEW c \in ResCalls,
                 SubmitForApproval(c) \/ ApproveResults(c) \/ RejectResults(c) \/ PublishResults(c)
          PROVE  /\ resCall[c].do \in ApprovalOps
                 /\ \E status, decision : SaveApproval(c, status, decision)
                 /\ appeal' = appeal
      BY <2>1 DEF SubmitForApproval, ApproveResults, RejectResults, PublishResults, ApprovalOps,
                  SaveApproval
    <2>2. ASSUME NEW c \in ResCalls, DecideAppeal(c) PROVE approval' = approval
      BY <2>2 DEF DecideAppeal
    <2>3. \/ \E c \in ResCalls : SubmitForApproval(c) \/ ApproveResults(c) \/ RejectResults(c)
                                    \/ PublishResults(c)
          \/ \E c \in ResCalls : DecideAppeal(c)
          \/ UNCHANGED <<approval, appeal>>
          \/ \E a \in Appeals : SubmitAppeal(a)
      BY <1>3 DEF ResultsNext, LoadResult, LoadAppeal, ResAbandon
    <2>4. ASSUME NEW a \in Appeals, SubmitAppeal(a)
          PROVE  approval' = approval /\ \A b \in Appeals :
                     appeal[b] \in {"upheld", "rejected"} => appeal'[b] = appeal[b]
      BY <1>3, <2>4 DEF SubmitAppeal, ResultsInv, ResultsTypeOK
    <2> QED BY <1>1, <1>2, <1>3, <2>1, <2>2, <2>3, <2>4
  <1>4. ResultsInv /\ [ResultsNext]_resultsVars =>
          [/\ \A r \in Scopes : approval[r] = "published" =>
                 approval'[r] = "published" \/ r \in resRaced'
           /\ \A a \in Appeals : appeal[a] \in {"upheld", "rejected"} =>
                 appeal'[a] = appeal[a] \/ a \in resRaced']_resultsVars
    BY <1>3
  <1> QED BY <1>4, ResultsInvariant, PTL DEF ResultsSpec, DecisionsAreFinal

----------------------------------------------------------------------------
(* Marks.                                                                  *)

MarkOps == {"record", "moderate", "flag", "clear"}
MarkRequest == [do : MarkOps \cup {"none"}, on : Assessments \cup {NoBand},
                row : MarkRow \cup {NoMark}, value : Scores \cup {NoScore}, stale : BOOLEAN]

\* A call that is not stale holds the row as it is stored.
MarkReadsAreCurrent ==
    \A c \in MarkCalls : markCall[c].do # "none" =>
        /\ markCall[c].on \in Assessments
        /\ ~markCall[c].stale => markCall[c].row = mark[markCall[c].on]
        /\ IF markCall[c].do = "record" THEN markCall[c].value \in Scores
           ELSE markCall[c].row \in MarkRow

MarksInv ==
    /\ MarksTypeOK
    /\ markCall \in [MarkCalls -> MarkRequest]
    /\ MarkReadsAreCurrent
    /\ FlagStaysUntilCleared

\* A save of a whole row: the flag it carries is the stored one, or the flag is what the
\* call decides, or the save is a race.
LEMMA SaveMarkStep ==
    ASSUME MarksInv, NEW c \in MarkCalls, markCall[c].do # "none", NEW row \in MarkRow,
           NEW cleared \in SUBSET Assessments, SaveMark(c, row, cleared),
           unflagged \subseteq cleared \cup {markCall[c].on},
           \/ markCall[c].stale \/ markCall[c].on \in markRaced
           \/ row.irregular \/ markCall[c].on \in cleared
    PROVE  MarksInv'
  <1> DEFINE a == markCall[c].on
  <1> USE DEF MarksInv
  <1>1. a \in Assessments
    BY DEF MarkReadsAreCurrent
  <1>2. /\ mark' = [mark EXCEPT ![a] = row]
        /\ unflagged' = cleared
        /\ markRaced \subseteq markRaced'
        /\ markCall[c].stale => a \in markRaced'
        /\ UNCHANGED <<scheme, dropped>>
    BY DEF SaveMark
  <1>3. \A d \in MarkCalls : markCall'[d] =
           IF d = c \/ markCall[d] = MarkIdle THEN MarkIdle
           ELSE [markCall[d] EXCEPT !.stale = @ \/ markCall[d].on = a]
    BY DEF SaveMark
  <1>4. MarkIdle \in MarkRequest
    BY DEF MarkIdle, MarkRequest
  <1>5. ASSUME NEW d \in MarkCalls, ~(d = c \/ markCall[d] = MarkIdle)
        PROVE  /\ markCall'[d] \in MarkRequest
               /\ markCall'[d].do = markCall[d].do
               /\ markCall'[d].on = markCall[d].on
               /\ markCall'[d].row = markCall[d].row
               /\ markCall'[d].value = markCall[d].value
               /\ ~markCall'[d].stale => ~markCall[d].stale /\ markCall[d].on # a
    <2>1. PICK b \in BOOLEAN : b = (markCall[d].stale \/ markCall[d].on = a)
      OBVIOUS
    <2>2. markCall'[d] = [markCall[d] EXCEPT !.stale = b]
      BY <1>3, <1>5, <2>1
    <2>3. /\ markCall'[d] \in MarkRequest
          /\ markCall'[d].do = markCall[d].do
          /\ markCall'[d].on = markCall[d].on
          /\ markCall'[d].row = markCall[d].row
          /\ markCall'[d].value = markCall[d].value
          /\ markCall'[d].stale = b
      BY <2>2 DEF MarkRequest
    <2> QED BY <2>1, <2>3
  <1>6. MarksTypeOK'
    BY <1>1, <1>2 DEF MarksTypeOK
  <1>7. markCall' \in [MarkCalls -> MarkRequest]
    BY <1>3, <1>4, <1>5 DEF SaveMark
  <1>8. MarkReadsAreCurrent'
    <2> SUFFICES ASSUME NEW d \in MarkCalls, markCall'[d].do # "none"
                 PROVE  /\ markCall'[d].on \in Assessments
                        /\ ~markCall'[d].stale => markCall'[d].row = mark'[markCall'[d].on]
                        /\ IF markCall'[d].do = "record" THEN markCall'[d].value \in Scores
                           ELSE markCall'[d].row \in MarkRow
      BY DEF MarkReadsAreCurrent
    <2>0. MarkIdle.do = "none"
      BY DEF MarkIdle
    <2>1. ~(d = c \/ markCall[d] = MarkIdle)
      BY <1>3, <2>0
    <2> QED BY <1>1, <1>2, <1>5, <2>1 DEF MarkReadsAreCurrent, MarksTypeOK
  <1>9. FlagStaysUntilCleared'
    BY <1>1, <1>2 DEF FlagStaysUntilCleared, MarksTypeOK
  <1> QED BY <1>6, <1>7, <1>8, <1>9

\* A call that begins holds the row it reads.
LEMMA BeginMarkStep ==
    ASSUME MarksInv, NEW c \in MarkCalls, NEW what \in MarkOps, NEW a \in Assessments,
           NEW value \in Scores \cup {NoScore}, BeginMark(c, what, a, value),
           IF what = "record" THEN value \in Scores ELSE mark[a] \in MarkRow
    PROVE  MarksInv'
  <1> USE DEF MarksInv
  <1>1. PICK new \in MarkRequest :
           /\ markCall' = [markCall EXCEPT ![c] = new]
           /\ new.do = what /\ new.on = a /\ new.row = mark[a] /\ new.value = value
    <2> DEFINE new == [do |-> what, on |-> a, row |-> mark[a], value |-> value, stale |-> FALSE]
    <2>1. new \in MarkRequest
      BY DEF MarkRequest, MarksTypeOK
    <2>2. markCall' = [markCall EXCEPT ![c] = new]
      BY DEF BeginMark
    <2>3. new.do = what /\ new.on = a /\ new.row = mark[a] /\ new.value = value
      OBVIOUS
    <2> HIDE DEF new
    <2> QED BY <2>1, <2>2, <2>3
  <1>2. UNCHANGED <<scheme, mark, dropped, unflagged, markRaced>>
    BY DEF BeginMark
  <1> QED BY <1>1, <1>2 DEF MarksTypeOK, MarkReadsAreCurrent, FlagStaysUntilCleared

\* Every step of the marks office.
LEMMA MarksStep == MarksInv /\ [MarksNext]_marksVars => MarksInv'
  <1> SUFFICES ASSUME MarksInv, [MarksNext]_marksVars PROVE MarksInv'
    OBVIOUS
  <1>1. ASSUME NEW c \in MarkCalls, NEW a \in Assessments, NEW score \in Scores,
               RecordMarkCheck(c, a, score)
        PROVE  MarksInv'
    BY <1>1, BeginMarkStep DEF RecordMarkCheck, MarkOps
  <1>2. ASSUME NEW c \in MarkCalls, NEW a \in Assessments, NEW what \in {"moderate", "flag", "clear"},
               NEW score \in Scores \cup {NoScore}, LoadMark(c, a, what, score)
        PROVE  MarksInv'
    BY <1>2, BeginMarkStep DEF LoadMark, MarkOps, MarksInv, MarksTypeOK
  <1>3. ASSUME NEW c \in MarkCalls, RecordMark(c)
        PROVE  MarksInv'
    <2> DEFINE row == [markCall[c].row EXCEPT !.score = markCall[c].value]
    <2>1. markCall[c].do = "record" /\ SaveMark(c, row, unflagged)
      BY <1>3 DEF RecordMark
    <2>2. markCall[c].row \in MarkRow \cup {NoMark} /\ markCall[c].value \in Scores
      BY <2>1 DEF MarksInv, MarkReadsAreCurrent, MarkRequest
    <2>3. row \in MarkRow /\ row.irregular = markCall[c].row.irregular
      <3>1. CASE markCall[c].row = NoMark
        <4>1. NoMark \in [score : {NoScore}, moderated : Scores \cup {NoScore}, irregular : BOOLEAN]
          BY DEF NoMark
        <4> QED BY <2>2, <3>1, <4>1 DEF MarkRow
      <3>2. CASE markCall[c].row \in MarkRow
        BY <2>2, <3>2 DEF MarkRow
      <3> QED BY <2>2, <3>1, <3>2
    <2>4. ~markCall[c].stale /\ markCall[c].on \notin markRaced =>
             row.irregular \/ markCall[c].on \in unflagged
      BY <2>1, <2>3 DEF MarksInv, MarkReadsAreCurrent, FlagStaysUntilCleared
    <2> HIDE DEF row
    <2> QED BY <2>1, <2>3, <2>4, SaveMarkStep DEF MarksInv, MarksTypeOK
  <1>4. ASSUME NEW c \in MarkCalls, ModerateMark(c)
        PROVE  MarksInv'
    <2> DEFINE row == [markCall[c].row EXCEPT !.moderated = markCall[c].value]
    <2>1. markCall[c].do = "moderate" /\ SaveMark(c, row, unflagged)
      BY <1>4 DEF ModerateMark
    <2>2. markCall[c].row \in MarkRow /\ markCall[c].value \in Scores \cup {NoScore}
      BY <2>1 DEF MarksInv, MarkReadsAreCurrent, MarkRequest
    <2>3. row \in MarkRow /\ row.irregular = markCall[c].row.irregular
      BY <2>2 DEF MarkRow
    <2>4. ~markCall[c].stale /\ markCall[c].on \notin markRaced =>
             row.irregular \/ markCall[c].on \in unflagged
      BY <2>1, <2>3 DEF MarksInv, MarkReadsAreCurrent, FlagStaysUntilCleared
    <2> HIDE DEF row
    <2> QED BY <2>1, <2>3, <2>4, SaveMarkStep DEF MarksInv, MarksTypeOK
  <1>5. ASSUME NEW c \in MarkCalls, FlagIrregularity(c)
        PROVE  MarksInv'
    <2> DEFINE row == [markCall[c].row EXCEPT !.irregular = TRUE]
    <2>1. markCall[c].do = "flag" /\ SaveMark(c, row, unflagged \ {markCall[c].on})
      BY <1>5 DEF FlagIrregularity
    <2>2. markCall[c].row \in MarkRow
      BY <2>1 DEF MarksInv, MarkReadsAreCurrent, MarkRequest
    <2>3. row \in MarkRow /\ row.irregular
      BY <2>2 DEF MarkRow
    <2> HIDE DEF row
    <2> QED BY <2>1, <2>3, SaveMarkStep DEF MarksInv, MarksTypeOK
  <1>6. ASSUME NEW c \in MarkCalls, ClearIrregularity(c)
        PROVE  MarksInv'
    <2> DEFINE row == [markCall[c].row EXCEPT !.irregular = FALSE]
    <2>1. markCall[c].do = "clear" /\ SaveMark(c, row, unflagged \cup {markCall[c].on})
      BY <1>6 DEF ClearIrregularity
    <2>2. markCall[c].row \in MarkRow /\ markCall[c].on \in Assessments
      BY <2>1 DEF MarksInv, MarkReadsAreCurrent, MarkRequest
    <2>3. row \in MarkRow
      BY <2>2 DEF MarkRow
    <2> HIDE DEF row
    <2> QED BY <2>1, <2>2, <2>3, SaveMarkStep DEF MarksInv, MarksTypeOK
  <1>7. ASSUME NEW c \in MarkCalls, MarkAbandon(c)
        PROVE  MarksInv'
    <2>1. MarkIdle \in MarkRequest /\ MarkIdle.do = "none"
      BY DEF MarkIdle, MarkRequest
    <2> QED BY <1>7, <2>1 DEF MarkAbandon, MarksInv, MarksTypeOK, MarkReadsAreCurrent,
                FlagStaysUntilCleared
  <1>8. ASSUME NEW a \in Assessments, NEW new \in Schemes, UpdateAssessment(a, new)
        PROVE  MarksInv'
    BY <1>8 DEF UpdateAssessment, MarksInv, MarksTypeOK, MarkReadsAreCurrent, FlagStaysUntilCleared
  <1>9. CASE DropRegistration
    BY <1>9 DEF DropRegistration, MarksInv, MarksTypeOK, MarkReadsAreCurrent, FlagStaysUntilCleared
  <1>10. CASE UNCHANGED marksVars
    BY <1>10 DEF marksVars, MarksInv, MarksTypeOK, MarkReadsAreCurrent, FlagStaysUntilCleared
  <1> QED BY <1>1, <1>2, <1>3, <1>4, <1>5, <1>6, <1>7, <1>8, <1>9, <1>10 DEF MarksNext

\* Flags stay on the rows that carry them.
LEMMA MarksInvariant == MarksSpec => []MarksInv
  <1>1. MarksInit => MarksInv
    <2>1. MarkIdle \in MarkRequest /\ MarkIdle.do = "none"
      BY DEF MarkIdle, MarkRequest
    <2> QED BY <2>1 DEF MarksInit, MarksInv, MarksTypeOK, MarkReadsAreCurrent, FlagStaysUntilCleared
  <1> QED BY <1>1, MarksStep, PTL DEF MarksSpec

\* No correction, moderation, change of the scheme or dropped registration takes the
\* flag off a mark; only clearing it does, or a save of a row read before the flag.
THEOREM FlagsStay == MarksSpec => []FlagStaysUntilCleared
  BY MarksInvariant, PTL DEF MarksInv

\* Integer division, and rounding half up, stay within their bounds.
LEMMA Quotient ==
    ASSUME NEW m \in Nat, NEW e \in Nat, e > 0
    PROVE  /\ m \div e \in Int /\ e * (m \div e) <= m /\ m < e * (m \div e) + e
  OBVIOUS

\* A part of at most the whole weight is rounded to at most the whole weight.
LEMMA HalfUpBound ==
    ASSUME NEW n \in Nat, NEW d \in Nat, d > 0, NEW w \in Nat, n <= w * d
    PROVE  HalfUp(n, d) \in 0..w
  <1>1. PICK m, e : m = 2 * n + d /\ e = 2 * d
    OBVIOUS
  <1>2. m \in Nat /\ e \in Nat /\ e > 0
    BY <1>1
  <1>3. PICK q : q = m \div e
    OBVIOUS
  <1>4. q \in Int /\ e * q <= m /\ m < e * q + e
    BY <1>2, <1>3, Quotient
  <1>5. q >= 0
    <2>1. CASE q < 0
      <3>1. e * q + e <= 0
        BY <1>2, <1>4, <2>1
      <3> QED BY <1>2, <1>4, <3>1
    <2> QED BY <1>4, <2>1
  <1>6. q <= w
    <2>1. CASE q >= w + 1
      <3>1. e * q >= e * (w + 1)
        BY <1>2, <1>4, <2>1
      <3>2. e * (w + 1) = 2 * (w * d) + 2 * d
        BY <1>1
      <3>3. w * d \in Nat
        OBVIOUS
      <3>4. e * q \in Int /\ e * (w + 1) \in Int
        BY <1>2, <1>4
      <3> QED BY <1>1, <1>4, <3>1, <3>2, <3>3, <3>4
    <2> QED BY <1>4, <2>1
  <1> QED BY <1>1, <1>3, <1>4, <1>5, <1>6 DEF HalfUp

\* The components as a function, and their sum.
LEMMA PercentIsTotal ==
    ASSUME NEW f, f = [a \in Assessments |-> Component(a)], \A a \in Assessments : mark[a] # NoMark
    PROVE  Percent = Total(f, Assessments)
  <1>1. {a \in Assessments : mark[a] # NoMark} = Assessments
    OBVIOUS
  <1>2. Percent = MapThenSumSet(Component, Assessments)
    BY <1>1 DEF Percent
  <1> DEFINE Q(g) == g = [s \in SUBSET Assessments |->
                            IF s = {} THEN 0 ELSE Component(First(s)) + g[s \ {First(s)}]]
  <1>3. PICK g : g = CHOOSE k : Q(k)
    OBVIOUS
  <1>4. Percent = g[Assessments]
    BY <1>2, <1>3 DEF MapThenSumSet, MapThenFoldSet, First
  <1>5. \A s \in SUBSET Assessments : s # {} => f[First(s)] = Component(First(s))
    BY DEF First
  <1>6. ASSUME NEW k PROVE Q(k) <=> IsTotal(k, f, Assessments)
    <2>1. [s \in SUBSET Assessments |-> IF s = {} THEN 0 ELSE Component(First(s)) + k[s \ {First(s)}]]
            = [s \in SUBSET Assessments |-> IF s = {} THEN 0 ELSE f[First(s)] + k[s \ {First(s)}]]
      BY <1>5
    <2> QED BY <2>1, Zenon DEF IsTotal
  <1>7. \E k : IsTotal(k, f, Assessments)
    BY TotalsExist, SchemesAssumption
  <1>8. Q(g)
    BY <1>3, <1>6, <1>7, Zenon
  <1>9. IsTotal(g, f, Assessments)
    BY <1>6, <1>8
  <1>10. Assessments \in SUBSET Assessments /\ IsFiniteSet(Assessments)
    BY SchemesAssumption
  <1>11. Total(f, Assessments) = g[Assessments]
    BY <1>9, <1>10, TotalOfSubset
  <1> QED BY <1>4, <1>11

\* The weights likewise.
LEMMA WeightsAreTotal ==
    ASSUME NEW w, w = [a \in Assessments |-> scheme[a].weight]
    PROVE  WeightsValid <=> Total(w, Assessments) = Top
  <1> DEFINE Q(g) == g = [s \in SUBSET Assessments |->
                            IF s = {} THEN 0 ELSE scheme[First(s)].weight + g[s \ {First(s)}]]
  <1>3. PICK g : g = CHOOSE k : Q(k)
    OBVIOUS
  <1>4. WeightsValid <=> g[Assessments] = Top
    BY <1>3 DEF WeightsValid, MapThenSumSet, MapThenFoldSet, First
  <1>5. \A s \in SUBSET Assessments : s # {} => w[First(s)] = scheme[First(s)].weight
    BY DEF First
  <1>6. ASSUME NEW k PROVE Q(k) <=> IsTotal(k, w, Assessments)
    <2>1. [s \in SUBSET Assessments |-> IF s = {} THEN 0 ELSE scheme[First(s)].weight + k[s \ {First(s)}]]
            = [s \in SUBSET Assessments |-> IF s = {} THEN 0 ELSE w[First(s)] + k[s \ {First(s)}]]
      BY <1>5
    <2> QED BY <2>1, Zenon DEF IsTotal
  <1>7. \E k : IsTotal(k, w, Assessments)
    BY TotalsExist, SchemesAssumption
  <1>8. Q(g)
    BY <1>3, <1>6, <1>7, Zenon
  <1>9. IsTotal(g, w, Assessments)
    BY <1>6, <1>8
  <1>10. Assessments \in SUBSET Assessments /\ IsFiniteSet(Assessments)
    BY SchemesAssumption
  <1>11. Total(w, Assessments) = g[Assessments]
    BY <1>9, <1>10, TotalOfSubset
  <1> QED BY <1>4, <1>11

\* A scale with a band for every percentage gives every percentage a letter.
LEMMA ScaleGrades ==
    ASSUME NEW p \in 0..Top
    PROVE  GradeFor(Scale, p) # NoBand
  <1>1. PICK hits : hits = {l \in Stored(Scale) : Covers(Scale[l], p)}
    OBVIOUS
  <1>2. PICK T : T = {Top - Scale[l].min : l \in hits}
    OBVIOUS
  <1>3. \A l \in hits : Scale[l].min \in 0..Top /\ l \in DOMAIN Scale
    BY <1>1, ScaleAssumption DEF Stored
  <1>4. T \in SUBSET Nat /\ T # {} /\ hits # {}
    <2>1. hits # {}
      BY <1>1, ScaleAssumption
    <2>2. \A l \in hits : Top - Scale[l].min \in Nat
      BY <1>3, BoundsAssumption
    <2> QED BY <1>2, <2>1, <2>2
  <1>5. PICK n \in T : \A m \in T : n <= m
    BY <1>4, LeastNumber
  <1>6. PICK l \in hits : n = Top - Scale[l].min
    BY <1>2, <1>5
  <1>7. \A k \in hits : Scale[k].min <= Scale[l].min
    <2> SUFFICES ASSUME NEW k \in hits PROVE Scale[k].min <= Scale[l].min
      OBVIOUS
    <2>1. Top - Scale[l].min <= Top - Scale[k].min
      BY <1>2, <1>5, <1>6
    <2> QED BY <1>3, <2>1, BoundsAssumption
  <1>8. PICK x : x = CHOOSE y \in hits : \A k \in hits : Scale[k].min <= Scale[y].min
    OBVIOUS
  <1>9. x \in hits
    BY <1>7, <1>8
  <1>10. GradeFor(Scale, p) = x
    BY <1>1, <1>4, <1>8 DEF GradeFor
  <1> QED BY <1>3, <1>9, <1>10, ScaleAssumption

\* In every state with rows of the right types.
LEMMA SoundMarks == MarksTypeOK => SoundMarksAreGraded
  <1> SUFFICES ASSUME MarksTypeOK PROVE SoundMarksAreGraded
    OBVIOUS
  <1>1. \A a \in Assessments : scheme[a].weight \in Nat /\ scheme[a].max \in Int
    BY SchemesAssumption DEF MarksTypeOK
  <1>2. ASSUME \A a \in Assessments : mark[a] # NoMark /\ ~mark[a].irregular, WeightsValid,
               \A a \in Assessments : EffectiveScore(mark[a]) \in 0..scheme[a].max
        PROVE  CourseResult # NoBand /\ Percent \in 0..Top
    <2>1. PICK f, w : /\ f = [a \in Assessments |-> Component(a)]
                      /\ w = [a \in Assessments |-> scheme[a].weight]
      OBVIOUS
    <2>2. ASSUME NEW a \in Assessments PROVE Component(a) \in 0..scheme[a].weight
      <3>1. PICK e, m, v : e = EffectiveScore(mark[a]) /\ m = scheme[a].max /\ v = scheme[a].weight
        OBVIOUS
      <3>2. e \in Nat /\ m \in Nat /\ e <= m /\ v \in Nat
        BY <1>1, <1>2, <3>1
      <3>3. CASE m = 0
        BY <3>1, <3>2, <3>3 DEF Component
      <3>4. CASE m > 0
        <4>1. e * v <= v * m /\ e * v \in Nat
          BY <3>2
        <4>2. PICK n : n = e * v
          OBVIOUS
        <4>3. HalfUp(n, m) \in 0..v
          BY <3>2, <3>4, <4>1, <4>2, HalfUpBound
        <4> QED BY <3>1, <3>4, <4>2, <4>3 DEF Component
      <3> QED BY <3>2, <3>3, <3>4
    <2>3. \A a \in Assessments : f[a] \in Nat /\ w[a] \in Nat /\ f[a] <= w[a]
      BY <1>1, <2>1, <2>2
    <2>4. Total(f, Assessments) <= Total(w, Assessments)
      BY <2>3, SumBounded, SchemesAssumption
    <2>5. Total(f, Assessments) \in Nat
      BY <2>3, SumSplitsOff, SchemesAssumption
    <2>6. Percent = Total(f, Assessments) /\ Total(w, Assessments) = Top
      BY <1>2, <2>1, PercentIsTotal, WeightsAreTotal
    <2>7. Percent \in 0..Top
      BY <2>4, <2>5, <2>6, SchemesAssumption
    <2>8. CourseResult = GradeFor(Scale, Percent)
      BY <1>2 DEF CourseResult
    <2> QED BY <2>7, <2>8, ScaleGrades
  <1>3. CourseResult # NoBand => /\ \A a \in Assessments : mark[a] # NoMark /\ ~mark[a].irregular
                                 /\ WeightsValid /\ MissingMarks = {}
    BY DEF CourseResult, MissingMarks
  <1> QED BY <1>2, <1>3 DEF SoundMarksAreGraded

\* Undisputed marks within their bounds always give a letter, for every set of
\* assessments, every scheme of weights and every scale with no hole.
THEOREM UndisputedMarksAreGraded == MarksSpec => []SoundMarksAreGraded
  BY MarksInvariant, SoundMarks, PTL DEF MarksInv

----------------------------------------------------------------------------
(* Attendance.                                                             *)

\* The percentage of a sessions attended out of a and b missed, rounded half up.
Share(a, b) == (20000 * a + (a + b)) \div (2 * (a + b))

\* More attended and fewer missed is never a smaller share.
LEMMA ShareGrows ==
    ASSUME NEW a \in Nat, NEW b \in Nat, NEW c \in Nat, NEW d \in Nat,
           a <= c, d <= b, a + b > 0, c + d > 0
    PROVE  Share(a, b) \in Int /\ Share(c, d) \in Int /\ Share(a, b) <= Share(c, d)
  <1>1. PICK t, u : t = a + b /\ u = c + d
    OBVIOUS
  <1>2. t \in Nat /\ u \in Nat /\ t > 0 /\ u > 0
    BY <1>1
  <1>3. PICK m, n : m = 20000 * a + t /\ n = 20000 * c + u
    OBVIOUS
  <1>4. m \in Nat /\ n \in Nat /\ 2 * t \in Nat /\ 2 * u \in Nat /\ 2 * t > 0 /\ 2 * u > 0
    BY <1>2, <1>3
  <1>5. PICK q, r : q = m \div (2 * t) /\ r = n \div (2 * u)
    OBVIOUS
  <1>6. /\ q \in Int /\ 2 * t * q <= m
        /\ r \in Int /\ n < 2 * u * r + 2 * u
    BY <1>4, <1>5, Quotient
  <1>7. ASSUME r < q PROVE FALSE
    <2>1. 2 * u * r + 2 * u <= 2 * u * q
      BY <1>2, <1>6, <1>7
    <2>2. n < 2 * u * q
      BY <1>2, <1>4, <1>6, <2>1
    <2>3. n * t < 2 * u * q * t
      BY <1>2, <1>4, <1>6, <2>2
    <2>4. 2 * t * q * u <= m * u
      BY <1>2, <1>4, <1>6
    <2>5. 2 * t * q * u = 2 * u * q * t
      BY <1>2, <1>6
    <2>6. n * t < m * u
      <3>1. n * t \in Int /\ m * u \in Int /\ 2 * u * q * t \in Int
        BY <1>2, <1>4, <1>6
      <3> QED BY <2>3, <2>4, <2>5, <3>1
    <2>7. n * t = 20000 * (c * t) + u * t /\ m * u = 20000 * (a * u) + u * t
      BY <1>2, <1>3
    <2>8. c * t < a * u
      <3>1. c * t \in Int /\ a * u \in Int /\ u * t \in Int
        BY <1>2
      <3> QED BY <2>6, <2>7, <3>1
    <2>9. c * t = c * a + c * b /\ a * u = a * c + a * d
      BY <1>1
    <2>10. a * d <= c * b
      <3>1. a * d <= c * d
        OBVIOUS
      <3>2. c * d <= c * b
        OBVIOUS
      <3>3. a * d \in Int /\ c * d \in Int /\ c * b \in Int
        OBVIOUS
      <3> QED BY <3>1, <3>2, <3>3
    <2>11. c * a = a * c /\ c * a \in Int /\ c * b \in Int /\ a * d \in Int
      OBVIOUS
    <2> QED BY <2>8, <2>9, <2>10, <2>11
  <1>8. Share(a, b) = q /\ Share(c, d) = r
    BY <1>1, <1>3, <1>5 DEF Share
  <1> QED BY <1>6, <1>7, <1>8

\* The sessions a register counts for and against r.
Here(register, r) == {s \in Sessions : register[s][r] \in Attended}
Missed(register, r) == {s \in Sessions : register[s][r] = "absent"}
Counted(register, r) == {s \in Sessions : register[s][r] \notin {"none", "excused"}}
BelowShare(register, r) ==
    /\ Cardinality(Here(register, r)) + Cardinality(Missed(register, r)) > 0
    /\ Share(Cardinality(Here(register, r)), Cardinality(Missed(register, r))) < Threshold

\* What counts is attended or missed, and not both.
LEMMA CountedOnce ==
    ASSUME NEW register \in SessionRecord, NEW r \in Roster
    PROVE  /\ IsFiniteSet(Here(register, r)) /\ IsFiniteSet(Missed(register, r))
           /\ Cardinality(Here(register, r)) \in Nat /\ Cardinality(Missed(register, r)) \in Nat
           /\ Cardinality(Counted(register, r)) =
                 Cardinality(Here(register, r)) + Cardinality(Missed(register, r))
  <1>1. \A s \in Sessions : register[s][r] \in AttendanceStatus \cup {"none"}
    BY DEF SessionRecord
  <1>2. PICK H, M : H = Here(register, r) /\ M = Missed(register, r)
    OBVIOUS
  <1>3. Counted(register, r) = H \cup M /\ H \cap M = {}
    BY <1>1, <1>2 DEF Here, Missed, Counted, AttendanceStatus, Attended
  <1>4. IsFiniteSet(H) /\ IsFiniteSet(M)
    BY <1>2, FS_Subset, ThresholdAssumption DEF Here, Missed
  <1>5. Cardinality(H \cup M) = Cardinality(H) + Cardinality(M) - Cardinality({})
    BY <1>3, <1>4, FS_Union
  <1>6. PICK x, y, z : x = Cardinality(H) /\ y = Cardinality(M) /\ z = Cardinality({})
    OBVIOUS
  <1>7. x \in Nat /\ y \in Nat /\ z = 0
    BY <1>4, <1>6, FS_CardinalityType, FS_EmptySet
  <1>8. Cardinality(H \cup M) = x + y
    BY <1>5, <1>6, <1>7
  <1> QED BY <1>2, <1>3, <1>4, <1>6, <1>7, <1>8

\* is_below_threshold compares the share of the sessions that count.
LEMMA BelowIsShare ==
    ASSUME record \in SessionRecord, NEW r \in Roster
    PROVE  IsBelowThreshold(r) <=> BelowShare(record, r)
  <1>1. PICK a, b, t : /\ a = Cardinality(Here(record, r)) /\ b = Cardinality(Missed(record, r))
                       /\ t = Cardinality(Counted(record, r))
    OBVIOUS
  <1>2. a \in Nat /\ b \in Nat /\ t = a + b
    BY <1>1, CountedOnce
  <1>3. /\ AttendanceSummary(r).total = t
        /\ t > 0 => AttendanceSummary(r).percentage = (20000 * a + t) \div (2 * t)
    BY <1>1, <1>2 DEF AttendanceSummary, Counted, Here
  <1> QED BY <1>1, <1>2, <1>3 DEF IsBelowThreshold, BelowShare, Share

\* The same of the next state.
LEMMA BelowIsShareNext ==
    ASSUME record' \in SessionRecord, NEW r \in Roster
    PROVE  IsBelowThreshold(r)' <=> BelowShare(record', r)
  <1>1. PICK a, b, t : /\ a = Cardinality(Here(record', r)) /\ b = Cardinality(Missed(record', r))
                       /\ t = Cardinality(Counted(record', r))
    OBVIOUS
  <1>2. a \in Nat /\ b \in Nat /\ t = a + b
    BY <1>1, CountedOnce
  <1>3. /\ AttendanceSummary(r)'.total = t
        /\ t > 0 => AttendanceSummary(r)'.percentage = (20000 * a + t) \div (2 * t)
    BY <1>1, <1>2 DEF AttendanceSummary, Counted, Here
  <1> QED BY <1>1, <1>2, <1>3 DEF IsBelowThreshold, BelowShare, Share

\* The threshold is a share of the sessions.
LEMMA ThresholdIsShare == Threshold \in Int /\ Threshold <= 10000
  <1>1. Threshold \in 0..10000
    BY ThresholdAssumption
  <1> QED BY <1>1

\* Nobody is barred by a register that takes no attended session away and adds no
\* absence.
LEMMA NoAbsenceNoBar ==
    ASSUME NEW old \in SessionRecord, NEW new \in SessionRecord, NEW r \in Roster,
           ~BelowShare(old, r),
           \A s \in Sessions : /\ old[s][r] \in Attended => new[s][r] \in Attended
                               /\ new[s][r] = "absent" => old[s][r] = "absent"
    PROVE  ~BelowShare(new, r)
  <1>1. PICK a, b : a = Cardinality(Here(old, r)) /\ b = Cardinality(Missed(old, r))
    OBVIOUS
  <1>2. PICK c, d : c = Cardinality(Here(new, r)) /\ d = Cardinality(Missed(new, r))
    OBVIOUS
  <1>3. /\ a \in Nat /\ b \in Nat /\ c \in Nat /\ d \in Nat
        /\ IsFiniteSet(Missed(old, r)) /\ IsFiniteSet(Here(new, r))
    BY <1>1, <1>2, CountedOnce
  <1>4. Here(old, r) \subseteq Here(new, r) /\ Missed(new, r) \subseteq Missed(old, r)
    BY DEF Here, Missed
  <1>5. a <= c /\ d <= b
    BY <1>1, <1>2, <1>3, <1>4, FS_Subset
  <1>6. ~(a + b > 0 /\ Share(a, b) < Threshold)
    BY <1>1 DEF BelowShare
  <1>7. Threshold \in Int /\ Threshold <= 10000
    BY ThresholdIsShare
  <1>8. ASSUME c + d > 0, Share(c, d) < Threshold PROVE FALSE
    <2>1. CASE a + b > 0
      <3>1. Share(a, b) \in Int /\ Share(c, d) \in Int /\ Share(a, b) <= Share(c, d)
        BY <1>3, <1>5, <1>8, <2>1, ShareGrows
      <3> QED BY <1>6, <1>7, <1>8, <2>1, <3>1
    <2>2. CASE a + b = 0
      <3>1. 1 \in Nat /\ 0 \in Nat /\ 1 <= c /\ d <= 0 /\ 1 + 0 > 0
        BY <1>3, <1>5, <1>8, <2>2
      <3>2. Share(1, 0) \in Int /\ Share(c, d) \in Int /\ Share(1, 0) <= Share(c, d)
        BY <1>3, <1>8, <3>1, ShareGrows
      <3>3. Share(1, 0) = 10000
        BY DEF Share
      <3> QED BY <1>7, <1>8, <3>2, <3>3
    <2> QED BY <1>3, <2>1, <2>2
  <1> QED BY <1>2, <1>8 DEF BelowShare

\* Registers and waivers keep their types.
LEMMA AttendanceTypes == AttendanceSpec => []AttendanceTypeOK
  <1>1. AttendanceInit => AttendanceTypeOK
    BY DEF AttendanceInit, AttendanceTypeOK, SessionRecord
  <1>2. AttendanceTypeOK /\ [AttendanceNext]_attendanceVars => AttendanceTypeOK'
    <2> SUFFICES ASSUME AttendanceTypeOK, [AttendanceNext]_attendanceVars PROVE AttendanceTypeOK'
      OBVIOUS
    <2>1. ASSUME NEW s \in Sessions, NEW R \in SUBSET Roster, NEW marks \in [R -> AttendanceStatus],
                 Upsert(s, marks)
          PROVE  AttendanceTypeOK'
      <3>1. record' = [record EXCEPT ![s] = [r \in Roster |-> IF r \in R THEN marks[r] ELSE record[s][r]]]
        BY <2>1 DEF Upsert
      <3>2. [r \in Roster |-> IF r \in R THEN marks[r] ELSE record[s][r]]
               \in [Roster -> AttendanceStatus \cup {"none"}]
        BY DEF AttendanceTypeOK, SessionRecord
      <3>3. record' \in SessionRecord
        BY <3>1, <3>2 DEF AttendanceTypeOK, SessionRecord
      <3> QED BY <2>1, <3>3 DEF AttendanceTypeOK, Upsert
    <2>2. ASSUME NEW s \in Sessions, NEW r \in Roster, NEW status \in AttendanceStatus,
                 SyncSession(s, r, status)
          PROVE  AttendanceTypeOK'
      <3>1. PICK marks : marks = [q \in {r} |-> status]
        OBVIOUS
      <3>2. {r} \in SUBSET Roster /\ marks \in [{r} -> AttendanceStatus] /\ Upsert(s, marks)
        BY <2>2, <3>1 DEF SyncSession
      <3> QED BY <2>1, <3>2
    <2>3. ASSUME NEW r \in Roster, LeaveRoster(r) \/ GrantWaiver(r) PROVE AttendanceTypeOK'
      BY <2>3 DEF AttendanceTypeOK, LeaveRoster, GrantWaiver
    <2>4. CASE UNCHANGED attendanceVars
      BY <2>4 DEF AttendanceTypeOK, attendanceVars
    <2> QED BY <2>1, <2>2, <2>3, <2>4 DEF AttendanceNext, RecordSession
  <1> QED BY <1>1, <1>2, PTL DEF AttendanceSpec

\* No step bars a student except by an absence or by attendance taken away, however
\* many sessions there are and wherever the threshold lies.
THEOREM OnlyAbsenceBars == AttendanceSpec => BarredOnlyByAbsence
  <1>1. AttendanceTypeOK /\ AttendanceTypeOK' /\ [AttendanceNext]_attendanceVars =>
          [\A r \in Roster : ExamEligible(r) /\ ~ExamEligible(r)' =>
             \E s \in Sessions :
                \/ record[s][r] # "absent" /\ record'[s][r] = "absent"
                \/ record[s][r] \in Attended /\ record'[s][r] = "excused"]_attendanceVars
    <2> SUFFICES ASSUME AttendanceTypeOK, AttendanceTypeOK', AttendanceNext, NEW r \in Roster,
                        ExamEligible(r), ~ExamEligible(r)',
                        \A s \in Sessions : /\ ~(record[s][r] # "absent" /\ record'[s][r] = "absent")
                                            /\ ~(record[s][r] \in Attended /\ record'[s][r] = "excused")
                 PROVE  FALSE
      OBVIOUS
    <2>1. record \in SessionRecord /\ record' \in SessionRecord
      BY DEF AttendanceTypeOK
    <2>2. waived \subseteq waived'
      BY DEF AttendanceNext, RecordSession, SyncSession, Upsert, LeaveRoster, GrantWaiver
    <2>3. ~BelowShare(record, r) /\ BelowShare(record', r)
      BY <2>1, <2>2, BelowIsShare, BelowIsShareNext DEF ExamEligible
    <2>4. \A s \in Sessions : record'[s][r] = record[s][r] \/ record'[s][r] # "none"
      <3>1. ASSUME NEW s \in Sessions, NEW R \in SUBSET Roster, NEW marks \in [R -> AttendanceStatus],
                   Upsert(s, marks), NEW u \in Sessions
            PROVE  record'[u][r] = record[u][r] \/ record'[u][r] # "none"
        <4>1. record' = [record EXCEPT ![s] = [q \in Roster |-> IF q \in R THEN marks[q] ELSE record[s][q]]]
          BY <3>1 DEF Upsert
        <4>2. record'[u] = IF u = s THEN [q \in Roster |-> IF q \in R THEN marks[q] ELSE record[s][q]]
                           ELSE record[u]
          BY <2>1, <4>1 DEF SessionRecord
        <4>3. r \in R => marks[r] # "none"
          BY DEF AttendanceStatus
        <4> QED BY <4>2, <4>3
      <3>2. ASSUME NEW s \in Sessions, NEW q \in Roster, NEW status \in AttendanceStatus,
                   SyncSession(s, q, status), NEW u \in Sessions
            PROVE  record'[u][r] = record[u][r] \/ record'[u][r] # "none"
        <4>1. PICK marks : marks = [x \in {q} |-> status]
          OBVIOUS
        <4>2. {q} \in SUBSET Roster /\ marks \in [{q} -> AttendanceStatus] /\ Upsert(s, marks)
          BY <3>2, <4>1 DEF SyncSession
        <4> QED BY <3>1, <4>2
      <3>3. ASSUME NEW q \in Roster, LeaveRoster(q) \/ GrantWaiver(q) PROVE record' = record
        BY <3>3 DEF LeaveRoster, GrantWaiver
      <3> QED BY <3>1, <3>2, <3>3 DEF AttendanceNext, RecordSession
    <2>5. \A s \in Sessions : /\ record[s][r] \in Attended => record'[s][r] \in Attended
                              /\ record'[s][r] = "absent" => record[s][r] = "absent"
      <3>1. \A s \in Sessions : record'[s][r] \in AttendanceStatus \cup {"none"}
        BY <2>1 DEF SessionRecord
      <3> QED BY <2>4, <3>1 DEF AttendanceStatus, Attended
    <2> QED BY <2>1, <2>3, <2>5, NoAbsenceNoBar
  <1> QED BY <1>1, AttendanceTypes, PTL DEF AttendanceSpec, BarredOnlyByAbsence

----------------------------------------------------------------------------
(* Timetables.                                                             *)

TtRows == UNION {[D -> Slot] : D \in SUBSET Entries}
TtRequest == [do : {"create", "update", "publish"}, rows : TtRows, keep : BOOLEAN, stale : BOOLEAN]

TtInvType ==
    /\ TtTypeOK
    /\ ttRaced \in BOOLEAN
    /\ unchecked \subseteq Entries
    /\ ttCall \in [TtCalls -> TtRequest \cup {TtIdle}]

\* A row does not clash with the slot of f, except over invigilators nobody asked.
Clear(row, f, excused) ==
    /\ ~(SharesRoom(row, slot[f]) /\ Overlap(row, slot[f]))
    /\ ~(SharesStaff(row, slot[f]) /\ Overlap(row, slot[f])) \/ excused

\* What a request that is not stale is about to save fits the schedule as it is.
FitsAt(call, e) ==
    /\ call.do = "create" => slot[e] = NoSlot /\ ~call.keep
    /\ call.do # "create" => slot[e] # NoSlot
    /\ call.do = "update" /\ call.keep => call.rows[e].staff = slot[e].staff
    /\ call.do # "publish" => \A f \in Booked \ {e} : Clear(call.rows[e], f, call.keep)
    /\ call.do = "publish" => call.rows[e] = [slot[e] EXCEPT !.published = TRUE]

Fits(call) ==
    /\ call.do # "publish" => \A e, f \in DOMAIN call.rows : e = f
    /\ ~call.stale => \A e \in DOMAIN call.rows : FitsAt(call, e)

TtReadsAreCurrent == \A c \in TtCalls : ttCall[c] # TtIdle => Fits(ttCall[c])

ClashFree ==
    \/ ttRaced
    \/ \A e, f \in Booked : e # f => Clear(slot[e], f, e \in unchecked \/ f \in unchecked)

TtInv == TtInvType /\ TtReadsAreCurrent /\ ClashFree

\* Two slots clash both ways or not at all.
LEMMA ClashIsSymmetric ==
    ASSUME NEW a, NEW b
    PROVE  /\ SharesRoom(a, b) <=> SharesRoom(b, a)
           /\ SharesStaff(a, b) <=> SharesStaff(b, a)
           /\ Overlap(a, b) <=> Overlap(b, a)
  BY DEF SharesRoom, SharesStaff, Overlap

\* A row that clashes with no other slot may be put into the schedule.
LEMMA PlaceSlot ==
    ASSUME TtInv, NEW e \in Entries, NEW row \in Slot,
           slot' = [slot EXCEPT ![e] = row],
           ttRaced' \in BOOLEAN, ttRaced => ttRaced',
           unchecked \ {e} \subseteq unchecked',
           ttRaced' \/ \A f \in Booked \ {e} : Clear(row, f, e \in unchecked' \/ f \in unchecked')
    PROVE  ClashFree'
  <1> SUFFICES ASSUME ~ttRaced', NEW f \in Booked', NEW g \in Booked', f # g
               PROVE  Clear(slot[f], g, f \in unchecked \/ g \in unchecked)'
    BY DEF ClashFree
  <1>0. slot \in [Entries -> Slot \cup {NoSlot}]
    BY DEF TtInv, TtInvType, TtTypeOK
  <1>1. \A h \in Entries : slot'[h] = IF h = e THEN row ELSE slot[h]
    BY <1>0
  <1>2. \A h \in Booked' : h \in Entries /\ (h # e => h \in Booked)
    BY <1>1 DEF Booked
  <1>3. \A h \in Booked \ {e} : Clear(row, h, e \in unchecked' \/ h \in unchecked')
    OBVIOUS
  <1>4. CASE f = e
    BY <1>1, <1>2, <1>3, <1>4 DEF Clear
  <1>5. CASE g = e
    <2>1. Clear(row, f, e \in unchecked' \/ f \in unchecked')
      BY <1>2, <1>3, <1>5
    <2>2. slot'[f] = slot[f] /\ slot'[g] = row
      BY <1>1, <1>2, <1>5
    <2> QED BY <1>5, <2>1, <2>2, ClashIsSymmetric DEF Clear
  <1>6. CASE f # e /\ g # e
    <2>1. Clear(slot[f], g, f \in unchecked \/ g \in unchecked)
      BY <1>2, <1>6 DEF TtInv, ClashFree
    <2>2. slot'[f] = slot[f] /\ slot'[g] = slot[g]
      BY <1>1, <1>2, <1>6
    <2> QED BY <1>6, <2>1, <2>2 DEF Clear
  <1> QED BY <1>4, <1>5, <1>6

\* A request that begins on a checked row leaves the schedule as it is.
LEMMA BeginStep ==
    ASSUME TtInv, NEW c \in TtCalls, NEW what \in {"create", "update", "publish"},
           NEW rows \in TtRows, NEW keep \in BOOLEAN, BeginTt(c, what, rows, keep),
           Fits([do |-> what, rows |-> rows, keep |-> keep, stale |-> FALSE])
    PROVE  TtInv'
  <1>0. PICK call : call = [do |-> what, rows |-> rows, keep |-> keep, stale |-> FALSE]
    OBVIOUS
  <1>1. call \in TtRequest /\ Fits(call)
    BY <1>0 DEF TtRequest
  <1>2. /\ ttCall \in [TtCalls -> TtRequest \cup {TtIdle}]
        /\ ttCall' = [ttCall EXCEPT ![c] = call]
        /\ UNCHANGED <<board, slot, ttRaced, unchecked>>
    BY <1>0 DEF TtInv, TtInvType, BeginTt
  <1>3. \A d \in TtCalls : ttCall'[d] = IF d = c THEN call ELSE ttCall[d]
    BY <1>2
  <1>4. TtInvType'
    <2>1. \A e \in DOMAIN call.rows : call.rows[e] \in Slot
      BY <1>1 DEF TtRequest, TtRows
    <2>2. ttCall' \in [TtCalls -> TtRequest \cup {TtIdle}]
      BY <1>1, <1>2
    <2> QED BY <1>2, <1>3, <2>1, <2>2 DEF TtInv, TtInvType, TtTypeOK
  <1>5. TtReadsAreCurrent'
    <2> SUFFICES ASSUME NEW d \in TtCalls, ttCall'[d] # TtIdle
                 PROVE  Fits(ttCall[d])'
      BY DEF TtReadsAreCurrent
    <2>1. Fits(ttCall'[d])
      BY <1>1, <1>3 DEF TtInv, TtReadsAreCurrent
    <2> QED BY <1>2, <2>1 DEF Fits, FitsAt, Clear, Booked
  <1>6. ClashFree'
    BY <1>2 DEF TtInv, ClashFree, Clear, Booked
  <1> QED BY <1>4, <1>5, <1>6 DEF TtInv

\* What a check accepts clashes with nothing.
LEMMA AcceptedIsClear ==
    ASSUME NEW e, NEW new, NEW keep \in BOOLEAN, Acceptable(e, new, keep), NEW f \in Booked \ {e}
    PROVE  Clear(new, f, keep)
  BY DEF Acceptable, RoomBusy, StaffBusy, Clear

\* A request of one row fits when its row does.
LEMMA OneRow ==
    ASSUME NEW e \in Entries, NEW new \in Slot, NEW what \in {"create", "update"},
           NEW keep \in BOOLEAN,
           what = "create" => slot[e] = NoSlot /\ ~keep,
           what = "update" => slot[e] # NoSlot,
           what = "update" /\ keep => new.staff = slot[e].staff,
           Acceptable(e, new, keep)
    PROVE  /\ [f \in {e} |-> new] \in TtRows
           /\ Fits([do |-> what, rows |-> [f \in {e} |-> new], keep |-> keep, stale |-> FALSE])
  <1>1. [f \in {e} |-> new] \in TtRows
    <2>1. [f \in {e} |-> new] \in [{e} -> Slot] /\ {e} \in SUBSET Entries
      OBVIOUS
    <2> QED BY <2>1, Zenon DEF TtRows
  <1>2. \A f \in Booked \ {e} : Clear(new, f, keep)
    BY AcceptedIsClear
  <1>3. PICK rows : rows = [f \in {e} |-> new]
    OBVIOUS
  <1>4. DOMAIN rows = {e} /\ rows[e] = new
    BY <1>3
  <1>5. Fits([do |-> what, rows |-> rows, keep |-> keep, stale |-> FALSE])
    BY <1>2, <1>4 DEF Fits, FitsAt
  <1> QED BY <1>1, <1>3, <1>5

\* The other requests learn that they have been overtaken.
LEMMA OvertakenStep ==
    ASSUME TtInv, NEW d \in TtCalls, ttCall[d] # TtIdle,
           NEW call, call = [ttCall[d] EXCEPT !.stale = TRUE]
    PROVE  call \in TtRequest /\ Fits(call)'
  <1>1. ttCall[d] \in TtRequest /\ Fits(ttCall[d])
    BY DEF TtInv, TtInvType, TtReadsAreCurrent
  <1>2. /\ call \in TtRequest /\ call.stale
        /\ call.do = ttCall[d].do /\ call.rows = ttCall[d].rows
    BY <1>1 DEF TtRequest
  <1>3. Fits(call)'
    BY <1>1, <1>2 DEF Fits
  <1> QED BY <1>2, <1>3

\* Only a request under way has rows, and they are those of a request.
LEMMA RowsOfARequest ==
    ASSUME TtInv, NEW c \in TtCalls, NEW e \in DOMAIN ttCall[c].rows
    PROVE  /\ ttCall[c] \in TtRequest /\ ttCall[c] # TtIdle /\ Fits(ttCall[c])
           /\ e \in Entries /\ ttCall[c].rows[e] \in Slot
  <1>0. DOMAIN TtIdle.rows = {}
    BY DEF TtIdle
  <1>1. ttCall[c] # TtIdle
    BY <1>0
  <1>2. ttCall[c] \in TtRequest /\ Fits(ttCall[c])
    BY <1>1 DEF TtInv, TtInvType, TtReadsAreCurrent
  <1>3. ttCall[c].rows \in TtRows
    BY <1>2 DEF TtRequest
  <1> QED BY <1>1, <1>2, <1>3 DEF TtRows

\* What is saved: the row, with the invigilators the exam has now if they stay.
SavedRow(c, e) ==
    IF ttCall[c].keep THEN [ttCall[c].rows[e] EXCEPT !.staff =
                              IF slot[e] = NoSlot THEN {} ELSE slot[e].staff]
    ELSE ttCall[c].rows[e]

\* A saved row is a slot, and one that is not stale has the room, the times and the
\* staff that were checked.
LEMMA SavedRowIsChecked ==
    ASSUME TtInv, NEW c \in TtCalls, NEW e \in DOMAIN ttCall[c].rows
    PROVE  /\ SavedRow(c, e) \in Slot
           /\ ~ttCall[c].stale =>
                 LET row == IF ttCall[c].do = "publish" THEN slot[e] ELSE ttCall[c].rows[e]
                 IN  /\ SavedRow(c, e).day = row.day /\ SavedRow(c, e).start = row.start
                     /\ SavedRow(c, e).end = row.end /\ SavedRow(c, e).room = row.room
                     /\ SavedRow(c, e).staff = row.staff
  <1>1. /\ ttCall[c] \in TtRequest /\ Fits(ttCall[c])
        /\ e \in Entries /\ ttCall[c].rows[e] \in Slot
    BY RowsOfARequest
  <1>2. slot[e] \in Slot \cup {NoSlot}
    BY <1>1 DEF TtInv, TtInvType, TtTypeOK
  <1>3. PICK kept : kept = IF slot[e] = NoSlot THEN {} ELSE slot[e].staff
    OBVIOUS
  <1>4. kept \in SUBSET Staff
    BY <1>2, <1>3 DEF Slot
  <1>5. SavedRow(c, e) = IF ttCall[c].keep THEN [ttCall[c].rows[e] EXCEPT !.staff = kept]
                         ELSE ttCall[c].rows[e]
    BY <1>3 DEF SavedRow
  <1>6. SavedRow(c, e) \in Slot
    BY <1>1, <1>4, <1>5 DEF Slot
  <1>7. ASSUME ~ttCall[c].stale
        PROVE  LET row == IF ttCall[c].do = "publish" THEN slot[e] ELSE ttCall[c].rows[e]
               IN  /\ SavedRow(c, e).day = row.day /\ SavedRow(c, e).start = row.start
                   /\ SavedRow(c, e).end = row.end /\ SavedRow(c, e).room = row.room
                   /\ SavedRow(c, e).staff = row.staff
    <2>1. FitsAt(ttCall[c], e)
      BY <1>1, <1>7 DEF Fits
    <2>2. CASE ttCall[c].do = "publish"
      <3>1. slot[e] \in Slot /\ ttCall[c].rows[e] = [slot[e] EXCEPT !.published = TRUE]
        BY <1>2, <2>1, <2>2 DEF FitsAt
      <3> QED BY <1>1, <1>3, <1>5, <2>2, <3>1, NoSlotAssumption DEF Slot
    <2>3. CASE ttCall[c].do = "create"
      BY <1>1, <1>5, <2>1, <2>3 DEF FitsAt
    <2>4. CASE ttCall[c].do = "update"
      <3>1. ttCall[c].keep => ttCall[c].rows[e].staff = kept
        BY <1>3, <2>1, <2>4 DEF FitsAt
      <3> QED BY <1>1, <1>5, <2>4, <3>1 DEF Slot
    <2> QED BY <1>1, <2>2, <2>3, <2>4 DEF TtRequest
  <1> QED BY <1>6, <1>7

\* The rows a publication has still to save are as they were.
LEMMA RestOfARequest ==
    ASSUME TtInv, NEW c \in TtCalls, NEW e \in DOMAIN ttCall[c].rows, NEW row,
           slot' = [slot EXCEPT ![e] = row], NEW call,
           call = [ttCall[c] EXCEPT !.rows = [f \in (DOMAIN ttCall[c].rows) \ {e} |-> ttCall[c].rows[f]]]
    PROVE  call \in TtRequest /\ Fits(call)'
  <1>1. /\ ttCall[c] \in TtRequest /\ Fits(ttCall[c])
        /\ e \in Entries /\ slot \in [Entries -> Slot \cup {NoSlot}]
    BY RowsOfARequest DEF TtInv, TtInvType, TtTypeOK
  <1>2. PICK rest : rest = [f \in (DOMAIN ttCall[c].rows) \ {e} |-> ttCall[c].rows[f]]
    OBVIOUS
  <1>3. PICK D \in SUBSET Entries : ttCall[c].rows \in [D -> Slot]
    BY <1>1 DEF TtRequest, TtRows
  <1>4. /\ rest \in [D \ {e} -> Slot] /\ DOMAIN ttCall[c].rows = D
        /\ \A f \in D \ {e} : rest[f] = ttCall[c].rows[f]
    BY <1>2, <1>3
  <1>5. rest \in TtRows
    <2>1. D \ {e} \in SUBSET Entries
      BY <1>3
    <2> QED BY <1>4, <2>1, Zenon DEF TtRows
  <1>6. /\ call \in TtRequest /\ call.rows = rest /\ call.do = ttCall[c].do
        /\ call.stale = ttCall[c].stale /\ call.keep = ttCall[c].keep
    BY <1>1, <1>2, <1>5 DEF TtRequest
  <1>7. Fits(call)'
    <2>1. CASE call.do # "publish"
      <3>1. D \subseteq {e}
        BY <1>1, <1>4, <1>6, <2>1 DEF Fits
      <3>2. DOMAIN call.rows = {}
        BY <1>4, <1>6, <3>1
      <3> QED BY <3>2 DEF Fits
    <2>2. CASE call.do = "publish"
      <3>1. \A f \in D \ {e} : slot'[f] = slot[f]
        BY <1>1, <1>3
      <3>2. ~call.stale => \A f \in D \ {e} : FitsAt(ttCall[c], f)
        BY <1>1, <1>4, <1>6 DEF Fits
      <3>3. ~call.stale => \A f \in D \ {e} : FitsAt(call, f)'
        BY <1>4, <1>6, <2>2, <3>1, <3>2 DEF FitsAt
      <3> QED BY <1>4, <1>6, <2>2, <3>3 DEF Fits
    <2> QED BY <2>1, <2>2
  <1> QED BY <1>6, <1>7

\* A save: the row fits, or the request was overtaken and that is recorded.
LEMMA SaveStep ==
    ASSUME TtInv, NEW c \in TtCalls, NEW e \in DOMAIN ttCall[c].rows, SaveSlot(c, e)
    PROVE  TtInv'
  <1>1. /\ ttCall[c] \in TtRequest /\ ttCall[c] # TtIdle /\ Fits(ttCall[c])
        /\ e \in Entries /\ ttCall[c].rows[e] \in Slot
    BY RowsOfARequest
  <1>2. PICK row : row = SavedRow(c, e)
    OBVIOUS
  <1>3. row \in Slot /\ slot' = [slot EXCEPT ![e] = row]
    BY <1>2, SavedRowIsChecked DEF SaveSlot, SavedRow
  <1>4. PICK rest : rest = [ttCall[c] EXCEPT !.rows =
                              [f \in (DOMAIN ttCall[c].rows) \ {e} |-> ttCall[c].rows[f]]]
    OBVIOUS
  <1>5. rest \in TtRequest /\ Fits(rest)'
    BY <1>3, <1>4, RestOfARequest
  <1>6. ASSUME NEW d \in TtCalls, ttCall[d] # TtIdle, ttCall'[d] = [ttCall[d] EXCEPT !.stale = TRUE]
        PROVE  ttCall'[d] \in TtRequest /\ Fits(ttCall[d])'
    <2>1. PICK call : call = [ttCall[d] EXCEPT !.stale = TRUE]
      OBVIOUS
    <2>2. call \in TtRequest /\ Fits(call)'
      BY <1>6, <2>1, OvertakenStep
    <2>3. ttCall'[d] = call
      BY <1>6, <2>1
    <2> QED BY <2>2, <2>3
  <1>7. /\ ttCall' = [d \in TtCalls |-> ttCall'[d]]
        /\ \A d \in TtCalls : \/ ttCall'[d] = TtIdle
                              \/ ttCall'[d] = rest
                              \/ ttCall[d] # TtIdle /\ ttCall'[d] = [ttCall[d] EXCEPT !.stale = TRUE]
    BY <1>4 DEF SaveSlot
  <1>8. \A d \in TtCalls : ttCall'[d] = TtIdle \/ (ttCall'[d] \in TtRequest /\ Fits(ttCall[d])')
    BY <1>5, <1>6, <1>7
  <1>9. /\ ttRaced' = (ttRaced \/ ttCall[c].stale)
        /\ ttCall[c].do # "publish" => unchecked' = IF ttCall[c].keep THEN unchecked \cup {e} ELSE unchecked \ {e}
        /\ ttCall[c].do = "publish" => unchecked' = unchecked
        /\ board' = board
    BY DEF SaveSlot
  <1>10. ttRaced' \in BOOLEAN /\ unchecked' \subseteq Entries /\ unchecked \ {e} \subseteq unchecked'
    BY <1>1, <1>9 DEF TtInv, TtInvType, TtRequest
  <1>11. TtInvType' /\ TtReadsAreCurrent'
    <2>1. ttCall' \in [TtCalls -> TtRequest \cup {TtIdle}]
      BY <1>7, <1>8
    <2>2. DOMAIN TtIdle.rows = {}
      BY DEF TtIdle
    <2>3. \A d \in TtCalls : \A f \in DOMAIN ttCall'[d].rows : ttCall'[d].rows[f] \in Slot
      BY <1>8, <2>2 DEF TtRequest, TtRows
    <2>4. slot' \in [Entries -> Slot \cup {NoSlot}]
      BY <1>1, <1>3 DEF TtInv, TtInvType, TtTypeOK
    <2> QED BY <1>8, <1>9, <1>10, <2>1, <2>3, <2>4 DEF TtInv, TtInvType, TtTypeOK, TtReadsAreCurrent
  <1>12. ttRaced' \/ \A f \in Booked \ {e} : Clear(row, f, e \in unchecked' \/ f \in unchecked')
    <2> SUFFICES ASSUME ~ttRaced, ~ttCall[c].stale, NEW f \in Booked \ {e}
                 PROVE  Clear(row, f, e \in unchecked' \/ f \in unchecked')
      BY <1>9
    <2>1. FitsAt(ttCall[c], e)
      BY <1>1 DEF Fits
    <2>2. CASE ttCall[c].do = "publish"
      <3>1. e \in Booked
        BY <1>1, <2>1, <2>2 DEF FitsAt, Booked
      <3>2. Clear(slot[e], f, e \in unchecked \/ f \in unchecked)
        BY <3>1 DEF TtInv, ClashFree
      <3>3. /\ row.day = slot[e].day /\ row.start = slot[e].start /\ row.end = slot[e].end
            /\ row.room = slot[e].room /\ row.staff = slot[e].staff
        BY <1>2, <2>2, SavedRowIsChecked
      <3> QED BY <1>9, <2>2, <3>2, <3>3 DEF Clear, SharesRoom, SharesStaff, Overlap
    <2>3. CASE ttCall[c].do # "publish"
      <3>1. PICK new : new = ttCall[c].rows[e]
        OBVIOUS
      <3>2. Clear(new, f, ttCall[c].keep)
        BY <2>1, <2>3, <3>1 DEF FitsAt
      <3>3. /\ row.day = new.day /\ row.start = new.start /\ row.end = new.end
            /\ row.room = new.room /\ row.staff = new.staff
        BY <1>2, <2>3, <3>1, SavedRowIsChecked
      <3>4. ttCall[c].keep => e \in unchecked'
        BY <1>9, <2>3
      <3> QED BY <3>2, <3>3, <3>4 DEF Clear, SharesRoom, SharesStaff, Overlap
    <2> QED BY <2>2, <2>3
  <1>13. ClashFree'
    BY <1>1, <1>3, <1>9, <1>10, <1>12, PlaceSlot
  <1> QED BY <1>11, <1>13 DEF TtInv

\* A deletion makes room and overtakes every request under way.
LEMMA DeleteStep ==
    ASSUME TtInv, NEW e \in Entries, DeleteSlot(e)
    PROVE  TtInv'
  <1>1. slot' = [slot EXCEPT ![e] = NoSlot] /\ UNCHANGED <<board, ttRaced, unchecked>>
    BY DEF DeleteSlot
  <1>2. slot \in [Entries -> Slot \cup {NoSlot}] /\ slot' \in [Entries -> Slot \cup {NoSlot}]
    BY <1>1 DEF TtInv, TtInvType, TtTypeOK
  <1>3. /\ ttCall' = [d \in TtCalls |-> ttCall'[d]]
        /\ \A d \in TtCalls : \/ ttCall'[d] = TtIdle
                              \/ ttCall[d] # TtIdle /\ ttCall'[d] = [ttCall[d] EXCEPT !.stale = TRUE]
    BY DEF DeleteSlot
  <1>4. ASSUME NEW d \in TtCalls, ttCall'[d] # TtIdle
        PROVE  ttCall'[d] \in TtRequest /\ Fits(ttCall[d])'
    <2>1. PICK call : call = [ttCall[d] EXCEPT !.stale = TRUE]
      OBVIOUS
    <2>2. call \in TtRequest /\ Fits(call)'
      BY <1>3, <1>4, <2>1, OvertakenStep
    <2>3. ttCall'[d] = call
      BY <1>3, <1>4, <2>1
    <2> QED BY <2>2, <2>3
  <1>5. TtInvType' /\ TtReadsAreCurrent'
    <2>1. ttCall' \in [TtCalls -> TtRequest \cup {TtIdle}]
      BY <1>3, <1>4
    <2>2. DOMAIN TtIdle.rows = {}
      BY DEF TtIdle
    <2>3. \A d \in TtCalls : \A f \in DOMAIN ttCall'[d].rows : ttCall'[d].rows[f] \in Slot
      BY <1>4, <2>2 DEF TtRequest, TtRows
    <2> QED BY <1>1, <1>2, <1>4, <2>1, <2>3 DEF TtInv, TtInvType, TtTypeOK, TtReadsAreCurrent
  <1>6. ClashFree'
    <2>1. \A f \in Booked' : f \in Booked /\ slot'[f] = slot[f]
      BY <1>1, <1>2 DEF Booked
    <2>2. ClashFree
      BY DEF TtInv
    <2> QED BY <1>1, <2>1, <2>2 DEF ClashFree, Clear
  <1> QED BY <1>5, <1>6 DEF TtInv

\* Every step of either schedule.
LEMMA TtStep == TtInv /\ [TtNext]_ttVars => TtInv'
  <1> SUFFICES ASSUME TtInv, [TtNext]_ttVars PROVE TtInv'
    OBVIOUS
  <1>0. slot \in [Entries -> Slot \cup {NoSlot}] /\ ttCall \in [TtCalls -> TtRequest \cup {TtIdle}]
    BY DEF TtInv, TtInvType, TtTypeOK
  <1>1. ASSUME NEW c \in TtCalls, NEW e \in Entries, NEW new \in Slot, CheckCreate(c, e, new)
        PROVE  TtInv'
    <2>1. slot[e] = NoSlot /\ Acceptable(e, new, FALSE) /\ BeginTt(c, "create", [f \in {e} |-> new], FALSE)
      BY <1>1 DEF CheckCreate
    <2> QED BY <2>1, OneRow, BeginStep
  <1>2. ASSUME NEW c \in TtCalls, NEW e \in Entries, NEW new \in Slot, NEW keep \in BOOLEAN,
               CheckUpdate(c, e, new, keep)
        PROVE  TtInv'
    <2>1. /\ slot[e] # NoSlot /\ (keep => new.staff = slot[e].staff)
          /\ Acceptable(e, new, keep) /\ BeginTt(c, "update", [f \in {e} |-> new], keep)
      BY <1>2 DEF CheckUpdate, KeepsInvigilators, Booked
    <2> QED BY <2>1, OneRow, BeginStep
  <1>3. ASSUME NEW c \in TtCalls, LoadUnpublished(c)
        PROVE  TtInv'
    <2>1. PICK rows : rows = [e \in Unpublished |-> [slot[e] EXCEPT !.published = TRUE]]
      OBVIOUS
    <2>2. PICK keep \in BOOLEAN : keep = (board = "exam")
      OBVIOUS
    <2>3. BeginTt(c, "publish", rows, keep)
      BY <1>3, <2>1, <2>2 DEF LoadUnpublished
    <2>4. \A e \in Unpublished : e \in Entries /\ slot[e] \in Slot /\ slot[e] # NoSlot
      BY <1>0 DEF Unpublished, Booked
    <2>5. rows \in TtRows
      <3>1. \A e \in Unpublished : [slot[e] EXCEPT !.published = TRUE] \in Slot
        BY <2>4 DEF Slot
      <3>2. rows \in [Unpublished -> Slot]
        BY <2>1, <3>1
      <3>3. Unpublished \in SUBSET Entries
        BY <2>4
      <3> QED BY <3>2, <3>3, Zenon DEF TtRows
    <2>6. DOMAIN rows = Unpublished /\ \A e \in Unpublished : rows[e] = [slot[e] EXCEPT !.published = TRUE]
      BY <2>1
    <2>7. Fits([do |-> "publish", rows |-> rows, keep |-> keep, stale |-> FALSE])
      BY <2>4, <2>6 DEF Fits, FitsAt
    <2> QED BY <2>3, <2>5, <2>7, BeginStep
  <1>4. ASSUME NEW c \in TtCalls, NEW e \in DOMAIN ttCall[c].rows, SaveSlot(c, e)
        PROVE  TtInv'
    BY <1>4, SaveStep
  <1>5. ASSUME NEW c \in TtCalls, TtAbandon(c)
        PROVE  TtInv'
    <2>1. /\ ttCall' \in [TtCalls -> TtRequest \cup {TtIdle}]
          /\ \A d \in TtCalls : ttCall'[d] = TtIdle \/ ttCall'[d] = ttCall[d]
          /\ UNCHANGED <<board, slot, ttRaced, unchecked>>
      BY <1>0, <1>5 DEF TtAbandon
    <2>2. DOMAIN TtIdle.rows = {}
      BY DEF TtIdle
    <2>3. TtInvType'
      BY <2>1, <2>2 DEF TtInv, TtInvType, TtTypeOK
    <2>4. TtReadsAreCurrent' /\ ClashFree'
      BY <2>1 DEF TtInv, TtReadsAreCurrent, Fits, FitsAt, ClashFree, Clear, Booked
    <2> QED BY <2>3, <2>4 DEF TtInv
  <1>6. ASSUME NEW e \in Entries, DeleteSlot(e)
        PROVE  TtInv'
    BY <1>6, DeleteStep
  <1>7. CASE UNCHANGED ttVars
    BY <1>7 DEF TtInv, TtInvType, TtTypeOK, TtReadsAreCurrent, Fits, FitsAt, ClashFree, Clear,
                Booked, ttVars
  <1> QED BY <1>1, <1>2, <1>3, <1>4, <1>5, <1>6, <1>7 DEF TtNext

\* The schedule stays free of clashes.
LEMMA TtInvariant == TtSpec => []TtInv
  <1>1. TtInit => TtInv
    <2> SUFFICES ASSUME TtInit PROVE TtInv
      OBVIOUS
    <2>1. DOMAIN TtIdle.rows = {}
      BY DEF TtIdle
    <2> QED BY <2>1 DEF TtInit, TtInv, TtInvType, TtTypeOK, TtReadsAreCurrent, ClashFree, Booked
  <1> QED BY <1>1, TtStep, PTL DEF TtSpec

\* No room and nobody's time is given twice, however the checks and saves of
\* creations, moves, publications and deletions interleave.
THEOREM NobodyIsDoubleBooked == TtSpec => []NoDoubleBooking
  <1>1. TtInv => NoDoubleBooking
    <2> SUFFICES ASSUME TtInv, NEW e \in Booked, NEW f \in Booked, NEW t \in Times,
                        e # f, slot[e].day = slot[f].day,
                        \A x \in {e, f} : slot[x].start <= t /\ t < slot[x].end, ~ttRaced
                 PROVE  /\ slot[e].room = NoRoom \/ slot[e].room # slot[f].room
                        /\ slot[e].staff \cap slot[f].staff = {} \/ {e, f} \cap unchecked # {}
      BY DEF NoDoubleBooking
    <2>1. slot[e] \in Slot /\ slot[f] \in Slot
      BY DEF TtInv, TtInvType, TtTypeOK, Booked
    <2>2. slot[e].start < slot[f].end /\ slot[f].start < slot[e].end
      <3>1. /\ slot[e].start \in Times /\ slot[e].end \in Times
            /\ slot[f].start \in Times /\ slot[f].end \in Times
        BY <2>1 DEF Slot
      <3>2. /\ slot[e].start \in Int /\ slot[e].end \in Int
            /\ slot[f].start \in Int /\ slot[f].end \in Int /\ t \in Int
        BY <3>1, TimesAssumption
      <3> QED BY <3>2
    <2>3. Clear(slot[e], f, e \in unchecked \/ f \in unchecked)
      BY DEF TtInv, ClashFree
    <2> QED BY <2>2, <2>3 DEF Clear, Overlap, SharesRoom, SharesStaff
  <1> QED BY <1>1, TtInvariant, PTL

----------------------------------------------------------------------------
(* Grading scales.                                                         *)

\* An order of S by f.
SortedBy(o, S, f) ==
    /\ o \in Bijection(1..Cardinality(S), S)
    /\ \A i, j \in 1..Cardinality(S) : i < j => f[o[i]] <= f[o[j]]

\* What a bijection is.
LEMMA BijectionDef ==
    ASSUME NEW S, NEW T, NEW o
    PROVE  o \in Bijection(S, T) <=>
              /\ o \in [S -> T]
              /\ \A a, b \in S : o[a] = o[b] => a = b
              /\ \A t \in T : \E s \in S : o[s] = t
  BY DEF Bijection, Injection, Surjection, IsInjective

\* A finite set with a value for each element has an element with the greatest value.
LEMMA GreatestValue ==
    ASSUME NEW S, IsFiniteSet(S), S # {}, NEW f, NEW top \in Nat, \A x \in S : f[x] \in 0..top
    PROVE  \E c \in S : \A x \in S : f[x] <= f[c]
  <1>1. PICK T : T = {top - f[x] : x \in S}
    OBVIOUS
  <1>2. T \in SUBSET Nat /\ T # {}
    BY <1>1
  <1>3. PICK n \in T : \A m \in T : n <= m
    BY <1>2, LeastNumber
  <1>4. PICK c \in S : n = top - f[c]
    BY <1>1, <1>3
  <1>5. \A x \in S : top - f[c] <= top - f[x]
    BY <1>1, <1>3, <1>4
  <1> QED BY <1>4, <1>5

\* Any finite set of bands can be sorted: a smallest one that cannot would lack an order
\* of the bands below its highest.
LEMMA SortedExists ==
    ASSUME NEW S, IsFiniteSet(S), NEW f, NEW top \in Nat, \A x \in S : f[x] \in 0..top
    PROVE  \E o : SortedBy(o, S, f)
  <1> SUFFICES ASSUME ~ \E o : SortedBy(o, S, f) PROVE FALSE
    OBVIOUS
  <1>1. PICK U : U = {A \in SUBSET S : ~ \E o : SortedBy(o, A, f)}
    OBVIOUS
  <1>2. U \in SUBSET (SUBSET S) /\ U # {}
    BY <1>1
  <1>3. PICK A \in U : \A B \in U : B \subseteq A => B = A
    BY <1>2, SmallestMember
  <1>4. A \in SUBSET S /\ (~ \E o : SortedBy(o, A, f)) /\ IsFiniteSet(A)
    BY <1>1, <1>3, FS_Subset
  <1>5. CASE A = {}
    <2>1. Cardinality(A) = 0
      BY <1>5, FS_EmptySet
    <2>2. PICK o : o = [i \in 1..0 |-> 0]
      OBVIOUS
    <2>3. o \in [1..0 -> A] /\ 1..0 = {}
      BY <2>2
    <2>4. o \in Bijection(1..0, A)
      <3>1. /\ \A a, b \in 1..0 : o[a] = o[b] => a = b
            /\ \A t \in A : \E s \in 1..0 : o[s] = t
        BY <1>5, <2>3
      <3>2. o \in [1..0 -> A]
        BY <2>3
      <3> QED BY <3>1, <3>2, BijectionDef
    <2> QED BY <1>4, <2>1, <2>3, <2>4 DEF SortedBy
  <1>6. CASE A # {}
    <2>1. PICK c \in A : \A x \in A : f[x] <= f[c]
      BY <1>4, <1>6, GreatestValue
    <2>2. PICK B : B = A \ {c}
      OBVIOUS
    <2>3. PICK n : n = Cardinality(B)
      OBVIOUS
    <2>4. IsFiniteSet(B) /\ n \in Nat /\ Cardinality(A) = n + 1
      <3>1. IsFiniteSet(B) /\ Cardinality(B) = Cardinality(A) - 1
        BY <1>4, <2>1, <2>2, FS_RemoveElement
      <3>2. Cardinality(A) \in Nat /\ Cardinality(B) \in Nat
        BY <1>4, <3>1, FS_CardinalityType
      <3> QED BY <2>3, <3>1, <3>2
    <2>5. B \in SUBSET S /\ B \subseteq A /\ B # A
      BY <1>4, <2>1, <2>2
    <2>6. PICK o : SortedBy(o, B, f)
      BY <1>1, <1>3, <2>5
    <2>7. /\ o \in [1..n -> B]
          /\ \A i, j \in 1..n : o[i] = o[j] => i = j
          /\ \A x \in B : \E i \in 1..n : o[i] = x
          /\ \A i, j \in 1..n : i < j => f[o[i]] <= f[o[j]]
      <3>1. o \in Bijection(1..n, B) /\ \A i, j \in 1..n : i < j => f[o[i]] <= f[o[j]]
        BY <2>3, <2>6 DEF SortedBy
      <3> QED BY <3>1 DEF Bijection, Injection, Surjection, IsInjective
    <2>8. PICK w : w = [i \in 1..(n + 1) |-> IF i = n + 1 THEN c ELSE o[i]]
      OBVIOUS
    <2>9. \A i \in 1..(n + 1) : i \in 1..n \/ i = n + 1
      BY <2>4
    <2>10. /\ n + 1 \in 1..(n + 1) /\ n + 1 \notin 1..n
           /\ \A i \in 1..n : i \in 1..(n + 1) /\ i # n + 1
      BY <2>4
    <2>11. w[n + 1] = c /\ \A i \in 1..n : w[i] = o[i] /\ w[i] \in B
      BY <2>7, <2>8, <2>10
    <2>12. w \in [1..(n + 1) -> A]
      BY <2>1, <2>2, <2>7, <2>8, <2>9
    <2>13. \A i, j \in 1..(n + 1) : w[i] = w[j] => i = j
      BY <2>2, <2>7, <2>9, <2>11
    <2>14. \A x \in A : \E i \in 1..(n + 1) : w[i] = x
      BY <2>2, <2>7, <2>10, <2>11
    <2>15. \A i, j \in 1..(n + 1) : i < j => f[w[i]] <= f[w[j]]
      <3> SUFFICES ASSUME NEW i \in 1..(n + 1), NEW j \in 1..(n + 1), i < j
                   PROVE  f[w[i]] <= f[w[j]]
        OBVIOUS
      <3>1. i \in 1..n
        BY <2>4
      <3>2. CASE j = n + 1
        BY <2>1, <2>2, <2>11, <3>1, <3>2
      <3>3. CASE j \in 1..n
        BY <2>7, <2>11, <3>1, <3>3
      <3> QED BY <2>9, <3>2, <3>3
    <2>16. w \in Bijection(1..(n + 1), A)
      BY <2>12, <2>13, <2>14, BijectionDef
    <2> QED BY <1>4, <2>4, <2>15, <2>16 DEF SortedBy
  <1> QED BY <1>5, <1>6

\* What validate_bands checks of its sorted list.
Chained(b, n) ==
    /\ n > 0
    /\ \A i \in 1..n : b[i].point <= MaxPoint
    /\ b[1].min = 0 /\ b[n].max = Top
    /\ \A i \in 1..(n - 1) : b[i + 1].min > b[i].max /\ b[i + 1].min - b[i].max <= 1

\* A percentage is in one of the bands and in no other.
InOne(b, n, p) ==
    \E i \in 1..n : Covers(b[i], p) /\ \A j \in 1..n : Covers(b[j], p) => j = i

\* The bounds of bands.
LEMMA BandBounds ==
    ASSUME NEW band \in Band
    PROVE  /\ band.min \in Nat /\ band.max \in Nat /\ band.min <= band.max /\ band.max <= Top
           /\ band.point \in Int
  BY BoundsAssumption DEF Band

\* In a chain a later band begins above the end of an earlier one.
LEMMA ChainClimbs ==
    ASSUME NEW n \in Nat, NEW b \in [1..n -> Band], Chained(b, n),
           NEW i \in 1..n, NEW j \in 1..n, i < j
    PROVE  b[i].max < b[j].min
  <1> SUFFICES ASSUME ~(b[i].max < b[j].min) PROVE FALSE
    OBVIOUS
  <1>1. PICK T : T = {k \in 1..n : i < k /\ ~(b[i].max < b[k].min)}
    OBVIOUS
  <1>2. T \in SUBSET Nat /\ T # {}
    BY <1>1
  <1>3. PICK k \in T : \A m \in T : k <= m
    BY <1>2, LeastNumber
  <1>4. k \in 1..n /\ i < k /\ ~(b[i].max < b[k].min)
    BY <1>1, <1>3
  <1>5. PICK m \in Int : m = k - 1
    BY <1>4
  <1>6. m \in 1..n /\ m \in 1..(n - 1) /\ m + 1 = k /\ m \notin T /\ i <= m
    BY <1>3, <1>4, <1>5
  <1>7. b[i] \in Band /\ b[k] \in Band /\ b[m] \in Band
    BY <1>4, <1>6
  <1>8. /\ b[i].max \in Nat /\ b[k].min \in Nat /\ b[m].max \in Nat /\ b[m].min \in Nat
        /\ b[m].min <= b[m].max
    BY <1>7, BandBounds
  <1>9. b[k].min > b[m].max
    BY <1>6 DEF Chained
  <1>10. i = m \/ b[i].max < b[m].min
    BY <1>1, <1>4, <1>6
  <1> QED BY <1>4, <1>8, <1>9, <1>10

\* A chain leaves no percentage out: the last band that begins at or below it holds it.
LEMMA ChainCovers ==
    ASSUME NEW n \in Nat, NEW b \in [1..n -> Band], Chained(b, n), NEW p \in 0..Top
    PROVE  InOne(b, n, p)
  <1>1. \A i \in 1..n : /\ b[i].min \in Nat /\ b[i].max \in Nat
                        /\ b[i].min <= b[i].max /\ b[i].max <= Top
    BY BandBounds
  <1>2. n > 0 /\ b[1].min = 0 /\ b[n].max = Top /\ 1 \in 1..n /\ n \in 1..n
    BY DEF Chained
  <1>3. PICK T : T = {n - i : i \in {k \in 1..n : b[k].min <= p}}
    OBVIOUS
  <1>4. T \in SUBSET Nat /\ n - 1 \in T
    BY <1>2, <1>3
  <1>5. PICK m \in T : \A k \in T : m <= k
    BY <1>4, LeastNumber
  <1>6. PICK i \in 1..n : b[i].min <= p /\ m = n - i
    BY <1>3, <1>5
  <1>7. \A k \in 1..n : b[k].min <= p => n - i <= n - k
    BY <1>3, <1>5, <1>6
  <1>8. p <= b[i].max
    <2>1. CASE i = n
      BY <1>2, <2>1
    <2>2. CASE i # n
      <3>1. i + 1 \in 1..n /\ i \in 1..(n - 1)
        BY <2>2
      <3>2. ~(b[i + 1].min <= p)
        BY <1>7, <3>1
      <3>3. b[i + 1].min - b[i].max <= 1
        BY <3>1 DEF Chained
      <3>4. b[i + 1].min \in Nat /\ b[i].max \in Nat
        BY <1>1, <3>1
      <3> QED BY <3>2, <3>3, <3>4
    <2> QED BY <2>1, <2>2
  <1>9. Covers(b[i], p)
    BY <1>6, <1>8 DEF Covers
  <1>10. ASSUME NEW j \in 1..n, Covers(b[j], p), j # i PROVE FALSE
    <2>1. b[j].min <= p /\ p <= b[j].max
      BY <1>10 DEF Covers
    <2>2. CASE j < i
      <3>1. b[j].max < b[i].min
        BY <2>2, ChainClimbs
      <3> QED BY <1>1, <1>6, <2>1, <3>1
    <2>3. CASE i < j
      <3>1. b[i].max < b[j].min
        BY <2>3, ChainClimbs
      <3> QED BY <1>1, <1>8, <2>1, <3>1
    <2> QED BY <1>10, <2>2, <2>3
  <1> QED BY <1>9, <1>10 DEF InOne

\* Sorted bands that hold every percentage once are a chain.
LEMMA CoverChains ==
    ASSUME NEW n \in Nat, NEW b \in [1..n -> Band],
           \A i, j \in 1..n : i < j => b[i].min <= b[j].min,
           \A i \in 1..n : b[i].point <= MaxPoint,
           \A p \in 0..Top : InOne(b, n, p)
    PROVE  Chained(b, n)
  <1>1. \A i \in 1..n : /\ b[i].min \in Nat /\ b[i].max \in Nat
                        /\ b[i].min <= b[i].max /\ b[i].max <= Top
                        /\ b[i].min \in 0..Top /\ b[i].max \in 0..Top
    BY BandBounds, BoundsAssumption
  <1>2. \A i, j \in 1..n, p \in 0..Top :
            b[i].min <= p /\ p <= b[i].max /\ b[j].min <= p /\ p <= b[j].max => i = j
    BY DEF InOne, Covers
  <1>3. \A p \in 0..Top : \E i \in 1..n : b[i].min <= p /\ p <= b[i].max
    BY DEF InOne, Covers
  <1>4. 0 \in 0..Top /\ Top \in 0..Top
    BY BoundsAssumption
  <1>5. n > 0 /\ 1 \in 1..n /\ n \in 1..n
    <2>1. PICK i \in 1..n : b[i].min <= 0
      BY <1>3, <1>4
    <2> QED BY <2>1
  <1>6. b[1].min = 0
    <2>1. PICK i \in 1..n : b[i].min <= 0
      BY <1>3, <1>4
    <2>2. b[1].min <= b[i].min
      BY <1>1, <1>5, <2>1
    <2> QED BY <1>1, <1>5, <2>1, <2>2
  <1>7. b[n].max = Top
    <2>1. PICK i \in 1..n : b[i].min <= Top /\ Top <= b[i].max
      BY <1>3, <1>4
    <2>2. i = n
      <3>1. b[i].min <= b[n].min
        BY <1>1, <1>5, <2>1
      <3>2. b[n].min <= b[i].max
        <4>1. Top \in Nat /\ b[n].min \in Nat /\ b[n].min <= Top
          BY <1>1, <1>5, BoundsAssumption
        <4> QED BY <1>1, <2>1, <4>1
      <3> QED BY <1>1, <1>2, <1>5, <3>1, <3>2
    <2> QED BY <1>1, <1>5, <2>1, <2>2, BoundsAssumption
  <1>8. ASSUME NEW i \in 1..(n - 1)
        PROVE  b[i + 1].min > b[i].max /\ b[i + 1].min - b[i].max <= 1
    <2>1. i \in 1..n /\ i + 1 \in 1..n /\ i # i + 1
      OBVIOUS
    <2>2. b[i].min <= b[i + 1].min
      BY <2>1
    <2>3. b[i + 1].min > b[i].max
      BY <1>1, <1>2, <2>1, <2>2
    <2>4. ASSUME b[i + 1].min - b[i].max > 1 PROVE FALSE
      <3>1. PICK p \in Nat : p = b[i].max + 1
        BY <1>1, <2>1
      <3>2. p < b[i + 1].min /\ p \in 0..Top
        BY <1>1, <2>1, <2>4, <3>1, BoundsAssumption
      <3>3. PICK k \in 1..n : b[k].min <= p /\ p <= b[k].max
        BY <1>3, <3>2
      <3>4. CASE k <= i
        <4>1. b[k].min <= b[i].min
          BY <1>1, <2>1, <3>4
        <4>2. b[i].min <= b[k].max
          BY <1>1, <2>1, <3>1, <3>3
        <4>3. k = i
          BY <1>1, <1>2, <2>1, <4>1, <4>2
        <4> QED BY <1>1, <2>1, <3>1, <3>3, <4>3
      <3>5. CASE k > i
        <4>1. b[i + 1].min <= b[k].min
          BY <1>1, <2>1, <3>5
        <4> QED BY <1>1, <2>1, <3>2, <3>3, <4>1
      <3> QED BY <2>1, <3>4, <3>5
    <2> QED BY <1>1, <2>1, <2>3, <2>4
  <1> QED BY <1>5, <1>6, <1>7, <1>8 DEF Chained

\* A scale of bands, in the order validate_bands gives them.
LEMMA OrderedDef ==
    ASSUME NEW scale, NEW L, L = Stored(scale), IsFiniteSet(L), \A l \in L : scale[l] \in Band,
           NEW n, n = Cardinality(L)
    PROVE  \E o : /\ o \in [1..n -> L]
                  /\ \A i, j \in 1..n : o[i] = o[j] => i = j
                  /\ \A l \in L : \E i \in 1..n : o[i] = l
                  /\ \A i, j \in 1..n : i < j => scale[o[i]].min <= scale[o[j]].min
                  /\ Ordered(scale) = [i \in 1..n |-> scale[o[i]]]
  <1>1. PICK f : f = [l \in L |-> scale[l].min]
    OBVIOUS
  <1>2. \A l \in L : f[l] = scale[l].min /\ f[l] \in 0..Top
    BY <1>1 DEF Band
  <1>3. Top \in Nat
    BY BoundsAssumption
  <1>4. PICK w : SortedBy(w, L, f)
    BY <1>2, <1>3, SortedExists
  <1>5. \A v : v \in Bijection(1..n, L) => v \in [1..n -> L]
    BY BijectionDef
  <1>6. w \in Bijection(1..n, L) /\ \A i, j \in 1..n : i < j => scale[w[i]].min <= scale[w[j]].min
    <2>1. w \in Bijection(1..n, L) /\ \A i, j \in 1..n : i < j => f[w[i]] <= f[w[j]]
      BY <1>4 DEF SortedBy
    <2>2. \A i \in 1..n : w[i] \in L
      BY <1>5, <2>1
    <2> QED BY <1>2, <2>1, <2>2
  <1>7. PICK o : o = CHOOSE v \in Bijection(1..n, L) :
                        \A i, j \in 1..n : i < j => scale[v[i]].min <= scale[v[j]].min
    OBVIOUS
  <1>8. o \in Bijection(1..n, L) /\ \A i, j \in 1..n : i < j => scale[o[i]].min <= scale[o[j]].min
    BY <1>6, <1>7
  <1>9. Ordered(scale) = [i \in 1..n |-> scale[o[i]]]
    BY <1>7 DEF Ordered
  <1>10. /\ o \in [1..n -> L]
         /\ \A i, j \in 1..n : o[i] = o[j] => i = j
         /\ \A l \in L : \E i \in 1..n : o[i] = l
    BY <1>8 DEF Bijection, Injection, Surjection, IsInjective
  <1> QED BY <1>8, <1>9, <1>10

\* Sets of one element.
LEMMA OneElement ==
    ASSUME NEW S, IsFiniteSet(S)
    PROVE  Cardinality(S) = 1 <=> \E x \in S : \A y \in S : y = x
  <1>1. ASSUME NEW x \in S, \A y \in S : y = x PROVE Cardinality(S) = 1
    <2>1. S = {x}
      BY <1>1
    <2> QED BY <2>1, FS_Singleton
  <1>2. ASSUME Cardinality(S) = 1 PROVE \E x \in S : \A y \in S : y = x
    <2>1. PICK x : S = {x}
      BY <1>2, FS_Singleton
    <2> QED BY <2>1
  <1> QED BY <1>1, <1>2

\* validate_bands is exact, whatever the scale.
LEMMA ValidIsExact ==
    ASSUME GradingTypeOK PROVE ValidScalesGradeEveryMark
  <1>1. PICK L : L = Stored(bands)
    OBVIOUS
  <1>2. L \in SUBSET Letters /\ IsFiniteSet(L) /\ \A l \in L : bands[l] \in Band
    <2>1. DOMAIN bands = Letters /\ \A l \in Letters : bands[l] \in Band \cup {NoBand}
      BY DEF GradingTypeOK
    <2>2. L \in SUBSET Letters /\ \A l \in L : bands[l] \in Band
      BY <1>1, <2>1 DEF Stored
    <2> QED BY <2>2, BoundsAssumption, FS_Subset
  <1>3. PICK n : n = Cardinality(L)
    OBVIOUS
  <1>4. n \in Nat
    BY <1>2, <1>3, FS_CardinalityType
  <1>5. PICK o : /\ o \in [1..n -> L]
                 /\ \A i, j \in 1..n : o[i] = o[j] => i = j
                 /\ \A l \in L : \E i \in 1..n : o[i] = l
                 /\ \A i, j \in 1..n : i < j => bands[o[i]].min <= bands[o[j]].min
                 /\ Ordered(bands) = [i \in 1..n |-> bands[o[i]]]
    BY <1>1, <1>2, <1>3, OrderedDef
  <1>6. PICK b : b = Ordered(bands)
    OBVIOUS
  <1>7. b \in [1..n -> Band] /\ \A i \in 1..n : b[i] = bands[o[i]]
    BY <1>2, <1>5, <1>6
  <1>8. ValidateBands(bands) <=> Chained(b, n)
    BY <1>1, <1>3, <1>6 DEF ValidateBands, Chained
  <1>9. PICK Hits : Hits = [p \in 0..Top |-> {l \in L : Covers(bands[l], p)}]
    OBVIOUS
  <1>10. ASSUME NEW p \in 0..Top
         PROVE  /\ Hits[p] = {l \in L : Covers(bands[l], p)}
                /\ Cardinality(Hits[p]) = 1 <=> InOne(b, n, p)
    <2>1. Hits[p] = {l \in L : Covers(bands[l], p)}
      BY <1>9
    <2>2. IsFiniteSet(Hits[p])
      <3>1. Hits[p] \in SUBSET L
        BY <2>1
      <3> QED BY <1>2, <3>1, FS_Subset
    <2>3. ASSUME NEW x \in Hits[p], \A y \in Hits[p] : y = x PROVE InOne(b, n, p)
      <3>1. x \in L /\ Covers(bands[x], p)
        BY <2>1
      <3>2. PICK i \in 1..n : o[i] = x
        BY <1>5, <3>1
      <3>3. \A j \in 1..n : Covers(b[j], p) => o[j] = x
        BY <1>5, <1>7, <2>1, <2>3
      <3>4. Covers(b[i], p)
        BY <1>7, <3>1, <3>2
      <3> QED BY <1>5, <3>2, <3>3, <3>4 DEF InOne
    <2>4. ASSUME InOne(b, n, p) PROVE \E x \in Hits[p] : \A y \in Hits[p] : y = x
      <3>1. PICK i \in 1..n : Covers(b[i], p) /\ \A j \in 1..n : Covers(b[j], p) => j = i
        BY <2>4 DEF InOne
      <3>2. o[i] \in Hits[p]
        BY <1>5, <1>7, <2>1, <3>1
      <3>3. ASSUME NEW y \in Hits[p] PROVE y = o[i]
        <4>1. PICK j \in 1..n : o[j] = y
          BY <1>5, <2>1
        <4>2. Covers(b[j], p)
          BY <1>7, <2>1, <4>1
        <4> QED BY <3>1, <4>1, <4>2
      <3> QED BY <3>2, <3>3
    <2>5. Cardinality(Hits[p]) = 1 <=> \E x \in Hits[p] : \A y \in Hits[p] : y = x
      BY <2>2, OneElement
    <2> QED BY <2>1, <2>3, <2>4, <2>5
  <1>11. ASSUME NEW p \in 0..Top, NEW l \in Hits[p], \A y \in Hits[p] : y = l
         PROVE  GradeFor(bands, p) = l
    <2>1. {k \in Stored(bands) : Covers(bands[k], p)} = Hits[p]
      BY <1>1, <1>10
    <2>2. bands[l].min <= bands[l].min
      <3>1. l \in L
        BY <1>10
      <3> QED BY <1>2, <3>1, BandBounds
    <2>3. l = CHOOSE k \in Hits[p] : \A m \in Hits[p] : bands[m].min <= bands[k].min
      BY <1>11, <2>2
    <2> QED BY <1>11, <2>1, <2>3 DEF GradeFor
  <1>12. ASSUME Chained(b, n)
         PROVE  /\ \A p \in 0..Top : Cardinality(Hits[p]) = 1
                /\ \A p \in 0..Top : bands[GradeFor(bands, p)].point <= MaxPoint
    <2>1. \A p \in 0..Top : InOne(b, n, p)
      BY <1>4, <1>7, <1>12, ChainCovers
    <2>2. \A p \in 0..Top : Cardinality(Hits[p]) = 1
      BY <1>10, <2>1
    <2>3. ASSUME NEW p \in 0..Top PROVE bands[GradeFor(bands, p)].point <= MaxPoint
      <3>1. IsFiniteSet(Hits[p])
        <4>1. Hits[p] \in SUBSET L
          BY <1>10
        <4> QED BY <1>2, <4>1, FS_Subset
      <3>2. PICK l \in Hits[p] : \A y \in Hits[p] : y = l
        BY <2>2, <3>1, OneElement
      <3>3. GradeFor(bands, p) = l /\ l \in L
        BY <1>10, <1>11, <3>2
      <3>4. PICK i \in 1..n : o[i] = l
        BY <1>5, <3>3
      <3>5. b[i].point <= MaxPoint
        BY <1>12 DEF Chained
      <3> QED BY <1>7, <3>3, <3>4, <3>5
    <2> QED BY <2>2, <2>3
  <1>13. ASSUME \A p \in 0..Top : Cardinality(Hits[p]) = 1,
                \A p \in 0..Top : bands[GradeFor(bands, p)].point <= MaxPoint
         PROVE  Chained(b, n)
    <2>1. \A p \in 0..Top : InOne(b, n, p)
      BY <1>10, <1>13
    <2>2. ASSUME NEW i \in 1..n PROVE b[i].point <= MaxPoint
      <3>1. b[i] \in Band /\ b[i] = bands[o[i]] /\ o[i] \in L
        BY <1>5, <1>7
      <3>2. PICK p \in 0..Top : p = b[i].min
        BY <3>1 DEF Band
      <3>3. Covers(b[i], p)
        BY <3>1, <3>2, BandBounds DEF Covers
      <3>4. o[i] \in Hits[p]
        BY <1>10, <3>1, <3>3
      <3>5. IsFiniteSet(Hits[p])
        <4>1. Hits[p] \in SUBSET L
          BY <1>10
        <4> QED BY <1>2, <4>1, FS_Subset
      <3>6. \A y \in Hits[p] : y = o[i]
        BY <1>13, <3>4, <3>5, OneElement
      <3>7. GradeFor(bands, p) = o[i]
        BY <1>11, <3>4, <3>6
      <3> QED BY <1>13, <3>1, <3>7
    <2>3. \A i, j \in 1..n : i < j => b[i].min <= b[j].min
      BY <1>5, <1>7
    <2> QED BY <1>4, <1>7, <2>1, <2>2, <2>3, CoverChains
  <1>14. \A p \in 0..Top : {l \in Stored(bands) : Covers(bands[l], p)} = Hits[p]
    BY <1>1, <1>10
  <1> QED BY <1>8, <1>12, <1>13, <1>14 DEF ValidScalesGradeEveryMark

\* Scales and averages keep their types.
LEMMA GradingTypes == GradingSpec => []GradingTypeOK
  <1>1. GradingInit => GradingTypeOK
    <2> SUFFICES ASSUME GradingInit PROVE GradingTypeOK
      OBVIOUS
    <2>1. << >> \in Seq(Credits \X Points) /\ Len(<< >>) = 0
      OBVIOUS
    <2>2. graded \in [Terms -> Seq(Credits \X Points)] /\ \A t \in Terms : graded[t] = << >>
      BY <2>1 DEF GradingInit
    <2>3. \A t \in Terms : Len(graded[t]) <= MaxCourses
      BY <2>1, <2>2, BoundsAssumption
    <2> QED BY <2>2, <2>3 DEF GradingInit, GradingTypeOK
  <1>2. GradingTypeOK /\ [ScaleNext \/ AveragesNext]_gradingVars => GradingTypeOK'
    <2> SUFFICES ASSUME GradingTypeOK, [ScaleNext \/ AveragesNext]_gradingVars PROVE GradingTypeOK'
      OBVIOUS
    <2>1. ASSUME NEW l \in Letters, NEW band \in Band, PutBand(l, band) PROVE GradingTypeOK'
      BY <2>1 DEF GradingTypeOK, PutBand
    <2>2. ASSUME NEW l \in Letters, DeleteBand(l) PROVE GradingTypeOK'
      BY <2>2 DEF GradingTypeOK, DeleteBand
    <2>3. ASSUME NEW scale \in UsableScales, SaveScale(scale) PROVE GradingTypeOK'
      <3>1. scale \in [Letters -> Band \cup {NoBand}]
        BY DEF UsableScales
      <3> QED BY <2>3, <3>1 DEF GradingTypeOK, SaveScale
    <2>4. ASSUME NEW value \in BOOLEAN, SetLocked(value) PROVE GradingTypeOK'
      BY <2>4 DEF GradingTypeOK, SetLocked
    <2>5. ASSUME NEW t \in Terms, NEW credits \in Credits, NEW point \in Points,
                 GradeCourse(t, credits, point)
          PROVE  GradingTypeOK'
      <3>1. PICK more : more = Append(graded[t], <<credits, point>>)
        OBVIOUS
      <3>2. graded[t] \in Seq(Credits \X Points) /\ <<credits, point>> \in Credits \X Points
        BY DEF GradingTypeOK
      <3>3. more \in Seq(Credits \X Points) /\ Len(more) = Len(graded[t]) + 1
        BY <3>1, <3>2
      <3>4. Len(more) <= MaxCourses
        BY <2>5, <3>2, <3>3, BoundsAssumption DEF GradeCourse
      <3>5. graded' = [graded EXCEPT ![t] = more] /\ UNCHANGED <<bands, locked>>
        BY <2>5, <3>1 DEF GradeCourse
      <3>6. \A u \in Terms : graded'[u] = IF u = t THEN more ELSE graded[u]
        BY <3>5 DEF GradingTypeOK
      <3> QED BY <3>3, <3>4, <3>5, <3>6 DEF GradingTypeOK
    <2>6. CASE UNCHANGED gradingVars
      BY <2>6 DEF GradingTypeOK, gradingVars
    <2> QED BY <2>1, <2>2, <2>3, <2>4, <2>5, <2>6 DEF ScaleNext, AveragesNext
  <1> QED BY <1>1, <1>2, PTL DEF GradingSpec

\* Whatever is done to a scale and its lock, validate_bands accepts it just when
\* grade_for finds one band for every percentage, with a point the scale allows.
THEOREM ScalesAreExact == GradingSpec => []ValidScalesGradeEveryMark
<1>1. GradingTypeOK => ValidScalesGradeEveryMark  BY ValidIsExact
<1> QED  BY <1>1, GradingTypes, PTL

----------------------------------------------------------------------------
(* Averages.                                                               *)

\* The courses of a list, as the sums see them.
EntryList == Seq(Credits \X Points)

\* Rounding half up moves by at most half of the divisor.
LEMMA HalfUpNear ==
    ASSUME NEW n \in Nat, NEW d \in Nat, d > 0, NEW q, q = HalfUp(n, d)
    PROVE  /\ q \in Nat
           /\ 2 * (d * q) <= 2 * n + d /\ 2 * n + d < 2 * (d * q) + 2 * d
  <1>1. PICK m, e : m = 2 * n + d /\ e = 2 * d
    OBVIOUS
  <1>2. m \in Nat /\ e \in Nat /\ e > 0
    BY <1>1
  <1>3. q = m \div e
    BY <1>1 DEF HalfUp
  <1>4. q \in Int /\ e * q <= m /\ m < e * q + e
    BY <1>2, <1>3, Quotient
  <1>5. q >= 0
    <2>1. CASE q < 0
      <3>1. e * q + e <= 0
        BY <1>2, <1>4, <2>1
      <3> QED BY <1>2, <1>4, <3>1
    <2> QED BY <1>4, <2>1
  <1>6. e * q = 2 * (d * q)
    BY <1>1, <1>4
  <1> QED BY <1>1, <1>4, <1>5, <1>6

\* Two totals half a divisor apart round to neighbours.
LEMMA RoundedNear ==
    ASSUME NEW n \in Nat, NEW w \in Nat, NEW d \in Nat, d > 0,
           2 * w - d <= 2 * n, 2 * n <= 2 * w + d
    PROVE  HalfUp(n, d) - HalfUp(w, d) \in -1..1
  <1>1. PICK a, b : a = HalfUp(n, d) /\ b = HalfUp(w, d)
    OBVIOUS
  <1>2. /\ a \in Nat /\ 2 * (d * a) <= 2 * n + d /\ 2 * n + d < 2 * (d * a) + 2 * d
        /\ b \in Nat /\ 2 * (d * b) <= 2 * w + d /\ 2 * w + d < 2 * (d * b) + 2 * d
    BY <1>1, HalfUpNear
  <1>3. ASSUME NEW x \in Nat, NEW y \in Nat, x >= y + 2
        PROVE  d * x >= d * y + 2 * d
    <2>1. PICK k \in Nat : x = (y + 2) + k
      <3>1. x - (y + 2) \in Nat /\ x = (y + 2) + (x - (y + 2))
        BY <1>3
      <3> QED BY <3>1
    <2>2. d * x = (d * y + 2 * d) + d * k /\ d * k \in Nat
      BY <2>1
    <2> QED BY <2>2
  <1>4. d * a \in Nat /\ d * b \in Nat
    BY <1>2
  <1>5. ~(a >= b + 2)
    BY <1>2, <1>3, <1>4
  <1>6. ~(b >= a + 2)
    BY <1>2, <1>3, <1>4
  <1>7. a - b \in -1..1
    BY <1>2, <1>5, <1>6
  <1> QED BY <1>1, <1>7

\* The classes of degree are more than a hundredth apart.
LEMMA ClassOfValue ==
    ASSUME NEW v \in Nat
    PROVE  Classification(v, 400) = IF v >= 350 THEN 1 ELSE IF v >= 300 THEN 2
                                    ELSE IF v >= 250 THEN 3 ELSE IF v >= 200 THEN 4 ELSE 5
  <1>1. PICK K : K = {b \in {875, 750, 625, 500} : 1000 * v >= b * 400}
    OBVIOUS
  <1>2. Classification(v, 400) = 5 - Cardinality(K)
    BY <1>1 DEF Classification
  <1>3. \A a : Cardinality({a}) = 1 /\ IsFiniteSet({a})
    BY FS_Singleton
  <1>4. Cardinality({500, 625}) = 2 /\ IsFiniteSet({500, 625})
    <2>1. {500, 625} = {500} \cup {625} /\ 625 \notin {500}
      OBVIOUS
    <2>2. Cardinality({500}) = 1 /\ IsFiniteSet({500})
      BY <1>3
    <2> QED BY <2>1, <2>2, FS_AddElement
  <1>5. Cardinality({500, 625, 750}) = 3 /\ IsFiniteSet({500, 625, 750})
    <2>1. {500, 625, 750} = {500, 625} \cup {750} /\ 750 \notin {500, 625}
      OBVIOUS
    <2> QED BY <1>4, <2>1, FS_AddElement
  <1>6. Cardinality({500, 625, 750, 875}) = 4
    <2>1. {500, 625, 750, 875} = {500, 625, 750} \cup {875} /\ 875 \notin {500, 625, 750}
      OBVIOUS
    <2> QED BY <1>5, <2>1, FS_AddElement
  <1>7. Cardinality({}) = 0
    BY FS_EmptySet
  <1>8. CASE v >= 350
    <2>1. K = {500, 625, 750, 875}
      BY <1>1, <1>8
    <2> QED BY <1>2, <1>6, <1>8, <2>1
  <1>9. CASE v >= 300 /\ ~(v >= 350)
    <2>1. K = {500, 625, 750}
      BY <1>1, <1>9
    <2> QED BY <1>2, <1>5, <1>9, <2>1
  <1>10. CASE v >= 250 /\ ~(v >= 300)
    <2>1. K = {500, 625}
      BY <1>1, <1>10
    <2> QED BY <1>2, <1>4, <1>10, <2>1
  <1>11. CASE v >= 200 /\ ~(v >= 250)
    <2>1. K = {500}
      BY <1>1, <1>11
    <2> QED BY <1>2, <1>3, <1>11, <2>1
  <1>12. CASE ~(v >= 200)
    <2>1. K = {}
      BY <1>1, <1>12
    <2> QED BY <1>2, <1>7, <1>12, <2>1
  <1> QED BY <1>8, <1>9, <1>10, <1>11, <1>12

\* The list of one row, and what it weighs.
LEMMA ListDef ==
    ASSUME NEW e \in EntryList
    PROVE  /\ Len(e) \in Nat /\ DOMAIN e = 1..Len(e)
           /\ \A i \in 1..Len(e) : e[i][1] \in Nat /\ e[i][2] \in Nat
           /\ Weighed(e) = {i \in 1..Len(e) : e[i][1] > 0}
           /\ IsFiniteSet(Weighed(e))
  <1>1. Len(e) \in Nat /\ DOMAIN e = 1..Len(e) /\ \A i \in 1..Len(e) : e[i] \in Credits \X Points
    BY DEF EntryList
  <1>2. \A i \in 1..Len(e) : e[i][1] \in Nat /\ e[i][2] \in Nat
    BY <1>1, BoundsAssumption
  <1>3. Weighed(e) = {i \in 1..Len(e) : e[i][1] > 0}
    BY <1>1 DEF Weighed
  <1>4. IsFiniteSet(Weighed(e))
    <2>1. Weighed(e) \in SUBSET (1..Len(e)) /\ IsFiniteSet(1..Len(e))
      BY <1>1, <1>3, FS_Interval
    <2> QED BY <2>1, FS_Subset
  <1> QED BY <1>1, <1>2, <1>3, <1>4

\* The sums of a list are numbers, and where nothing weighs there are no points.
LEMMA ListSums ==
    ASSUME NEW e \in EntryList
    PROVE  /\ TotalCredits(e) \in Nat /\ TotalPoints(e) \in Nat
           /\ TotalCredits(e) = 0 => TotalPoints(e) = 0
  <1>1. PICK c, q : /\ c = [i \in DOMAIN e |-> e[i][1]]
                    /\ q = [i \in DOMAIN e |-> e[i][1] * e[i][2]]
    OBVIOUS
  <1>2. PICK S : S = Weighed(e)
    OBVIOUS
  <1>3. IsFiniteSet(S) /\ \A i \in S : c[i] \in Nat /\ c[i] > 0 /\ q[i] \in Nat
    BY <1>1, <1>2, ListDef
  <1>4. TotalCredits(e) = Total(c, S) /\ TotalPoints(e) = Total(q, S)
    BY <1>1, <1>2 DEF TotalCredits, TotalPoints, SumOver, Total
  <1>5. Total(c, S) \in Nat /\ Total(q, S) \in Nat
    BY <1>3, SumSplitsOff
  <1>6. ASSUME Total(c, S) = 0 PROVE Total(q, S) = 0
    <2>1. ASSUME NEW i \in S PROVE FALSE
      <3>1. Total(c, S) = c[i] + Total(c, S \ {i})
        BY <1>3, SumSplitsOff
      <3>2. Total(c, S \ {i}) \in Nat
        <4>1. PICK B : B = S \ {i}
          OBVIOUS
        <4>2. IsFiniteSet(B) /\ \A j \in B : c[j] \in Nat
          BY <1>3, <4>1, FS_Subset
        <4> QED BY <4>1, <4>2, SumSplitsOff
      <3> QED BY <1>3, <1>6, <3>1, <3>2
    <2>2. S = {}
      BY <2>1
    <2> QED BY <1>3, <2>2, SumSplitsOff
  <1> QED BY <1>4, <1>5, <1>6

\* A column of two lists joined, one after the other.
LEMMA JoinedTotal ==
    ASSUME NEW s \in EntryList, NEW t \in EntryList, NEW f, NEW g, NEW k,
           \A i \in Weighed(s) : f[i] \in Nat /\ k[i] = f[i],
           \A i \in Weighed(t) : g[i] \in Nat /\ k[Len(s) + i] = g[i]
    PROVE  Total(k, Weighed(s \o t)) = Total(f, Weighed(s)) + Total(g, Weighed(t))
  <1>1. PICK S, T, n : S = Weighed(s) /\ T = Weighed(t) /\ n = Len(s)
    OBVIOUS
  <1>2. /\ n \in Nat /\ IsFiniteSet(S) /\ IsFiniteSet(T)
        /\ S = {i \in 1..n : s[i][1] > 0} /\ T = {i \in 1..Len(t) : t[i][1] > 0}
    BY <1>1, ListDef
  <1>3. PICK h : h = [i \in T |-> n + i]
    OBVIOUS
  <1>4. PICK R : R = {h[i] : i \in T}
    OBVIOUS
  <1>5. PICK x : x = [i \in S |-> i]
    OBVIOUS
  <1>6. Total(k, S) = Total(f, S)
    <2>1. Renames(x, S, S, f, k)
      BY <1>1, <1>5 DEF Renames
    <2> QED BY <1>2, <2>1, SumRenamed
  <1>7. Total(k, R) = Total(g, T)
    <2>1. Renames(h, T, R, g, k)
      BY <1>1, <1>2, <1>3, <1>4 DEF Renames
    <2> QED BY <1>2, <2>1, SumRenamed
  <1>8. IsFiniteSet(R)
    <2>1. h \in Surjection(T, R)
      BY <1>3, <1>4 DEF Surjection
    <2> QED BY <1>2, <2>1, FS_Surjection
  <1>9. S \cap R = {}
    BY <1>2, <1>3, <1>4
  <1>10. \A i \in S \cup R : k[i] \in Nat
    BY <1>1, <1>3, <1>4
  <1>11. Weighed(s \o t) = S \cup R
    <2>1. PICK u : u = s \o t
      OBVIOUS
    <2>2. u \in EntryList
      BY <2>1 DEF EntryList
    <2>3. /\ Len(u) = n + Len(t)
          /\ \A i \in 1..n : u[i] = s[i]
          /\ \A i \in 1..Len(t) : u[n + i] = t[i]
      BY <1>1, <2>1 DEF EntryList
    <2>4. Weighed(u) = {i \in 1..Len(u) : u[i][1] > 0}
      BY <2>2, ListDef
    <2>5. Len(t) \in Nat
      BY ListDef
    <2>6. ASSUME NEW i \in Weighed(u) PROVE i \in S \cup R
      <3>1. i \in 1..(n + Len(t)) /\ u[i][1] > 0
        BY <2>3, <2>4
      <3>2. CASE i <= n
        <4>1. i \in 1..n
          BY <1>2, <3>1, <3>2
        <4> QED BY <1>2, <2>3, <3>1, <4>1
      <3>3. CASE i > n
        <4>1. PICK j \in 1..Len(t) : i = n + j
          <5>1. i - n \in 1..Len(t) /\ i = n + (i - n)
            BY <1>2, <2>5, <3>1, <3>3
          <5> QED BY <5>1
        <4>2. j \in T
          BY <1>2, <2>3, <3>1, <4>1
        <4> QED BY <1>3, <1>4, <4>1, <4>2
      <3> QED BY <1>2, <3>1, <3>2, <3>3
    <2>7. ASSUME NEW i \in S PROVE i \in Weighed(u)
      <3>1. i \in 1..n /\ i \in 1..Len(u)
        BY <1>2, <2>3, <2>5
      <3> QED BY <1>2, <2>3, <2>4, <3>1
    <2>8. ASSUME NEW i \in R PROVE i \in Weighed(u)
      <3>1. PICK j \in T : i = n + j
        BY <1>3, <1>4
      <3>2. j \in 1..Len(t) /\ i \in 1..Len(u)
        BY <1>2, <2>3, <2>5, <3>1
      <3> QED BY <1>2, <2>3, <2>4, <3>1, <3>2
    <2> QED BY <2>1, <2>6, <2>7, <2>8
  <1>12. Total(k, S \cup R) = Total(k, S) + Total(k, R)
    BY <1>2, <1>8, <1>9, <1>10, SumOfUnion
  <1> QED BY <1>1, <1>6, <1>7, <1>11, <1>12

\* The sums of two lists joined.
LEMMA JoinedSums ==
    ASSUME NEW s \in EntryList, NEW t \in EntryList
    PROVE  /\ TotalCredits(s \o t) = TotalCredits(s) + TotalCredits(t)
           /\ TotalPoints(s \o t) = TotalPoints(s) + TotalPoints(t)
  <1>1. PICK u : u = s \o t
    OBVIOUS
  <1>2. /\ u \in EntryList /\ Len(u) = Len(s) + Len(t)
        /\ \A i \in 1..Len(s) : u[i] = s[i]
        /\ \A i \in 1..Len(t) : u[Len(s) + i] = t[i]
    BY <1>1 DEF EntryList
  <1>3. /\ Len(s) \in Nat /\ DOMAIN s = 1..Len(s) /\ Len(t) \in Nat /\ DOMAIN t = 1..Len(t)
        /\ DOMAIN u = 1..Len(u)
        /\ \A i \in 1..Len(s) : s[i][1] \in Nat /\ s[i][2] \in Nat
        /\ \A i \in 1..Len(t) : t[i][1] \in Nat /\ t[i][2] \in Nat
    BY <1>2, ListDef
  <1>4. /\ \A i \in Weighed(s) : i \in 1..Len(s) /\ i \in DOMAIN u
        /\ \A i \in Weighed(t) : i \in 1..Len(t) /\ Len(s) + i \in DOMAIN u
    <2>1. \A i \in Weighed(s) : i \in 1..Len(s)
      BY <1>3 DEF Weighed
    <2>2. \A i \in Weighed(t) : i \in 1..Len(t)
      BY <1>3 DEF Weighed
    <2>3. \A i \in 1..Len(s) : i \in 1..Len(u)
      BY <1>2, <1>3
    <2>4. \A i \in 1..Len(t) : Len(s) + i \in 1..Len(u)
      BY <1>2, <1>3
    <2> QED BY <1>3, <2>1, <2>2, <2>3, <2>4
  <1>5. TotalCredits(u) = TotalCredits(s) + TotalCredits(t)
    <2>1. PICK f, g, k : /\ f = [i \in DOMAIN s |-> s[i][1]] /\ g = [i \in DOMAIN t |-> t[i][1]]
                         /\ k = [i \in DOMAIN u |-> u[i][1]]
      OBVIOUS
    <2>2. \A i \in Weighed(s) : f[i] \in Nat /\ k[i] = f[i]
      BY <1>2, <1>3, <1>4, <2>1
    <2>3. \A i \in Weighed(t) : g[i] \in Nat /\ k[Len(s) + i] = g[i]
      BY <1>2, <1>3, <1>4, <2>1
    <2>4. Total(k, Weighed(s \o t)) = Total(f, Weighed(s)) + Total(g, Weighed(t))
      BY <2>2, <2>3, JoinedTotal
    <2>5. TotalCredits(s) = Total(f, Weighed(s))
      BY <2>1 DEF TotalCredits, SumOver, Total
    <2>6. TotalCredits(t) = Total(g, Weighed(t))
      BY <2>1 DEF TotalCredits, SumOver, Total
    <2>7. TotalCredits(u) = Total(k, Weighed(u))
      BY <2>1 DEF TotalCredits, SumOver, Total
    <2> QED BY <1>1, <2>4, <2>5, <2>6, <2>7
  <1>6. TotalPoints(u) = TotalPoints(s) + TotalPoints(t)
    <2>1. PICK f, g, k : /\ f = [i \in DOMAIN s |-> s[i][1] * s[i][2]]
                         /\ g = [i \in DOMAIN t |-> t[i][1] * t[i][2]]
                         /\ k = [i \in DOMAIN u |-> u[i][1] * u[i][2]]
      OBVIOUS
    <2>2. \A i \in Weighed(s) : f[i] \in Nat /\ k[i] = f[i]
      BY <1>2, <1>3, <1>4, <2>1
    <2>3. \A i \in Weighed(t) : g[i] \in Nat /\ k[Len(s) + i] = g[i]
      BY <1>2, <1>3, <1>4, <2>1
    <2>4. Total(k, Weighed(s \o t)) = Total(f, Weighed(s)) + Total(g, Weighed(t))
      BY <2>2, <2>3, JoinedTotal
    <2>5. TotalPoints(s) = Total(f, Weighed(s))
      BY <2>1 DEF TotalPoints, SumOver, Total
    <2>6. TotalPoints(t) = Total(g, Weighed(t))
      BY <2>1 DEF TotalPoints, SumOver, Total
    <2>7. TotalPoints(u) = Total(k, Weighed(u))
      BY <2>1 DEF TotalPoints, SumOver, Total
    <2> QED BY <1>1, <2>4, <2>5, <2>6, <2>7
  <1> QED BY <1>1, <1>5, <1>6

\* What a semester adds to the points of the summaries.
Summary(e) == IF TotalCredits(e) > 0 THEN TotalCredits(e) * Gpa(e) ELSE 0

\* A semester's rounded summary is at most half its credits away from its points.
LEMMA SummaryNear ==
    ASSUME NEW e \in EntryList
    PROVE  /\ Summary(e) \in Nat
           /\ 2 * Summary(e) - TotalCredits(e) <= 2 * TotalPoints(e)
           /\ 2 * TotalPoints(e) <= 2 * Summary(e) + TotalCredits(e)
           /\ TotalCredits(e) > 0 => Gpa(e) \in Nat
           /\ TotalCredits(e) = 0 => Gpa(e) = -1
  <1>1. PICK d, n, q : d = TotalCredits(e) /\ n = TotalPoints(e) /\ q = Gpa(e)
    OBVIOUS
  <1>2. d \in Nat /\ n \in Nat /\ (d = 0 => n = 0)
    BY <1>1, ListSums
  <1>3. CASE d = 0
    BY <1>1, <1>2, <1>3 DEF Summary, Gpa
  <1>4. CASE d > 0
    <2>1. q = HalfUp(n, d)
      BY <1>1, <1>4 DEF Gpa
    <2>2. q \in Nat /\ 2 * (d * q) <= 2 * n + d /\ 2 * n + d < 2 * (d * q) + 2 * d
      BY <1>2, <1>4, <2>1, HalfUpNear
    <2>3. Summary(e) = d * q /\ d * q \in Nat
      BY <1>1, <1>2, <1>4, <2>2 DEF Summary
    <2> QED BY <1>1, <1>2, <1>4, <2>2, <2>3
  <1> QED BY <1>2, <1>3, <1>4

\* The sums over the summaries of two semesters.
LEMMA SummarySums ==
    ASSUME NEW s \in EntryList, NEW t \in EntryList, NEW e, DOMAIN e = {1, 2},
           e[1] = <<TotalCredits(s), Gpa(s)>>, e[2] = <<TotalCredits(t), Gpa(t)>>
    PROVE  /\ TotalCredits(e) = TotalCredits(s) + TotalCredits(t)
           /\ TotalPoints(e) = Summary(s) + Summary(t)
  <1>1. PICK c, q : c = [i \in DOMAIN e |-> e[i][1]] /\ q = [i \in DOMAIN e |-> e[i][1] * e[i][2]]
    OBVIOUS
  <1>2. PICK W : W = Weighed(e)
    OBVIOUS
  <1>3. TotalCredits(e) = Total(c, W) /\ TotalPoints(e) = Total(q, W)
    BY <1>1, <1>2 DEF TotalCredits, TotalPoints, SumOver, Total
  <1>4. /\ c[1] = TotalCredits(s) /\ c[2] = TotalCredits(t)
        /\ q[1] = TotalCredits(s) * Gpa(s) /\ q[2] = TotalCredits(t) * Gpa(t)
        /\ W = {i \in {1, 2} : c[i] > 0}
    BY <1>1, <1>2 DEF Weighed
  <1>5. /\ c[1] \in Nat /\ c[2] \in Nat
        /\ c[1] > 0 => q[1] \in Nat /\ q[1] = Summary(s)
        /\ c[1] = 0 => Summary(s) = 0
        /\ c[2] > 0 => q[2] \in Nat /\ q[2] = Summary(t)
        /\ c[2] = 0 => Summary(t) = 0
    BY <1>4, ListSums, SummaryNear DEF Summary
  <1>6. ASSUME NEW i \in W
        PROVE  IsFiniteSet({i}) /\ Total(c, {i}) = c[i] /\ Total(q, {i}) = q[i]
    <2>1. c[i] \in Nat /\ q[i] \in Nat
      BY <1>4, <1>5
    <2>2. IsFiniteSet({i}) /\ {i} \ {i} = {}
      BY FS_Singleton
    <2>3. Total(c, {i}) = c[i] + Total(c, {}) /\ Total(q, {i}) = q[i] + Total(q, {})
      BY <2>1, <2>2, SumSplitsOff
    <2>4. Total(c, {}) = 0 /\ Total(q, {}) = 0
      BY <2>1, <2>2, SumSplitsOff
    <2> QED BY <2>1, <2>2, <2>3, <2>4
  <1>7. CASE c[1] > 0 /\ c[2] > 0
    <2>1. W = {1} \cup {2} /\ {1} \cap {2} = {} /\ 1 \in W /\ 2 \in W
      BY <1>4, <1>7
    <2>2. \A i \in {1} \cup {2} : c[i] \in Nat /\ q[i] \in Nat
      BY <1>5, <1>7
    <2>3. IsFiniteSet({1}) /\ IsFiniteSet({2})
      BY FS_Singleton
    <2>4. /\ Total(c, {1} \cup {2}) = Total(c, {1}) + Total(c, {2})
          /\ Total(q, {1} \cup {2}) = Total(q, {1}) + Total(q, {2})
      BY <2>1, <2>2, <2>3, SumOfUnion
    <2>5. /\ Total(c, {1}) = c[1] /\ Total(q, {1}) = q[1]
          /\ Total(c, {2}) = c[2] /\ Total(q, {2}) = q[2]
      BY <1>6, <2>1
    <2> QED BY <1>3, <1>4, <1>5, <1>7, <2>1, <2>4, <2>5
  <1>8. CASE c[1] > 0 /\ c[2] = 0
    <2>1. W = {1}
      BY <1>4, <1>8
    <2>2. Total(c, {1}) = c[1] /\ Total(q, {1}) = q[1]
      BY <1>6, <2>1
    <2>3. TotalCredits(e) = c[1] /\ TotalPoints(e) = q[1]
      BY <1>3, <2>1, <2>2
    <2> QED BY <1>4, <1>5, <1>8, <2>3
  <1>9. CASE c[1] = 0 /\ c[2] > 0
    <2>1. W = {2}
      BY <1>4, <1>9
    <2>2. Total(c, {2}) = c[2] /\ Total(q, {2}) = q[2]
      BY <1>6, <2>1
    <2>3. TotalCredits(e) = c[2] /\ TotalPoints(e) = q[2]
      BY <1>3, <2>1, <2>2
    <2> QED BY <1>4, <1>5, <1>9, <2>3
  <1>10. CASE c[1] = 0 /\ c[2] = 0
    <2>1. W = {}
      BY <1>4, <1>10
    <2>2. Total(c, {}) = 0 /\ Total(q, {}) = 0
      BY SumSplitsOff, FS_EmptySet
    <2> QED BY <1>3, <1>4, <1>5, <1>10, <2>1, <2>2
  <1> QED BY <1>5, <1>7, <1>8, <1>9, <1>10

\* Averages of summaries agree with averages of courses up to a hundredth.
LEMMA AveragesAgree ==
    ASSUME GradingTypeOK PROVE SummariesAgreeWithCourses
  <1>1. PICK s, t : s = graded[1] /\ t = graded[2]
    OBVIOUS
  <1>2. s \in EntryList /\ t \in EntryList /\ DOMAIN graded = {1, 2}
    BY <1>1 DEF GradingTypeOK, EntryList, Terms
  <1>3. PICK e : e = [i \in DOMAIN graded |-> <<TotalCredits(graded[i]), Gpa(graded[i])>>]
    OBVIOUS
  <1>4. PICK d, n, w : d = TotalCredits(s) + TotalCredits(t) /\ n = TotalPoints(s) + TotalPoints(t)
                       /\ w = Summary(s) + Summary(t)
    OBVIOUS
  <1>5. /\ d \in Nat /\ n \in Nat /\ w \in Nat
        /\ 2 * w - d <= 2 * n /\ 2 * n <= 2 * w + d
    <2>1. /\ TotalCredits(s) \in Nat /\ TotalPoints(s) \in Nat
          /\ TotalCredits(t) \in Nat /\ TotalPoints(t) \in Nat
      BY <1>2, ListSums
    <2>2. /\ Summary(s) \in Nat /\ Summary(t) \in Nat
          /\ 2 * Summary(s) - TotalCredits(s) <= 2 * TotalPoints(s)
          /\ 2 * TotalPoints(s) <= 2 * Summary(s) + TotalCredits(s)
          /\ 2 * Summary(t) - TotalCredits(t) <= 2 * TotalPoints(t)
          /\ 2 * TotalPoints(t) <= 2 * Summary(t) + TotalCredits(t)
      BY <1>2, SummaryNear
    <2> QED BY <1>4, <2>1, <2>2
  <1>6. PICK all, summed : all = Gpa(graded[1] \o graded[2]) /\ summed = WeightedSemesterCgpa(graded)
    OBVIOUS
  <1>7. all = IF d = 0 THEN -1 ELSE HalfUp(n, d)
    <2>1. TotalCredits(s \o t) = d /\ TotalPoints(s \o t) = n
      BY <1>2, <1>4, JoinedSums
    <2> QED BY <1>1, <1>6, <2>1 DEF Gpa
  <1>8. summed = IF d = 0 THEN -1 ELSE HalfUp(w, d)
    <2>1. /\ DOMAIN e = {1, 2}
          /\ e[1] = <<TotalCredits(s), Gpa(s)>> /\ e[2] = <<TotalCredits(t), Gpa(t)>>
      BY <1>1, <1>2, <1>3
    <2>2. TotalCredits(e) = d /\ TotalPoints(e) = w
      BY <1>2, <1>4, <2>1, SummarySums
    <2>3. summed = Gpa(e)
      BY <1>3, <1>6 DEF WeightedSemesterCgpa
    <2> QED BY <2>2, <2>3 DEF Gpa
  <1>9. CASE d = 0
    <2>1. all = -1 /\ summed = -1
      BY <1>7, <1>8, <1>9
    <2>2. Classification(-1, 400) = 0
      BY DEF Classification
    <2>3. 0 - 0 \in -1..1 /\ (-1) - (-1) \in -1..1
      OBVIOUS
    <2> QED BY <1>6, <2>1, <2>2, <2>3 DEF SummariesAgreeWithCourses
  <1>10. CASE d > 0
    <2>1. all = HalfUp(n, d) /\ summed = HalfUp(w, d)
      BY <1>7, <1>8, <1>10
    <2>2. all \in Nat /\ summed \in Nat
      BY <1>5, <1>10, <2>1, HalfUpNear
    <2>3. all - summed \in -1..1
      BY <1>5, <1>10, <2>1, RoundedNear
    <2>4. PICK x, y : x = Classification(all, 400) /\ y = Classification(summed, 400)
      OBVIOUS
    <2>5. x = IF all >= 350 THEN 1 ELSE IF all >= 300 THEN 2
              ELSE IF all >= 250 THEN 3 ELSE IF all >= 200 THEN 4 ELSE 5
      BY <2>2, <2>4, ClassOfValue
    <2>6. y = IF summed >= 350 THEN 1 ELSE IF summed >= 300 THEN 2
              ELSE IF summed >= 250 THEN 3 ELSE IF summed >= 200 THEN 4 ELSE 5
      BY <2>2, <2>4, ClassOfValue
    <2>7. x - y \in -1..1
      BY <2>2, <2>3, <2>5, <2>6
    <2>8. (all = -1) <=> (summed = -1)
      BY <2>2
    <2> QED BY <1>6, <2>3, <2>4, <2>7, <2>8 DEF SummariesAgreeWithCourses
  <1> QED BY <1>5, <1>9, <1>10

\* However a student's courses are graded, the average of the rounded semester
\* averages stays within a hundredth of the average of the courses, and the class
\* it earns within one.
THEOREM SummariesStayClose == GradingSpec => []SummariesAgreeWithCourses
<1>1. GradingTypeOK => SummariesAgreeWithCourses  BY AveragesAgree
<1> QED  BY <1>1, GradingTypes, PTL

----------------------------------------------------------------------------
(* The offices side by side.                                               *)

\* A step of the offices is a step of each one or leaves it alone.
LEMMA OfficeSteps ==
    ASSUME [AcademicNext]_<<academicVars, office>>
    PROVE  /\ [CurriculumNext]_curriculumVars /\ [EnrollmentNext]_enrollmentVars
           /\ [ScaleNext \/ AveragesNext]_gradingVars /\ [MarksNext]_marksVars
           /\ [ResultsNext]_resultsVars /\ [AttendanceNext]_attendanceVars /\ [TtNext]_ttVars
  BY DEF AcademicNext, academicVars

\* The composition runs every office.
THEOREM OfficesRunSideBySide ==
    AcademicSpec => /\ CurriculumSpec /\ EnrollmentSpec /\ GradingSpec /\ MarksSpec
                    /\ ResultsSpec /\ AttendanceSpec /\ TtSpec
  <1>1. AcademicInit => /\ CurriculumInit /\ EnrollmentInit /\ GradingInit /\ MarksInit
                        /\ ResultsInit /\ AttendanceInit /\ TtInit
    BY DEF AcademicInit
  <1>2. [AcademicNext]_<<academicVars, office>> =>
           /\ [CurriculumNext]_curriculumVars /\ [EnrollmentNext]_enrollmentVars
           /\ [ScaleNext \/ AveragesNext]_gradingVars /\ [MarksNext]_marksVars
           /\ [ResultsNext]_resultsVars /\ [AttendanceNext]_attendanceVars /\ [TtNext]_ttVars
    BY OfficeSteps
  <1> QED BY <1>1, <1>2, PTL DEF AcademicSpec, CurriculumSpec, EnrollmentSpec, GradingSpec,
             MarksSpec, ResultsSpec, AttendanceSpec, TtSpec

\* Every office's tables keep their types.
THEOREM AcademicTypes == AcademicSpec => []AcademicTypeOK
  <1>1. CurriculumInv => CurriculumTypeOK
    BY DEF CurriculumInv, CurriculumTypeOK, EditType, LinkType
  <1>2. EnrollmentInv => EnrollmentTypeOK
    <2>1. Len(Phases) = 3
      BY DEF Phases
    <2> QED BY <2>1 DEF EnrollmentInv, EnrollmentTypeOK, EnrRequest, EnrOps, RegRow
  <1>3. /\ MarksInv => MarksTypeOK
        /\ ResultsInv => ResultsTypeOK
        /\ TtInv => TtTypeOK
    BY DEF MarksInv, ResultsInv, TtInv, TtInvType
  <1>4. /\ CurriculumInv /\ EnrollmentInv /\ GradingTypeOK /\ MarksInv /\ ResultsInv
        /\ AttendanceTypeOK /\ TtInv
        => AcademicTypeOK
    BY <1>1, <1>2, <1>3 DEF AcademicTypeOK
  <1> QED BY <1>4, OfficesRunSideBySide, CurriculumInvariant, EnrollmentInvariant, GradingTypes,
             MarksInvariant, ResultsInvariant, AttendanceTypes, TtInvariant, PTL
=============================================================================

--------------------------- MODULE RecordsProofs ---------------------------
(***************************************************************************)
(* The offices that keep a person's records: the registry, documents, the  *)
(* library, the hostel, HR and the sign-in, each proved for every number   *)
(* of people, rows and overlapping requests.  The argument is the same in  *)
(* all of them: what a request has loaded is the row on record unless a    *)
(* save has overtaken it, so a guard checked on the copy holds of the row  *)
(* a save replaces, or the save is the race the property makes an          *)
(* exception of.                                                           *)
(***************************************************************************)
EXTENDS Registry, Documents, Library, Hostel, HR, SignIn, FiniteSetTheorems, TLAPS

----------------------------------------------------------------------------
(* The registry.                                                           *)

\* One entry of the status history.
HistoryEntry == [from : StudentStatus \cup {""}, to : StudentStatus]

\* A history that leads to `status` along the transitions, from the admission or, of
\* a record added in the admin, from wherever it was.
Chain(n, h, status) ==
    /\ n # Blank => h # << >> /\ h[1] = [from |-> "", to |-> "active"]
    /\ n = Blank /\ h # << >> => h[1].to \in StatusesAfter(h[1].from)
    /\ h # << >> => h[Len(h)].to = status
    /\ \A i \in 2..Len(h) : h[i].from = h[i - 1].to /\ h[i].to \in StatusesAfter(h[i].from)

\* A request that has loaded a record.
RegRequest == [do : {"update", "delete", "restatus"} \cup StudentStatus, on : Numbers, row : Student,
               stale : BOOLEAN]

\* The type of the registry's state.
RegInvType ==
    /\ student \in [Numbers -> Student \cup {NoStudent}]
    /\ history \in [Numbers -> Seq(HistoryEntry)]
    /\ alumni \subseteq Numbers
    /\ regCall \in [RegCalls -> RegRequest \cup {RegIdle}]
    /\ regRaced \subseteq Numbers
    /\ handmade \subseteq alumni

\* What a request has loaded exists, is current unless it was overtaken, and allows
\* the change the request is about.
RegReadsAreCurrent ==
    \A c \in RegCalls :
        regCall[c] = RegIdle \/
        /\ student[regCall[c].on] # NoStudent
        /\ regCall[c].stale \/ regCall[c].row = student[regCall[c].on]
        /\ regCall[c].do \in StudentStatus => regCall[c].do \in StatusesAfter(regCall[c].row.status)

\* Records and histories agree.
RegChains ==
    /\ \A n \in alumni : student[n] # NoStudent
    /\ student[Blank] = NoStudent => history[Blank] = << >>
    /\ \A n \in Numbers \ regRaced :
          /\ student[n] # NoStudent => Chain(n, history[n], student[n].status)
          /\ n \in alumni \ handmade => student[n].status = "graduated"

RegInv == RegInvType /\ RegReadsAreCurrent /\ RegChains

\* An allowed change makes the chain one longer.
LEMMA ChainGrows ==
    ASSUME NEW n, NEW h \in Seq(HistoryEntry), NEW s \in StudentStatus, NEW t \in StudentStatus,
           Chain(n, h, s), t \in StatusesAfter(s)
    PROVE  /\ Append(h, [from |-> s, to |-> t]) \in Seq(HistoryEntry)
           /\ Chain(n, Append(h, [from |-> s, to |-> t]), t)
  <1>1. PICK e : e = [from |-> s, to |-> t]
    OBVIOUS
  <1>2. e \in HistoryEntry /\ e.from = s /\ e.to = t
    BY <1>1 DEF HistoryEntry
  <1>3. PICK k : k = Append(h, e)
    OBVIOUS
  <1>4. k \in Seq(HistoryEntry) /\ Len(k) = Len(h) + 1 /\ Len(h) \in Nat /\ k[Len(k)] = e
    <2>1. k \in Seq(HistoryEntry) /\ Len(h) \in Nat
      BY <1>2, <1>3
    <2>2. Len(k) = Len(h) + 1
      BY <1>2, <1>3
    <2>3. k[Len(h) + 1] = e
      BY <1>2, <1>3
    <2> QED BY <2>1, <2>2, <2>3
  <1>5. k # << >> /\ k[Len(k)].to = t
    BY <1>2, <1>4
  <1>6. \A i \in 1..Len(h) : k[i] = h[i]
    BY <1>2, <1>3
  <1>a. h # << >> => Len(h) >= 1
    BY <1>4
  <1>b. h = << >> => Len(h) = 0
    OBVIOUS
  <1>c. h # << >> => h[Len(h)].to = s
    BY Zenon DEF Chain
  <1>d. h # << >> => k[1] = h[1]
    BY <1>4, <1>6, <1>a
  <1>e. h = << >> => k[1] = e
    BY <1>4, <1>b
  <1>7. n # Blank => k[1] = [from |-> "", to |-> "active"]
    <2> SUFFICES ASSUME n # Blank PROVE k[1] = [from |-> "", to |-> "active"]
      OBVIOUS
    <2>1. h # << >> /\ h[1] = [from |-> "", to |-> "active"]
      BY Zenon DEF Chain
    <2>2. k[1] = h[1]
      BY <1>d, <2>1
    <2> QED BY <2>1, <2>2, Zenon
  <1>8. n = Blank => k[1].to \in StatusesAfter(k[1].from)
    <2> SUFFICES ASSUME n = Blank PROVE k[1].to \in StatusesAfter(k[1].from)
      OBVIOUS
    <2>1. CASE h = << >>
      <3>1. k[1] = e
        BY <1>e, <2>1
      <3> QED BY <1>2, <3>1
    <2>2. CASE h # << >>
      <3>1. k[1] = h[1]
        BY <1>d, <2>2
      <3>2. h[1].to \in StatusesAfter(h[1].from)
        BY <2>2, Zenon DEF Chain
      <3> QED BY <3>1, <3>2
    <2> QED BY <2>1, <2>2
  <1>9. ASSUME NEW i \in 2..Len(k)
        PROVE  k[i].from = k[i - 1].to /\ k[i].to \in StatusesAfter(k[i].from)
    <2>1. CASE i = Len(k)
      <3>1. i - 1 = Len(h) /\ i - 1 \in 1..Len(h) /\ h # << >>
        BY <2>1, <1>4, <1>b
      <3>2. k[i - 1].to = s
        BY <3>1, <1>6, <1>c
      <3> QED BY <2>1, <1>4, <1>2, <3>2
    <2>2. CASE i # Len(k)
      <3>1. i \in 2..Len(h) /\ i \in 1..Len(h) /\ i - 1 \in 1..Len(h)
        BY <2>2, <1>4
      <3>2. h[i].from = h[i - 1].to /\ h[i].to \in StatusesAfter(h[i].from)
        BY <3>1 DEF Chain
      <3> QED BY <3>1, <3>2, <1>6
    <2> QED BY <2>1, <2>2
  <1>10. Chain(n, k, t)
    BY <1>5, <1>7, <1>8, <1>9 DEF Chain
  <1> QED BY <1>1, <1>3, <1>4, <1>10

\* The save at the end of a request: `kept` is the history afterwards.
LEMMA RegSaveStep ==
    ASSUME RegInv, NEW c \in RegCalls, regCall[c] # RegIdle, NEW new \in Student,
           SaveStudent(c, new),
           NEW kept, history' = [history EXCEPT ![regCall[c].on] = kept],
           kept \in Seq(HistoryEntry),
           ~regCall[c].stale /\ regCall[c].on \notin regRaced =>
                                /\ Chain(regCall[c].on, kept, new.status)
                                /\ regCall[c].on \in alumni \ handmade => new.status = "graduated"
    PROVE  RegInv'
  <1>1. PICK n \in Numbers : n = regCall[c].on
    BY DEF RegInv, RegInvType, RegRequest
  <1>2. /\ student' = [student EXCEPT ![n] = new]
        /\ history' = [history EXCEPT ![n] = kept]
        /\ regRaced' = IF regCall[c].stale THEN regRaced \cup {n} ELSE regRaced
        /\ alumni' = alumni /\ handmade' = handmade
        /\ regCall' = [d \in RegCalls |->
              IF d = c \/ regCall[d] = RegIdle THEN RegIdle
              ELSE [regCall[d] EXCEPT !.stale = @ \/ regCall[d].on = n]]
    BY <1>1 DEF SaveStudent
  <1>3. /\ \A m \in Numbers : student'[m] = IF m = n THEN new ELSE student[m]
        /\ \A m \in Numbers : history'[m] = IF m = n THEN kept ELSE history[m]
    BY <1>2 DEF RegInv, RegInvType
  <1>4. new # NoStudent
    BY NoStudentAssumption
  <1>5. ASSUME NEW d \in RegCalls
        PROVE  \/ regCall'[d] = RegIdle
               \/ /\ regCall[d] # RegIdle /\ regCall[d] \in RegRequest /\ regCall'[d] \in RegRequest
                  /\ regCall'[d].do = regCall[d].do /\ regCall'[d].on = regCall[d].on
                  /\ regCall'[d].row = regCall[d].row
                  /\ regCall'[d].stale = (regCall[d].stale \/ regCall[d].on = n)
    <2>1. CASE d = c \/ regCall[d] = RegIdle
      BY <2>1, <1>2
    <2>2. CASE ~(d = c \/ regCall[d] = RegIdle)
      <3>1. PICK b \in BOOLEAN : b = (regCall[d].stale \/ regCall[d].on = n)
        OBVIOUS
      <3>2. regCall[d] \in RegRequest
        BY <2>2 DEF RegInv, RegInvType
      <3>3. regCall'[d] = [regCall[d] EXCEPT !.stale = b]
        BY <2>2, <1>2, <3>1
      <3> QED BY <2>2, <3>1, <3>2, <3>3 DEF RegRequest
    <2> QED BY <2>1, <2>2
  <1>6. RegInvType'
    <2>1. regCall' \in [RegCalls -> RegRequest \cup {RegIdle}]
      BY <1>2, <1>5
    <2>2. student' \in [Numbers -> Student \cup {NoStudent}]
      BY <1>2 DEF RegInv, RegInvType
    <2>3. history' \in [Numbers -> Seq(HistoryEntry)]
      BY <1>2, <1>3 DEF RegInv, RegInvType
    <2>4. alumni' \subseteq Numbers /\ regRaced' \subseteq Numbers /\ handmade' \subseteq alumni'
      BY <1>2 DEF RegInv, RegInvType
    <2> QED BY <2>1, <2>2, <2>3, <2>4 DEF RegInvType
  <1>7. RegReadsAreCurrent'
    <2> SUFFICES ASSUME NEW d \in RegCalls, regCall'[d] # RegIdle
                 PROVE  /\ student'[regCall'[d].on] # NoStudent
                        /\ regCall'[d].stale \/ regCall'[d].row = student'[regCall'[d].on]
                        /\ regCall'[d].do \in StudentStatus =>
                              regCall'[d].do \in StatusesAfter(regCall'[d].row.status)
      BY DEF RegReadsAreCurrent
    <2>1. regCall[d].on \in Numbers
      BY <1>5 DEF RegRequest
    <2>2. /\ student[regCall[d].on] # NoStudent
          /\ regCall[d].stale \/ regCall[d].row = student[regCall[d].on]
          /\ regCall[d].do \in StudentStatus => regCall[d].do \in StatusesAfter(regCall[d].row.status)
      BY <1>5 DEF RegInv, RegReadsAreCurrent
    <2>3. student'[regCall[d].on] = IF regCall[d].on = n THEN new ELSE student[regCall[d].on]
      BY <1>3, <2>1
    <2> QED BY <1>4, <1>5, <2>2, <2>3
  <1>8. RegChains'
    <2>1. \A m \in alumni' : student'[m] # NoStudent
      BY <1>2, <1>3, <1>4 DEF RegInv, RegInvType, RegChains
    <2>2. ASSUME NEW m \in Numbers \ regRaced'
          PROVE  /\ student'[m] # NoStudent => Chain(m, history'[m], student'[m].status)
                 /\ m \in alumni' \ handmade' => student'[m].status = "graduated"
      <3>1. m \in Numbers \ regRaced /\ (m = n => ~regCall[c].stale)
        BY <1>2
      <3>2. CASE m = n
        BY <3>1, <3>2, <1>1, <1>2, <1>3
      <3>3. CASE m # n
        <4>1. student'[m] = student[m] /\ history'[m] = history[m] /\ alumni' = alumni /\ handmade' = handmade
          BY <3>3, <1>2, <1>3
        <4> QED BY <4>1, <3>1 DEF RegInv, RegChains
      <3> QED BY <3>2, <3>3
    <2>3. student'[Blank] = NoStudent => history'[Blank] = << >>
      BY <1>3, <1>4, RegistryAssumption DEF RegInv, RegChains
    <2> QED BY <2>1, <2>2, <2>3 DEF RegChains
  <1> QED BY <1>6, <1>7, <1>8 DEF RegInv

\* Every operation of the registry keeps the invariant.
LEMMA RegStep == RegInv /\ [RegistryNext]_registryVars => RegInv'
  <1> SUFFICES ASSUME RegInv, [RegistryNext]_registryVars PROVE RegInv'
    OBVIOUS
  <1>0. /\ student \in [Numbers -> Student \cup {NoStudent}]
        /\ history \in [Numbers -> Seq(HistoryEntry)]
        /\ alumni \subseteq Numbers /\ regRaced \subseteq Numbers /\ handmade \subseteq alumni
        /\ regCall \in [RegCalls -> RegRequest \cup {RegIdle}]
    BY DEF RegInv, RegInvType
  <1>a. RegIdle.do = "none"
    BY DEF RegIdle
  <1>1. ASSUME NEW new, CreateStudents(new)
        PROVE  RegInv'
    <2>1. PICK first : first = <<[from |-> "", to |-> "active"]>>
      OBVIOUS
    <2>2. first \in Seq(HistoryEntry) /\ \A n : n # Blank => Chain(n, first, "active")
      <3>1. PICK e : e = [from |-> "", to |-> "active"]
        OBVIOUS
      <3>2. e \in HistoryEntry /\ e.to = "active"
        BY <3>1 DEF HistoryEntry, StudentStatus
      <3>3. first = <<e>> /\ Len(first) = 1 /\ first[1] = e /\ first \in Seq(HistoryEntry)
        <4>1. first = <<e>>
          BY <2>1, <3>1
        <4> QED BY <4>1, <3>2
      <3>4. first # << >> /\ 2..Len(first) = {}
        BY <3>3
      <3> QED BY <3>1, <3>2, <3>3, <3>4 DEF Chain
    <2>3. /\ \A n \in new : student[n] = NoStudent /\ n # Blank
          /\ student' = [n \in Numbers |-> IF n \in new THEN NewStudent ELSE student[n]]
          /\ history' = [n \in Numbers |-> IF n \in new THEN first ELSE history[n]]
          /\ UNCHANGED <<alumni, regCall, regRaced, handmade>>
      BY <1>1, <2>1 DEF CreateStudents
    <2>4. NewStudent \in Student /\ NewStudent.status = "active" /\ NewStudent # NoStudent
      <3>1. NewStudent \in Student /\ NewStudent.status = "active"
        BY DEF NewStudent, Student, StudentStatus
      <3> QED BY <3>1, NoStudentAssumption
    <2>5. RegInvType'
      BY <1>0, <2>2, <2>3, <2>4 DEF RegInvType
    <2>6. RegReadsAreCurrent'
      <3> SUFFICES ASSUME NEW d \in RegCalls, regCall[d] # RegIdle
                   PROVE  student'[regCall[d].on] = student[regCall[d].on]
        BY <2>3 DEF RegInv, RegReadsAreCurrent
      <3>1. regCall[d].on \in Numbers /\ student[regCall[d].on] # NoStudent
        BY <1>0 DEF RegInv, RegReadsAreCurrent, RegRequest
      <3> QED BY <2>3, <3>1
    <2>7. RegChains'
      <3>1. \A n \in alumni : n \notin new
        BY <2>3 DEF RegInv, RegChains
      <3>2. \A n \in Numbers : /\ n \in new => student'[n] = NewStudent /\ history'[n] = first
                               /\ n \notin new => student'[n] = student[n] /\ history'[n] = history[n]
        BY <2>3
      <3> QED BY <1>0, <2>2, <2>3, <2>4, <3>1, <3>2, RegistryAssumption DEF RegInv, RegChains
    <2> QED BY <2>5, <2>6, <2>7 DEF RegInv
  <1>2. ASSUME NEW n \in Numbers, CreateAlumniProfile(n)
        PROVE  RegInv'
    <2>1. /\ alumni' = alumni \cup {n} /\ UNCHANGED <<student, history, regCall, regRaced, handmade>>
          /\ student[n] # NoStudent /\ student[n].status = "graduated"
      BY <1>2 DEF CreateAlumniProfile, MayBecomeAlumnus, IsGraduated, Alive
    <2> QED BY <1>0, <2>1 DEF RegInv, RegInvType, RegReadsAreCurrent, RegChains
  <1>3. ASSUME NEW c \in RegCalls, NEW what \in {"update", "delete", "restatus"} \cup StudentStatus,
               NEW n \in Numbers, GetStudent(c, what, n),
               what \in StudentStatus => what \in StatusesAfter(student[n].status)
        PROVE  RegInv'
    <2>1. PICK new : new = [do |-> what, on |-> n, row |-> student[n], stale |-> FALSE]
      OBVIOUS
    <2>2. student[n] \in Student /\ student[n] # NoStudent
      BY <1>0, <1>3 DEF GetStudent, Alive
    <2>3. new \in RegRequest
      BY <2>1, <2>2 DEF RegRequest
    <2>4. regCall' = [regCall EXCEPT ![c] = new] /\ UNCHANGED <<student, history, alumni, regRaced, handmade>>
      BY <1>3, <2>1 DEF GetStudent
    <2>5. RegInvType' /\ RegChains'
      BY <1>0, <2>3, <2>4 DEF RegInv, RegInvType, RegChains
    <2>6. RegReadsAreCurrent'
      <3>1. \A d \in RegCalls : regCall'[d] = IF d = c THEN new ELSE regCall[d]
        BY <1>0, <2>4
      <3> QED BY <1>3, <2>1, <2>2, <2>4, <3>1 DEF RegInv, RegReadsAreCurrent
    <2> QED BY <2>5, <2>6 DEF RegInv
  <1>4. ASSUME NEW c \in RegCalls, UpdateStudent(c)
        PROVE  RegInv'
    <2>1. regCall[c] # RegIdle /\ regCall[c] \in RegRequest /\ regCall[c].on \in Numbers
          /\ regCall[c].row \in Student
      BY <1>0, <1>4, <1>a DEF UpdateStudent, RegRequest
    <2>2. history' = [history EXCEPT ![regCall[c].on] = history[regCall[c].on]]
      BY <1>0, <1>4, <2>1 DEF UpdateStudent
    <2>3. ~regCall[c].stale /\ regCall[c].on \notin regRaced =>
             /\ Chain(regCall[c].on, history[regCall[c].on], regCall[c].row.status)
             /\ regCall[c].on \in alumni \ handmade => regCall[c].row.status = "graduated"
      BY <2>1 DEF RegInv, RegReadsAreCurrent, RegChains
    <2>4. history[regCall[c].on] \in Seq(HistoryEntry) /\ SaveStudent(c, regCall[c].row)
      BY <1>0, <1>4, <2>1 DEF UpdateStudent
    <2> QED BY <2>1, <2>2, <2>3, <2>4, RegSaveStep
  <1>5. ASSUME NEW c \in RegCalls, ChangeStatus(c)
        PROVE  RegInv'
    <2>1. PICK n, old, new : n = regCall[c].on /\ old = regCall[c].row.status /\ new = regCall[c].do
      OBVIOUS
    <2>2. PICK row : row = [regCall[c].row EXCEPT !.status = new]
      OBVIOUS
    <2>3. PICK kept : kept = Append(history[n], [from |-> old, to |-> new])
      OBVIOUS
    <2>4. /\ new \in StudentStatus /\ SaveStudent(c, row)
          /\ history' = [history EXCEPT ![n] = kept]
      BY <1>5, <2>1, <2>2, <2>3 DEF ChangeStatus
    <2>5. regCall[c] # RegIdle
      BY <2>1, <2>4, <1>a DEF StudentStatus
    <2>6. /\ regCall[c] \in RegRequest /\ n \in Numbers /\ regCall[c].row \in Student
          /\ old \in StudentStatus
      BY <1>0, <2>5, <2>1 DEF RegRequest, Student
    <2>7. row \in Student /\ row.status = new
      BY <2>2, <2>4, <2>6 DEF Student
    <2>8. kept \in Seq(HistoryEntry)
      <3>1. [from |-> old, to |-> new] \in HistoryEntry
        BY <2>4, <2>6 DEF HistoryEntry
      <3>2. history[n] \in Seq(HistoryEntry)
        BY <1>0, <2>6
      <3> QED BY <2>3, <3>1, <3>2
    <2>9. new \in StatusesAfter(old)
      BY <2>1, <2>4, <2>5 DEF RegInv, RegReadsAreCurrent
    <2>10. ASSUME ~regCall[c].stale, n \notin regRaced
           PROVE  Chain(n, kept, row.status) /\ (n \in alumni \ handmade => row.status = "graduated")
      <3>1. student[n] # NoStudent /\ student[n].status = old
        BY <2>1, <2>5, <2>10 DEF RegInv, RegReadsAreCurrent
      <3>2. Chain(n, history[n], old)
        BY <2>6, <2>10, <3>1 DEF RegInv, RegChains
      <3>3. Chain(n, kept, new)
        BY <1>0, <2>3, <2>4, <2>6, <2>9, <3>2, ChainGrows
      <3>4. n \notin alumni \ handmade
        <4>1. StatusesAfter("graduated") = {}
          BY DEF StatusesAfter
        <4> QED BY <2>6, <2>9, <2>10, <3>1, <4>1 DEF RegInv, RegChains
      <3> QED BY <2>7, <3>3, <3>4
    <2> QED BY <2>1, <2>4, <2>5, <2>7, <2>8, <2>10, RegSaveStep
  <1>6. ASSUME NEW c \in RegCalls, SoftDelete(c)
        PROVE  RegInv'
    <2>1. PICK n : n = regCall[c].on
      OBVIOUS
    <2>2. PICK row : row = [student[n] EXCEPT !.deleted = TRUE]
      OBVIOUS
    <2>3. SaveStudent(c, row) /\ history' = history /\ regCall[c] # RegIdle
      BY <1>6, <1>a, <2>1, <2>2 DEF SoftDelete
    <2>4. n \in Numbers /\ student[n] # NoStudent
      BY <1>0, <2>1, <2>3 DEF RegInv, RegReadsAreCurrent, RegRequest
    <2>5. student[n] \in Student
      BY <1>0, <2>4
    <2>6. row \in Student /\ row.status = student[n].status
      BY <2>2, <2>5 DEF Student
    <2>7. history' = [history EXCEPT ![n] = history[n]] /\ history[n] \in Seq(HistoryEntry)
      BY <1>0, <2>3, <2>4
    <2>8. n \notin regRaced => /\ Chain(n, history[n], row.status)
                               /\ n \in alumni \ handmade => row.status = "graduated"
      BY <2>4, <2>6 DEF RegInv, RegChains
    <2> QED BY <2>1, <2>3, <2>6, <2>7, <2>8, RegSaveStep
  <1>7. ASSUME NEW c \in RegCalls, RegAbandon(c) \/ AdminChangeStatus(c)
        PROVE  RegInv'
    <2>1. /\ regCall' \in [RegCalls -> RegRequest \cup {RegIdle}]
          /\ \A d \in RegCalls : regCall'[d] = RegIdle \/ regCall'[d] = regCall[d]
          /\ UNCHANGED <<student, history, alumni, regRaced, handmade>>
      BY <1>0, <1>7 DEF RegAbandon, AdminChangeStatus
    <2> QED BY <2>1 DEF RegInv, RegInvType, RegReadsAreCurrent, RegChains
  <1>8. CASE UNCHANGED registryVars
    BY <1>8 DEF RegInv, RegInvType, RegReadsAreCurrent, RegChains, registryVars
  <1>9. ASSUME NEW c \in RegCalls, NEW n \in Numbers,
               \/ \E what \in {"update", "delete"} : LoadStudent(c, what, n)
               \/ \E new \in StudentStatus : LoadForStatus(c, new, n)
               \/ LoadForAdmin(c, n)
        PROVE  RegInv'
    BY <1>3, <1>9 DEF LoadStudent, LoadForStatus, LoadForAdmin, StudentStatus
  <1>10. ASSUME NEW status \in StudentStatus, AdminAddStudent(status)
         PROVE  RegInv'
    <2>1. PICK row : row = [NewStudent EXCEPT !.status = status]
      OBVIOUS
    <2>2. row \in Student /\ row # NoStudent /\ row.status = status
      <3>1. row \in Student /\ row.status = status
        BY <2>1 DEF NewStudent, Student
      <3> QED BY <3>1, NoStudentAssumption
    <2>3. /\ student[Blank] = NoStudent /\ Blank \in Numbers
          /\ student' = [student EXCEPT ![Blank] = row]
          /\ UNCHANGED <<history, alumni, regCall, regRaced, handmade>>
      BY <1>10, <2>1, RegistryAssumption DEF AdminAddStudent
    <2>4. \A n \in Numbers : student'[n] = IF n = Blank THEN row ELSE student[n]
      BY <1>0, <2>3
    <2>5. RegInvType'
      BY <1>0, <2>2, <2>3 DEF RegInvType
    <2>6. RegReadsAreCurrent'
      <3> SUFFICES ASSUME NEW d \in RegCalls, regCall[d] # RegIdle
                   PROVE  student'[regCall[d].on] = student[regCall[d].on]
        BY <2>3 DEF RegInv, RegReadsAreCurrent
      <3>1. regCall[d].on \in Numbers /\ student[regCall[d].on] # NoStudent
        BY <1>0 DEF RegInv, RegReadsAreCurrent, RegRequest
      <3> QED BY <2>3, <2>4, <3>1
    <2>7. RegChains'
      <3>1. Blank \notin alumni /\ history[Blank] = << >>
        BY <2>3 DEF RegInv, RegChains
      <3>2. Chain(Blank, << >>, status)
        BY DEF Chain
      <3>3. \A n \in Numbers \ regRaced : student'[n] # NoStudent => Chain(n, history[n], student'[n].status)
        BY <2>2, <2>4, <3>1, <3>2 DEF RegInv, RegChains
      <3> QED BY <1>0, <2>3, <2>4, <3>1, <3>3 DEF RegInv, RegChains
    <2> QED BY <2>5, <2>6, <2>7 DEF RegInv
  <1>11. ASSUME NEW n \in Numbers, AdminAlumniProfile(n)
         PROVE  RegInv'
    <2>1. /\ UNCHANGED <<student, history, regCall, regRaced>>
          /\ \A m \in alumni' : student[m] # NoStudent
          /\ alumni' \ handmade' \subseteq alumni \ handmade
          /\ alumni' \subseteq Numbers /\ handmade' \subseteq alumni'
      BY <1>0, <1>11 DEF AdminAlumniProfile, Alive, RegInv, RegChains
    <2> QED BY <1>0, <2>1 DEF RegInv, RegInvType, RegReadsAreCurrent, RegChains
  <1> QED BY <1>1, <1>2, <1>4, <1>5, <1>6, <1>7, <1>8, <1>9, <1>10, <1>11
          DEF RegistryNext, CreateStudent, ImportStudents

\* Records and histories stay in step.
LEMMA RegInvariant == RegistrySpec => []RegInv
  <1>1. RegistryInit => RegInv
    BY RegistryAssumption DEF RegistryInit, RegInv, RegInvType, RegReadsAreCurrent, RegChains
  <1> QED BY <1>1, RegStep, PTL DEF RegistrySpec

\* The history of every student whose record was never saved over is an unbroken
\* chain of allowed changes to the status on record, from the admission unless the
\* record was added in the admin; an alumnus whose profile was not entered there has
\* graduated.
THEOREM HistoriesAreUnbroken == RegistrySpec => []HistoryChains
  <1>1. RegInv => HistoryChains
    BY DEF RegInv, RegChains, Chain, HistoryChains, Last
  <1> QED BY <1>1, RegInvariant, PTL

\* The registry's tables keep their types.
THEOREM RegistryTypes == RegistrySpec => []RegistryTypeOK
  <1>1. RegInv => RegistryTypeOK
    <2> SUFFICES ASSUME RegInv PROVE RegistryTypeOK
      OBVIOUS
    <2>1. RegIdle.row \in Student
      BY DEF RegIdle, NewStudent, Student, StudentStatus
    <2>2. \A c \in RegCalls : regCall[c].row \in Student
      BY <2>1 DEF RegInv, RegInvType, RegRequest
    <2> QED BY <2>2 DEF RegInv, RegInvType, RegistryTypeOK, HistoryEntry
  <1> QED BY <1>1, RegInvariant, PTL

----------------------------------------------------------------------------
(* Documents.                                                              *)

\* A request that decides on a transcript.
DocRequest == [do : {"approve", "reject"}, on : Requests, stale : BOOLEAN]

\* The type of the state of the documents.
DocInvType ==
    /\ request \in [Requests -> RequestStatus]
    /\ DOMAIN issued \subseteq Serials /\ issued \in [DOMAIN issued -> IssuedDocument]
    /\ held \in BOOLEAN
    /\ docCall \in [DocCalls -> DocRequest \cup {DocIdle}]
    /\ docRaced \subseteq Requests

\* A decision under way is on a request that is still open, unless it was overtaken.
DecisionsAreOpen ==
    \A c \in DocCalls :
        docCall[c] = DocIdle \/ docCall[c].stale \/ request[docCall[c].on] = "requested"

\* The documents made for a request.
DocsOf(r) == {s \in DOMAIN issued : issued[s].request = r}

\* A granted request has its one document, any other none.
DocsAreRight ==
    \A r \in Requests \ docRaced :
        IF request[r] = "issued" THEN \E s \in Serials : DocsOf(r) = {s} ELSE DocsOf(r) = {}

DocInv == DocInvType /\ DecisionsAreOpen /\ DocsAreRight

\* A decision is saved: `docs` are the documents its request has afterwards.
LEMMA DocSaveStep ==
    ASSUME DocInv, NEW c \in DocCalls, docCall[c] # DocIdle, NEW status \in RequestStatus,
           SaveRequest(c, status),
           DOMAIN issued' \subseteq Serials, issued' \in [DOMAIN issued' -> IssuedDocument],
           \A r \in Requests \ {docCall[c].on} : DocsOf(r)' = DocsOf(r),
           DocsOf(docCall[c].on) = {} =>
              IF status = "issued" THEN \E s \in Serials : {t \in DOMAIN issued' : issued'[t].request = docCall[c].on} = {s}
              ELSE {t \in DOMAIN issued' : issued'[t].request = docCall[c].on} = {}
    PROVE  DocInv'
  <1>1. PICK r \in Requests : r = docCall[c].on
    BY DEF DocInv, DocInvType, DocRequest
  <1>2. /\ request' = [request EXCEPT ![r] = status]
        /\ docCall' = [d \in DocCalls |->
              IF d = c \/ docCall[d] = DocIdle THEN DocIdle
              ELSE [docCall[d] EXCEPT !.stale = @ \/ docCall[d].on = r]]
        /\ docRaced' = IF docCall[c].stale THEN docRaced \cup {r} ELSE docRaced
        /\ held' = held
    BY <1>1 DEF SaveRequest
  <1>3. \A q \in Requests : request'[q] = IF q = r THEN status ELSE request[q]
    BY <1>2 DEF DocInv, DocInvType
  <1>4. ASSUME NEW d \in DocCalls
        PROVE  \/ docCall'[d] = DocIdle
               \/ /\ docCall[d] # DocIdle /\ docCall[d] \in DocRequest /\ docCall'[d] \in DocRequest
                  /\ docCall'[d].on = docCall[d].on
                  /\ docCall'[d].stale = (docCall[d].stale \/ docCall[d].on = r)
    <2>1. CASE d = c \/ docCall[d] = DocIdle
      BY <2>1, <1>2
    <2>2. CASE ~(d = c \/ docCall[d] = DocIdle)
      <3>1. PICK b \in BOOLEAN : b = (docCall[d].stale \/ docCall[d].on = r)
        OBVIOUS
      <3>2. docCall[d] \in DocRequest
        BY <2>2 DEF DocInv, DocInvType
      <3>3. docCall'[d] = [docCall[d] EXCEPT !.stale = b]
        BY <2>2, <1>2, <3>1
      <3> QED BY <2>2, <3>1, <3>2, <3>3 DEF DocRequest
    <2> QED BY <2>1, <2>2
  <1>5. DocInvType'
    <2>1. docCall' \in [DocCalls -> DocRequest \cup {DocIdle}]
      BY <1>2, <1>4
    <2> QED BY <1>2, <2>1 DEF DocInv, DocInvType
  <1>6. DecisionsAreOpen'
    <2> SUFFICES ASSUME NEW d \in DocCalls, docCall'[d] # DocIdle, ~docCall'[d].stale
                 PROVE  request'[docCall'[d].on] = "requested"
      BY DEF DecisionsAreOpen
    <2>1. /\ docCall[d] # DocIdle /\ ~docCall[d].stale /\ docCall[d].on # r
          /\ docCall'[d].on = docCall[d].on /\ docCall[d].on \in Requests
      BY <1>4 DEF DocRequest
    <2>2. request[docCall[d].on] = "requested"
      BY <2>1 DEF DocInv, DecisionsAreOpen
    <2> QED BY <1>3, <2>1, <2>2
  <1>7. DocsAreRight'
    <2> SUFFICES ASSUME NEW q \in Requests, q \notin docRaced'
                 PROVE  IF request'[q] = "issued" THEN \E s \in Serials : DocsOf(q)' = {s}
                        ELSE DocsOf(q)' = {}
      BY DEF DocsAreRight
    <2>1. q \notin docRaced
      BY <1>2
    <2>2. CASE q = r
      <3>1. ~docCall[c].stale
        BY <1>2, <2>2
      <3>2. request[r] = "requested"
        BY <1>1, <3>1 DEF DocInv, DecisionsAreOpen
      <3>3. DocsOf(r) = {}
        BY <2>1, <2>2, <3>2 DEF DocInv, DocsAreRight
      <3>4. DocsOf(q)' = {t \in DOMAIN issued' : issued'[t].request = docCall[c].on}
        BY <1>1, <2>2 DEF DocsOf
      <3>5. request'[q] = status
        BY <1>3, <2>2
      <3> QED BY <1>1, <3>3, <3>4, <3>5
    <2>3. CASE q # r
      <3>1. request'[q] = request[q] /\ DocsOf(q)' = DocsOf(q)
        BY <1>1, <1>3, <2>3
      <3> QED BY <2>1, <3>1 DEF DocInv, DocsAreRight
    <2> QED BY <2>2, <2>3
  <1> QED BY <1>5, <1>6, <1>7 DEF DocInv

\* A new document: of its request, and of no other.
LEMMA IssueAdds ==
    ASSUME DocInvType, NEW s, NEW r \in Requests \cup {NoRequest}, NEW override \in BOOLEAN,
           Issue(s, r, override)
    PROVE  /\ DOMAIN issued' \subseteq Serials /\ issued' \in [DOMAIN issued' -> IssuedDocument]
           /\ s \in Serials
           /\ \A q : {t \in DOMAIN issued' : issued'[t].request = q} =
                        IF q = r THEN DocsOf(q) \cup {s} ELSE DocsOf(q)
  <1>1. PICK doc : doc = [request |-> r, override |-> override, revoked |-> FALSE]
    OBVIOUS
  <1>2. doc \in IssuedDocument /\ doc.request = r
    BY <1>1 DEF IssuedDocument
  <1>3. /\ s \in Serials \ DOMAIN issued
        /\ issued' = [t \in (DOMAIN issued) \cup {s} |-> IF t = s THEN doc ELSE issued[t]]
    BY <1>1 DEF Issue
  <1>4. DOMAIN issued' = (DOMAIN issued) \cup {s}
        /\ \A t \in DOMAIN issued' : issued'[t] = IF t = s THEN doc ELSE issued[t]
    BY <1>3
  <1>5. DOMAIN issued' \subseteq Serials
    BY <1>3, <1>4 DEF DocInvType
  <1>6. issued' \in [DOMAIN issued' -> IssuedDocument]
    BY <1>2, <1>3, <1>4 DEF DocInvType
  <1>7. \A q : {t \in DOMAIN issued' : issued'[t].request = q} =
                  IF q = r THEN DocsOf(q) \cup {s} ELSE DocsOf(q)
    BY <1>2, <1>3, <1>4 DEF DocsOf
  <1> QED BY <1>3, <1>5, <1>6, <1>7

\* Every operation on documents keeps the invariant.
LEMMA DocStep == DocInv /\ [DocNext]_docVars => DocInv'
  <1> SUFFICES ASSUME DocInv, [DocNext]_docVars PROVE DocInv'
    OBVIOUS
  <1>0. /\ request \in [Requests -> RequestStatus]
        /\ DOMAIN issued \subseteq Serials /\ issued \in [DOMAIN issued -> IssuedDocument]
        /\ held \in BOOLEAN
        /\ docCall \in [DocCalls -> DocRequest \cup {DocIdle}]
        /\ docRaced \subseteq Requests
    BY DEF DocInv, DocInvType
  <1>a. DocIdle.do = "none"
    BY DEF DocIdle
  <1>1. ASSUME NEW r \in Requests, RequestTranscript(r)
        PROVE  DocInv'
    <2>1. /\ request[r] = "none" /\ request' = [request EXCEPT ![r] = "requested"]
          /\ UNCHANGED <<issued, held, docCall, docRaced>>
      BY <1>1 DEF RequestTranscript, NewRequest
    <2>2. request' \in [Requests -> RequestStatus]
      BY <1>0, <2>1 DEF RequestStatus
    <2>3. \A q \in Requests : request'[q] = IF q = r THEN "requested" ELSE request[q]
      BY <1>0, <2>1
    <2>4. DocInvType'
      BY <1>0, <2>1, <2>2 DEF DocInvType
    <2>5. DecisionsAreOpen'
      <3> SUFFICES ASSUME NEW d \in DocCalls, docCall[d] # DocIdle, ~docCall[d].stale
                   PROVE  request'[docCall[d].on] = "requested"
        BY <2>1 DEF DecisionsAreOpen
      <3>1. docCall[d].on \in Requests /\ request[docCall[d].on] = "requested"
        BY <1>0 DEF DocInv, DecisionsAreOpen, DocRequest
      <3> QED BY <2>3, <3>1
    <2>6. DocsAreRight'
      BY <2>1, <2>3 DEF DocInv, DocsAreRight, DocsOf
    <2> QED BY <2>4, <2>5, <2>6 DEF DocInv
  <1>2. ASSUME NEW c \in DocCalls, NEW r \in Requests, NEW what \in {"approve", "reject"},
               LoadRequest(c, what, r)
        PROVE  DocInv'
    <2>1. PICK call : call = [do |-> what, on |-> r, stale |-> FALSE]
      OBVIOUS
    <2>2. call \in DocRequest /\ call.on = r
      BY <2>1 DEF DocRequest
    <2>3. /\ request[r] = "requested" /\ docCall' = [docCall EXCEPT ![c] = call]
          /\ UNCHANGED <<request, issued, held, docRaced>>
      BY <1>2, <2>1 DEF LoadRequest
    <2>4. \A d \in DocCalls : docCall'[d] = IF d = c THEN call ELSE docCall[d]
      BY <1>0, <2>3
    <2>5. DocInvType'
      BY <1>0, <2>2, <2>3 DEF DocInvType
    <2>6. DecisionsAreOpen'
      BY <2>2, <2>3, <2>4 DEF DocInv, DecisionsAreOpen
    <2>7. DocsAreRight'
      BY <2>3 DEF DocInv, DocsAreRight, DocsOf
    <2> QED BY <2>5, <2>6, <2>7 DEF DocInv
  <1>3. ASSUME NEW c \in DocCalls, NEW s \in Serials, ApproveRequest(c, s)
        PROVE  DocInv'
    <2>1. PICK r : r = docCall[c].on
      OBVIOUS
    <2>2. docCall[c] # DocIdle /\ Issue(s, r, FALSE) /\ SaveRequest(c, "issued")
      BY <1>3, <1>a, <2>1 DEF ApproveRequest
    <2>3. r \in Requests
      BY <1>0, <2>1, <2>2 DEF DocRequest
    <2>4. /\ DOMAIN issued' \subseteq Serials /\ issued' \in [DOMAIN issued' -> IssuedDocument]
          /\ \A q : {t \in DOMAIN issued' : issued'[t].request = q} =
                        IF q = r THEN DocsOf(q) \cup {s} ELSE DocsOf(q)
      BY <2>2, <2>3, IssueAdds DEF DocInv
    <2>5. \A q \in Requests \ {r} : DocsOf(q)' = DocsOf(q)
      <3>1. \A q : DocsOf(q)' = {t \in DOMAIN issued' : issued'[t].request = q}
        BY DEF DocsOf
      <3> QED BY <2>4, <3>1
    <2>6. DocsOf(r) = {} => {t \in DOMAIN issued' : issued'[t].request = r} = {s}
      BY <2>4
    <2>7. "issued" \in RequestStatus
      BY DEF RequestStatus
    <2> QED BY <2>1, <2>2, <2>4, <2>5, <2>6, <2>7, DocSaveStep
  <1>4. ASSUME NEW c \in DocCalls, RejectRequest(c)
        PROVE  DocInv'
    <2>1. docCall[c] # DocIdle /\ issued' = issued /\ SaveRequest(c, "rejected")
      BY <1>4, <1>a DEF RejectRequest
    <2>2. \A q : DocsOf(q)' = DocsOf(q)
      BY <2>1 DEF DocsOf
    <2>3. {t \in DOMAIN issued' : issued'[t].request = docCall[c].on} = DocsOf(docCall[c].on)
      BY <2>1 DEF DocsOf
    <2>4. "rejected" \in RequestStatus /\ "rejected" # "issued"
      BY DEF RequestStatus
    <2> QED BY <1>0, <2>1, <2>2, <2>3, <2>4, DocSaveStep
  <1>5. ASSUME NEW c \in DocCalls, DocAbandon(c)
        PROVE  DocInv'
    <2>1. /\ docCall' \in [DocCalls -> DocRequest \cup {DocIdle}]
          /\ \A d \in DocCalls : docCall'[d] = DocIdle \/ docCall'[d] = docCall[d]
          /\ UNCHANGED <<request, issued, held, docRaced>>
      BY <1>0, <1>5 DEF DocAbandon
    <2> QED BY <2>1 DEF DocInv, DocInvType, DecisionsAreOpen, DocsAreRight, DocsOf
  <1>6. ASSUME NEW s \in Serials, NEW override \in BOOLEAN, IssueCertificate(s, override)
        PROVE  DocInv'
    <2>1. PICK over \in BOOLEAN : over = (override /\ ~Cleared)
      OBVIOUS
    <2>2. Issue(s, NoRequest, over) /\ UNCHANGED <<request, held, docCall, docRaced>>
      BY <1>6, <2>1 DEF IssueCertificate
    <2>3. /\ DOMAIN issued' \subseteq Serials /\ issued' \in [DOMAIN issued' -> IssuedDocument]
          /\ \A q : {t \in DOMAIN issued' : issued'[t].request = q} =
                        IF q = NoRequest THEN DocsOf(q) \cup {s} ELSE DocsOf(q)
      <3>1. PICK none \in Requests \cup {NoRequest} : none = NoRequest
        OBVIOUS
      <3>2. DocInvType /\ Issue(s, none, over)
        BY <2>2, <3>1 DEF DocInv
      <3>3. /\ DOMAIN issued' \subseteq Serials /\ issued' \in [DOMAIN issued' -> IssuedDocument]
            /\ \A q : {t \in DOMAIN issued' : issued'[t].request = q} =
                          IF q = none THEN DocsOf(q) \cup {s} ELSE DocsOf(q)
        BY <2>1, <3>1, <3>2, IssueAdds
      <3> QED BY <3>1, <3>3
    <2>4. \A q \in Requests : DocsOf(q)' = DocsOf(q)
      <3>1. \A q : DocsOf(q)' = {t \in DOMAIN issued' : issued'[t].request = q}
        BY DEF DocsOf
      <3> QED BY <2>3, <3>1, NoRequestAssumption
    <2>5. DocInvType'
      BY <1>0, <2>2, <2>3 DEF DocInvType
    <2>6. DecisionsAreOpen'
      BY <2>2 DEF DocInv, DecisionsAreOpen
    <2>7. DocsAreRight'
      BY <2>2, <2>4 DEF DocInv, DocsAreRight
    <2> QED BY <2>5, <2>6, <2>7 DEF DocInv
  <1>7. ASSUME NEW s \in Serials, RevokeDocument(s)
        PROVE  DocInv'
    <2>1. /\ s \in DOMAIN issued
          /\ issued' = [issued EXCEPT ![s] = [issued[s] EXCEPT !.revoked = TRUE]]
          /\ UNCHANGED <<request, held, docCall, docRaced>>
      BY <1>7 DEF RevokeDocument, Revocable
    <2>2. PICK doc : doc = [issued[s] EXCEPT !.revoked = TRUE]
      OBVIOUS
    <2>3. doc \in IssuedDocument /\ doc.request = issued[s].request
      BY <1>0, <2>1, <2>2 DEF IssuedDocument
    <2>4. /\ DOMAIN issued' = DOMAIN issued /\ issued' \in [DOMAIN issued' -> IssuedDocument]
          /\ \A t \in DOMAIN issued : issued'[t] = IF t = s THEN doc ELSE issued[t]
      BY <1>0, <2>1, <2>2, <2>3
    <2>5. \A q : DocsOf(q)' = DocsOf(q)
      BY <2>3, <2>4 DEF DocsOf
    <2>6. DocInvType'
      BY <1>0, <2>1, <2>4 DEF DocInvType
    <2>7. DecisionsAreOpen' /\ DocsAreRight'
      BY <2>1, <2>5 DEF DocInv, DecisionsAreOpen, DocsAreRight
    <2> QED BY <2>6, <2>7 DEF DocInv
  <1>8. CASE HoldChanges
    BY <1>0, <1>8 DEF HoldChanges, DocInv, DocInvType, DecisionsAreOpen, DocsAreRight, DocsOf
  <1>9. CASE UNCHANGED docVars
    BY <1>9 DEF docVars, DocInv, DocInvType, DecisionsAreOpen, DocsAreRight, DocsOf
  <1> QED BY <1>1, <1>2, <1>3, <1>4, <1>5, <1>6, <1>7, <1>8, <1>9 DEF DocNext

\* Requests and documents stay in step.
LEMMA DocInvariant == DocSpec => []DocInv
  <1>1. DocInit => DocInv
    <2> SUFFICES ASSUME DocInit PROVE DocInv
      OBVIOUS
    <2>1. DOMAIN issued = {} /\ issued \in [{} -> IssuedDocument]
      BY DEF DocInit
    <2> QED BY <2>1 DEF DocInit, DocInv, DocInvType, DecisionsAreOpen, DocsAreRight, DocsOf,
                        RequestStatus
  <1> QED BY <1>1, DocStep, PTL DEF DocSpec

\* The public page knows the serial numbers that were given out and no others.
LEMMA VerifyKnows ==
    ASSUME DocInvType, NEW s
    PROVE  Verify(s) # "unknown" <=> s \in DOMAIN issued
  <1>1. CASE s \notin DOMAIN issued
    <2>1. VerifyDocument(s) = {}
      BY <1>1 DEF VerifyDocument
    <2> QED BY <1>1, <2>1 DEF Verify
  <1>2. CASE s \in DOMAIN issued
    <2>1. issued[s].revoked \in BOOLEAN
      BY <1>2 DEF DocInvType, IssuedDocument
    <2>2. VerifyDocument(s) = {~issued[s].revoked}
      BY <1>2 DEF VerifyDocument
    <2>3. VerifyDocument(s) = {TRUE} \/ VerifyDocument(s) = {FALSE}
      BY <2>1, <2>2
    <2>4. {TRUE} # {} /\ {FALSE} # {} /\ {TRUE} # {FALSE}
      OBVIOUS
    <2> QED BY <1>2, <2>3, <2>4 DEF Verify
  <1> QED BY <1>1, <1>2

\* A request has one document if it was granted and none otherwise, whatever is
\* issued, revoked and verified beside it, unless two decisions on it overlapped.
THEOREM DocumentsAreIssuedOnce == DocSpec => []OneDocumentPerRequest
  <1>1. DocInv => OneDocumentPerRequest
    <2> SUFFICES ASSUME DocInv, NEW r \in Requests \ docRaced
                 PROVE  Cardinality({s \in Serials : Verify(s) # "unknown" /\ issued[s].request = r}) =
                           (IF request[r] = "issued" THEN 1 ELSE 0)
      BY DEF OneDocumentPerRequest
    <2>1. {s \in Serials : Verify(s) # "unknown" /\ issued[s].request = r} = DocsOf(r)
      BY VerifyKnows DEF DocInv, DocInvType, DocsOf
    <2>2. CASE request[r] = "issued"
      <3>1. PICK s \in Serials : DocsOf(r) = {s}
        BY <2>2 DEF DocInv, DocsAreRight
      <3>2. Cardinality({s}) = 1
        BY FS_Singleton
      <3> QED BY <2>1, <2>2, <3>1, <3>2
    <2>3. CASE request[r] # "issued"
      <3>1. DocsOf(r) = {}
        BY <2>3 DEF DocInv, DocsAreRight
      <3> QED BY <2>1, <2>3, <3>1, FS_EmptySet
    <2> QED BY <2>2, <2>3
  <1> QED BY <1>1, DocInvariant, PTL

\* The documents' tables keep their types.
THEOREM DocumentTypes == DocSpec => []DocTypeOK
  <1>1. DocInv => DocTypeOK
    <2> SUFFICES ASSUME DocInv PROVE DocTypeOK
      OBVIOUS
    <2>1. DocIdle.on = NoRequest
      BY DEF DocIdle
    <2> QED BY <2>1 DEF DocInv, DocInvType, DocTypeOK, DocRequest
  <1> QED BY <1>1, DocInvariant, PTL

----------------------------------------------------------------------------
(* The library.                                                            *)

\* A request that has loaded a loan.
LibRequest == [do : {"return", "lose", "waive"}, on : Loans, row : Loan, stale : BOOLEAN]

\* The type of the library's state.
LibInvType ==
    /\ copies \in 0..MaxCopies /\ rate \in Rates \cup {0}
    /\ loan \in [Loans -> Loan \cup {NoLoan}]
    /\ libCall \in [LibCalls -> LibRequest \cup {LibIdle}]
    /\ libRaced \subseteq Loans

\* What a request has loaded exists, and is current unless it was overtaken.
LibReadsAreCurrent ==
    \A c \in LibCalls :
        libCall[c] = LibIdle \/
        /\ loan[libCall[c].on] # NoLoan
        /\ libCall[c].stale \/ libCall[c].row = loan[libCall[c].on]

LibInv == LibInvType /\ LibReadsAreCurrent

\* What a step may do to the loans.
LendsSoundly ==
    /\ OnLoan' \ OnLoan # {} =>
          Cardinality(OnLoan') <= copies' \/ OnLoan' \ OnLoan \subseteq libRaced'
    /\ \A l \in Loans \ libRaced' : loan[l] # NoLoan =>
          /\ l \in OnLoan' => l \in OnLoan
          /\ loan[l].waived => Owed(l)' = 0

\* The save at the end of a request: the status it came from, or a final one.
LEMMA LibSaveStep ==
    ASSUME LibInv, NEW c \in LibCalls, libCall[c] # LibIdle, NEW new \in Loan, SaveLoan(c, new),
           new.status = "active" => libCall[c].row.status = "active",
           libCall[c].row.waived => new.waived
    PROVE  LibInv' /\ LendsSoundly
  <1>1. PICK n \in Loans : n = libCall[c].on
    BY DEF LibInv, LibInvType, LibRequest
  <1>2. /\ loan' = [loan EXCEPT ![n] = new]
        /\ libRaced' = IF libCall[c].stale THEN libRaced \cup {n} ELSE libRaced
        /\ copies' = copies /\ rate' = rate
        /\ libCall' = [d \in LibCalls |->
              IF d = c \/ libCall[d] = LibIdle THEN LibIdle
              ELSE [libCall[d] EXCEPT !.stale = @ \/ libCall[d].on = n]]
    BY <1>1 DEF SaveLoan
  <1>3. \A m \in Loans : loan'[m] = IF m = n THEN new ELSE loan[m]
    BY <1>2 DEF LibInv, LibInvType
  <1>4. new # NoLoan
    BY NoLoanAssumption
  <1>5. ASSUME NEW d \in LibCalls
        PROVE  \/ libCall'[d] = LibIdle
               \/ /\ libCall[d] # LibIdle /\ libCall[d] \in LibRequest /\ libCall'[d] \in LibRequest
                  /\ libCall'[d].on = libCall[d].on /\ libCall'[d].row = libCall[d].row
                  /\ libCall'[d].stale = (libCall[d].stale \/ libCall[d].on = n)
    <2>1. CASE d = c \/ libCall[d] = LibIdle
      BY <2>1, <1>2
    <2>2. CASE ~(d = c \/ libCall[d] = LibIdle)
      <3>1. PICK b \in BOOLEAN : b = (libCall[d].stale \/ libCall[d].on = n)
        OBVIOUS
      <3>2. libCall[d] \in LibRequest
        BY <2>2 DEF LibInv, LibInvType
      <3>3. libCall'[d] = [libCall[d] EXCEPT !.stale = b]
        BY <2>2, <1>2, <3>1
      <3> QED BY <2>2, <3>1, <3>2, <3>3 DEF LibRequest
    <2> QED BY <2>1, <2>2
  <1>6. LibInvType'
    <2>1. libCall' \in [LibCalls -> LibRequest \cup {LibIdle}]
      BY <1>2, <1>5
    <2> QED BY <1>2, <2>1 DEF LibInv, LibInvType
  <1>7. LibReadsAreCurrent'
    <2> SUFFICES ASSUME NEW d \in LibCalls, libCall'[d] # LibIdle
                 PROVE  /\ loan'[libCall'[d].on] # NoLoan
                        /\ libCall'[d].stale \/ libCall'[d].row = loan'[libCall'[d].on]
      BY DEF LibReadsAreCurrent
    <2>1. libCall[d].on \in Loans
      BY <1>5 DEF LibRequest
    <2>2. /\ loan[libCall[d].on] # NoLoan
          /\ libCall[d].stale \/ libCall[d].row = loan[libCall[d].on]
      BY <1>5 DEF LibInv, LibReadsAreCurrent
    <2>3. loan'[libCall[d].on] = IF libCall[d].on = n THEN new ELSE loan[libCall[d].on]
      BY <1>3, <2>1
    <2> QED BY <1>4, <1>5, <2>2, <2>3
  <1>8. libCall[c].stale => n \in libRaced'
    BY <1>2
  <1>9. ~libCall[c].stale => libCall[c].row = loan[n]
    BY <1>1 DEF LibInv, LibReadsAreCurrent
  <1>10. n \notin libRaced' => /\ n \in OnLoan' => n \in OnLoan
                               /\ loan[n].waived => new.waived
    BY <1>1, <1>3, <1>8, <1>9 DEF OnLoan, LibInv, LibReadsAreCurrent
  <1>11. \A m \in Loans : m # n => (m \in OnLoan' <=> m \in OnLoan)
    BY <1>3 DEF OnLoan
  <1>12. OnLoan' \subseteq Loans
    BY DEF OnLoan
  <1>13. ASSUME NEW m \in Loans \ libRaced', loan[m] # NoLoan, loan[m].waived
         PROVE  Owed(m)' = 0
    <2>1. loan'[m] = NoLoan \/ loan'[m].waived
      BY <1>3, <1>10, <1>13
    <2> QED BY <2>1 DEF Owed
  <1>14. LendsSoundly
    BY <1>10, <1>11, <1>12, <1>13 DEF LendsSoundly
  <1> QED BY <1>6, <1>7, <1>14 DEF LibInv

\* Where the loans stay as they are nothing can be wrong with them.
LEMMA LibQuietStep ==
    ASSUME loan' = loan
    PROVE  LendsSoundly
  BY DEF LendsSoundly, OnLoan, Owed

\* Every operation of the library keeps the invariant and lends soundly.
LEMMA LibStep == LibInv /\ [LibNext]_libVars => LibInv' /\ (UNCHANGED libVars \/ LendsSoundly)
  <1> SUFFICES ASSUME LibInv, [LibNext]_libVars
               PROVE  LibInv' /\ (UNCHANGED libVars \/ LendsSoundly)
    OBVIOUS
  <1>0. /\ copies \in 0..MaxCopies /\ rate \in Rates \cup {0}
        /\ loan \in [Loans -> Loan \cup {NoLoan}]
        /\ libCall \in [LibCalls -> LibRequest \cup {LibIdle}]
        /\ libRaced \subseteq Loans
    BY DEF LibInv, LibInvType
  <1>a. LibIdle.do = "none"
    BY DEF LibIdle
  <1>b. ASSUME NEW c \in LibCalls, libCall[c].do # "none"
        PROVE  /\ libCall[c] # LibIdle /\ libCall[c] \in LibRequest /\ libCall[c].on \in Loans
               /\ libCall[c].row \in Loan
    BY <1>0, <1>a, <1>b DEF LibRequest
  <1>1. ASSUME NEW n \in 0..MaxCopies, UpdateItem(n)
        PROVE  LibInv' /\ LendsSoundly
    <2>1. copies' = n /\ UNCHANGED <<rate, loan, libCall, libRaced>>
      BY <1>1 DEF UpdateItem
    <2> QED BY <2>1, LibQuietStep DEF LibInv, LibInvType, LibReadsAreCurrent
  <1>2. ASSUME NEW r \in Rates, SetRate(r)
        PROVE  LibInv' /\ LendsSoundly
    <2>1. rate' = r /\ UNCHANGED <<copies, loan, libCall, libRaced>>
      BY <1>2 DEF SetRate
    <2> QED BY <2>1, LibQuietStep DEF LibInv, LibInvType, LibReadsAreCurrent
  <1>3. ASSUME NEW l \in Loans, Lend(l)
        PROVE  LibInv' /\ LendsSoundly
    <2>1. /\ loan[l] = NoLoan /\ AvailableCopies > 0
          /\ loan' = [loan EXCEPT ![l] = NewLoan]
          /\ UNCHANGED <<copies, rate, libCall, libRaced>>
      BY <1>3 DEF Lend
    <2>2. NewLoan \in Loan
      BY DEF NewLoan, Loan, LoanStatus
    <2>3. \A m \in Loans : loan'[m] = IF m = l THEN NewLoan ELSE loan[m]
      BY <1>0, <2>1
    <2>4. LibInvType'
      BY <1>0, <2>1, <2>2 DEF LibInvType
    <2>5. LibReadsAreCurrent'
      <3> SUFFICES ASSUME NEW d \in LibCalls, libCall[d] # LibIdle
                   PROVE  loan'[libCall[d].on] = loan[libCall[d].on]
        BY <2>1 DEF LibInv, LibReadsAreCurrent
      <3>1. libCall[d].on \in Loans /\ loan[libCall[d].on] # NoLoan
        BY <1>0 DEF LibInv, LibReadsAreCurrent, LibRequest
      <3> QED BY <2>1, <2>3, <3>1
    <2>6. IsFiniteSet(OnLoan)
      <3>1. OnLoan \subseteq Loans
        BY DEF OnLoan
      <3> QED BY <3>1, LibraryAssumption, FS_Subset
    <2>7. l \notin OnLoan
      BY <2>1 DEF OnLoan
    <2>8. OnLoan' \subseteq OnLoan \cup {l}
      BY <2>1, <2>3 DEF OnLoan
    <2>9. Cardinality(OnLoan') <= copies'
      <3>1. IsFiniteSet(OnLoan \cup {l}) /\ Cardinality(OnLoan \cup {l}) = Cardinality(OnLoan) + 1
        BY <2>6, <2>7, FS_AddElement
      <3>2. Cardinality(OnLoan') <= Cardinality(OnLoan \cup {l}) /\ Cardinality(OnLoan') \in Nat
        BY <2>8, <3>1, FS_Subset, FS_CardinalityType
      <3>3. Cardinality(OnLoan) \in Nat /\ copies \in Nat
        BY <1>0, <2>6, FS_CardinalityType, LibraryAssumption
      <3>4. Cardinality(OnLoan) < copies
        BY <2>1, <3>3 DEF AvailableCopies
      <3> QED BY <2>1, <3>1, <3>2, <3>3, <3>4
    <2>10. \A m \in Loans : loan[m] # NoLoan => loan'[m] = loan[m]
      BY <2>1, <2>3
    <2>11. LendsSoundly
      BY <2>9, <2>10 DEF LendsSoundly, OnLoan, Owed
    <2> QED BY <2>4, <2>5, <2>11 DEF LibInv
  <1>4. ASSUME NEW c \in LibCalls, NEW l \in Loans, NEW what \in {"return", "lose", "waive"},
               LoadLoan(c, what, l)
        PROVE  LibInv' /\ LendsSoundly
    <2>1. PICK call : call = [do |-> what, on |-> l, row |-> loan[l], stale |-> FALSE]
      OBVIOUS
    <2>2. /\ loan[l] # NoLoan /\ libCall' = [libCall EXCEPT ![c] = call]
          /\ UNCHANGED <<copies, rate, loan, libRaced>>
      BY <1>4, <2>1 DEF LoadLoan
    <2>3. call \in LibRequest /\ call.on = l /\ call.row = loan[l]
      BY <1>0, <2>1, <2>2 DEF LibRequest
    <2>4. \A d \in LibCalls : libCall'[d] = IF d = c THEN call ELSE libCall[d]
      BY <1>0, <2>2
    <2>5. LibInvType'
      BY <1>0, <2>2, <2>3 DEF LibInvType
    <2>6. LibReadsAreCurrent'
      BY <2>2, <2>3, <2>4 DEF LibInv, LibReadsAreCurrent
    <2> QED BY <2>2, <2>5, <2>6, LibQuietStep DEF LibInv
  <1>5. ASSUME NEW c \in LibCalls, NEW late \in 0..MaxLate, ReturnItem(c, late)
        PROVE  LibInv' /\ LendsSoundly
    <2>1. PICK fine : fine = rate * late
      OBVIOUS
    <2>2. fine \in Nat
      <3>1. rate \in Nat /\ late \in Nat
        BY <1>0, LibraryAssumption
      <3> QED BY <2>1, <3>1
    <2>3. PICK new : new = [libCall[c].row EXCEPT !.status = "returned", !.fine = fine]
      OBVIOUS
    <2>4. libCall[c].do = "return" /\ SaveLoan(c, new)
      BY <1>5, <2>1, <2>3 DEF ReturnItem
    <2>5. new \in Loan /\ new.status # "active" /\ new.waived = libCall[c].row.waived
      BY <1>b, <2>2, <2>3, <2>4 DEF Loan, LoanStatus
    <2> QED BY <1>b, <2>4, <2>5, LibSaveStep
  <1>6. ASSUME NEW c \in LibCalls, MarkLost(c)
        PROVE  LibInv' /\ LendsSoundly
    <2>1. PICK new : new = [libCall[c].row EXCEPT !.status = "lost"]
      OBVIOUS
    <2>2. libCall[c].do = "lose" /\ SaveLoan(c, new)
      BY <1>6, <2>1 DEF MarkLost
    <2>3. new \in Loan /\ new.status # "active" /\ new.waived = libCall[c].row.waived
      BY <1>b, <2>1, <2>2 DEF Loan, LoanStatus
    <2> QED BY <1>b, <2>2, <2>3, LibSaveStep
  <1>7. ASSUME NEW c \in LibCalls, WaiveFine(c)
        PROVE  LibInv' /\ LendsSoundly
    <2>1. PICK new : new = [libCall[c].row EXCEPT !.waived = TRUE]
      OBVIOUS
    <2>2. libCall[c].do = "waive" /\ SaveLoan(c, new)
      BY <1>7, <2>1 DEF WaiveFine
    <2>3. new \in Loan /\ new.status = libCall[c].row.status /\ new.waived
      BY <1>b, <2>1, <2>2 DEF Loan
    <2> QED BY <1>b, <2>2, <2>3, LibSaveStep
  <1>8. ASSUME NEW c \in LibCalls, LibAbandon(c)
        PROVE  LibInv' /\ LendsSoundly
    <2>1. /\ libCall' \in [LibCalls -> LibRequest \cup {LibIdle}]
          /\ \A d \in LibCalls : libCall'[d] = LibIdle \/ libCall'[d] = libCall[d]
          /\ UNCHANGED <<copies, rate, loan, libRaced>>
      BY <1>0, <1>8 DEF LibAbandon
    <2> QED BY <2>1, LibQuietStep DEF LibInv, LibInvType, LibReadsAreCurrent
  <1>9. CASE UNCHANGED libVars
    BY <1>9 DEF LibInv, LibInvType, LibReadsAreCurrent, libVars
  <1> QED BY <1>1, <1>2, <1>3, <1>4, <1>5, <1>6, <1>7, <1>8, <1>9
          DEF LibNext, CheckoutItem, SyncCheckout

\* The library's requests stay current.
LEMMA LibInvariant == LibSpec => []LibInv
  <1>1. LibInit => LibInv
    <2> SUFFICES ASSUME LibInit PROVE LibInv
      OBVIOUS
    <2> QED BY DEF LibInit, LibInv, LibInvType, LibReadsAreCurrent
  <1> QED BY <1>1, LibStep, PTL DEF LibSpec

\* Every step lends only what is on the shelf, reopens no loan and drops no waiver,
\* but for loans a stale row was saved over.
THEOREM LendingStaysSound == LibSpec => LendingIsSound
  <1>1. LibInv /\ [LibNext]_libVars =>
           [/\ OnLoan' \ OnLoan # {} =>
                  Cardinality(OnLoan') <= copies' \/ OnLoan' \ OnLoan \subseteq libRaced'
            /\ \A l \in Loans \ libRaced' : loan[l] # NoLoan =>
                  /\ l \in OnLoan' => l \in OnLoan
                  /\ loan[l].waived => Owed(l)' = 0]_libVars
    BY LibStep DEF LendsSoundly
  <1> QED BY <1>1, LibInvariant, PTL DEF LibSpec, LendingIsSound

\* The library's tables keep their types.
THEOREM LibraryTypes == LibSpec => []LibTypeOK
  <1>1. LibInv => LibTypeOK
    <2> SUFFICES ASSUME LibInv PROVE LibTypeOK
      OBVIOUS
    <2>1. LibIdle.row \in Loan
      BY DEF LibIdle, NewLoan, Loan, LoanStatus
    <2>2. \A c \in LibCalls : libCall[c].row \in Loan
      BY <2>1 DEF LibInv, LibInvType, LibRequest
    <2> QED BY <2>2 DEF LibInv, LibInvType, LibTypeOK
  <1> QED BY <1>1, LibInvariant, PTL

----------------------------------------------------------------------------
(* The hostel.                                                             *)

\* A room edit and a vacation under way.
HosEdit == [do : {"edit"}, on : HostelRooms, restriction : Genders, capacity : 1..MaxBeds,
            stale : BOOLEAN]
HosVacation == [do : {"vacate"}, on : Residents, restriction : Genders, capacity : 1..MaxBeds,
                stale : BOOLEAN]

\* The type of the hostel's state.
HosInvType ==
    /\ room \in [HostelRooms -> HostelRoom]
    /\ bed \in [Residents -> HostelRooms \cup {NoBed}]
    /\ gender \in [Residents -> Genders]
    /\ hosCall \in [HosCalls -> HosEdit \cup HosVacation \cup {HosIdle}]
    /\ corrected \subseteq Residents /\ reshaped \subseteq HostelRooms

\* The occupants a room edit has looked at are still the occupants, unless it was
\* overtaken.
EditsAreCurrent ==
    \A c \in HosCalls :
        hosCall[c].do = "edit" /\ ~hosCall[c].stale =>
            \A s \in Residents : bed[s] = hosCall[c].on /\ s \notin corrected =>
                gender[s] = hosCall[c].restriction

HosInv == HosInvType /\ EditsAreCurrent /\ RoomsAreSound

\* Fewer occupants, in a room that stays as it is, are sound too.
LEMMA FewerOccupants ==
    ASSUME NEW S, NEW T \in SUBSET S, IsFiniteSet(S)
    PROVE  IsFiniteSet(T) /\ Cardinality(T) <= Cardinality(S)
           /\ Cardinality(T) \in Nat /\ Cardinality(S) \in Nat
  BY FS_Subset, FS_CardinalityType

\* Requests that are overtaken keep what they are about.
LEMMA OvertakenCalls ==
    ASSUME HosInvType, NEW x, NEW kind \in {"edit", "vacate"}, NEW d \in HosCalls,
           NEW after, after = Overtaken(x, kind)[d]
    PROVE  /\ after \in HosEdit \cup HosVacation \cup {HosIdle}
           /\ after.do = hosCall[d].do /\ after.on = hosCall[d].on
           /\ after.restriction = hosCall[d].restriction
           /\ ~after.stale => ~hosCall[d].stale
           /\ hosCall[d].do = kind /\ hosCall[d].on = x => after.stale
  <1>1. PICK call : call = hosCall[d]
    OBVIOUS
  <1>2. call \in HosEdit \cup HosVacation \cup {HosIdle}
    BY <1>1 DEF HosInvType
  <1>3. after = IF call.do = kind /\ call.on = x THEN [call EXCEPT !.stale = TRUE] ELSE call
    BY <1>1 DEF Overtaken
  <1>4. CASE call.do = kind /\ call.on = x
    <2>1. HosIdle.do = "none"
      BY DEF HosIdle
    <2>2. CASE call \in HosEdit
      BY <1>1, <1>3, <1>4, <2>2 DEF HosEdit
    <2>3. CASE call \in HosVacation
      BY <1>1, <1>3, <1>4, <2>3 DEF HosVacation
    <2> QED BY <1>2, <1>4, <2>1, <2>2, <2>3
  <1>5. CASE ~(call.do = kind /\ call.on = x)
    BY <1>1, <1>2, <1>3, <1>5
  <1> QED BY <1>4, <1>5

\* Every operation of the hostel keeps the invariant.
LEMMA HosStep == HosInv /\ [HosNext]_hosVars => HosInv'
  <1> SUFFICES ASSUME HosInv, [HosNext]_hosVars PROVE HosInv'
    OBVIOUS
  <1>0. /\ room \in [HostelRooms -> HostelRoom]
        /\ bed \in [Residents -> HostelRooms \cup {NoBed}]
        /\ gender \in [Residents -> Genders]
        /\ hosCall \in [HosCalls -> HosEdit \cup HosVacation \cup {HosIdle}]
        /\ corrected \subseteq Residents /\ reshaped \subseteq HostelRooms
    BY DEF HosInv, HosInvType
  <1>a. HosIdle.do = "none"
    BY DEF HosIdle
  <1>b. HosInvType
    BY DEF HosInv
  <1>c. \A r : Occupants(r) \in SUBSET Residents /\ IsFiniteSet(Occupants(r))
                 /\ Cardinality(Occupants(r)) \in Nat
    <2> SUFFICES ASSUME NEW r
                 PROVE  Occupants(r) \in SUBSET Residents /\ IsFiniteSet(Occupants(r))
                           /\ Cardinality(Occupants(r)) \in Nat
      OBVIOUS
    <2>1. Occupants(r) \in SUBSET Residents
      BY DEF Occupants
    <2> QED BY <2>1, HostelAssumption, FewerOccupants
  <1>d. \A r \in HostelRooms : room[r].capacity \in Nat /\ room[r].restriction \in Genders
    BY <1>0, HostelAssumption DEF HostelRoom
  <1>1. ASSUME NEW s \in Residents, NEW r \in HostelRooms, AllocateRoom(s, r)
        PROVE  HosInv'
    <2>1. /\ AvailableBeds(r) > 0 /\ gender[s] = room[r].restriction /\ bed[s] = NoBed
          /\ bed' = [bed EXCEPT ![s] = r] /\ hosCall' = Overtaken(r, "edit")
          /\ UNCHANGED <<room, gender, corrected, reshaped>>
      BY <1>1 DEF AllocateRoom, MayMoveIn
    <2>2. \A t \in Residents : bed'[t] = IF t = s THEN r ELSE bed[t]
      BY <1>0, <2>1
    <2>3. \A d \in HosCalls :
             /\ hosCall'[d] \in HosEdit \cup HosVacation \cup {HosIdle}
             /\ hosCall'[d].do = hosCall[d].do /\ hosCall'[d].on = hosCall[d].on
             /\ hosCall'[d].restriction = hosCall[d].restriction
             /\ ~hosCall'[d].stale => ~hosCall[d].stale
             /\ hosCall[d].do = "edit" /\ hosCall[d].on = r => hosCall'[d].stale
      <3> SUFFICES ASSUME NEW d \in HosCalls
                   PROVE  /\ hosCall'[d] \in HosEdit \cup HosVacation \cup {HosIdle}
                          /\ hosCall'[d].do = hosCall[d].do /\ hosCall'[d].on = hosCall[d].on
                          /\ hosCall'[d].restriction = hosCall[d].restriction
                          /\ ~hosCall'[d].stale => ~hosCall[d].stale
                          /\ hosCall[d].do = "edit" /\ hosCall[d].on = r => hosCall'[d].stale
        OBVIOUS
      <3>1. PICK after : after = hosCall'[d]
        OBVIOUS
      <3>2. after = Overtaken(r, "edit")[d]
        BY <2>1, <3>1
      <3> QED BY <1>b, <3>1, <3>2, OvertakenCalls
    <2>4. HosInvType'
      <3>1. hosCall' \in [HosCalls -> HosEdit \cup HosVacation \cup {HosIdle}]
        <4>1. DOMAIN hosCall' = HosCalls /\ hosCall' = [d \in HosCalls |-> hosCall'[d]]
          BY <2>1 DEF Overtaken
        <4> QED BY <2>3, <4>1
      <3>2. bed' \in [Residents -> HostelRooms \cup {NoBed}]
        BY <1>0, <2>1
      <3> QED BY <1>0, <2>1, <3>1, <3>2 DEF HosInvType
    <2>5. EditsAreCurrent'
      <3> SUFFICES ASSUME NEW d \in HosCalls, hosCall'[d].do = "edit", ~hosCall'[d].stale,
                          NEW t \in Residents, bed'[t] = hosCall'[d].on, t \notin corrected
                   PROVE  gender[t] = hosCall'[d].restriction
        BY <2>1 DEF EditsAreCurrent
      <3>1. /\ hosCall[d].do = "edit" /\ ~hosCall[d].stale /\ hosCall[d].on # r
            /\ hosCall'[d].on = hosCall[d].on /\ hosCall'[d].restriction = hosCall[d].restriction
        BY <2>3
      <3>2. bed[t] = hosCall[d].on
        BY <2>2, <3>1
      <3> QED BY <3>1, <3>2 DEF HosInv, EditsAreCurrent
    <2>6. RoomsAreSound'
      <3> SUFFICES ASSUME NEW q \in HostelRooms \ reshaped
                   PROVE  /\ Cardinality(Occupants(q)') <= room[q].capacity
                          /\ \A t \in Occupants(q)' \ corrected : gender[t] = room[q].restriction
        BY <2>1 DEF RoomsAreSound
      <3>1. Occupants(q)' = IF q = r THEN Occupants(q) \cup {s} ELSE Occupants(q)
        <4>1. NoBed \notin HostelRooms
          BY HostelAssumption
        <4> QED BY <2>1, <2>2, <4>1 DEF Occupants
      <3>2. /\ Cardinality(Occupants(q)) <= room[q].capacity
            /\ \A t \in Occupants(q) \ corrected : gender[t] = room[q].restriction
        BY DEF HosInv, RoomsAreSound
      <3>3. CASE q = r
        <4>1. s \notin Occupants(r)
          BY <2>1, HostelAssumption DEF Occupants
        <4>2. Cardinality(Occupants(r) \cup {s}) = Cardinality(Occupants(r)) + 1
          BY <1>c, <4>1, FS_AddElement
        <4>3. Cardinality(Occupants(r)) < room[r].capacity
          BY <1>c, <1>d, <2>1 DEF AvailableBeds
        <4>4. Cardinality(Occupants(r)) \in Nat /\ room[r].capacity \in Nat
          BY <1>c, <1>d
        <4>5. Cardinality(Occupants(r)) + 1 <= room[r].capacity
          BY <4>3, <4>4
        <4> QED BY <2>1, <3>1, <3>2, <3>3, <4>2, <4>5
      <3> QED BY <3>1, <3>2, <3>3
    <2> QED BY <2>4, <2>5, <2>6 DEF HosInv
  <1>2. ASSUME NEW s \in Residents, NEW g \in Genders, CorrectGender(s, g)
        PROVE  HosInv'
    <2>1. /\ gender' = [gender EXCEPT ![s] = g] /\ corrected' = corrected \cup {s}
          /\ UNCHANGED <<room, bed, hosCall, reshaped>>
      BY <1>2 DEF CorrectGender
    <2>2. \A t \in Residents : t \notin corrected' => t \notin corrected /\ gender'[t] = gender[t]
      BY <1>0, <2>1
    <2>3. HosInvType'
      BY <1>0, <2>1 DEF HosInvType
    <2>4. EditsAreCurrent'
      BY <2>1, <2>2 DEF HosInv, EditsAreCurrent
    <2>5. \A q : Occupants(q)' = Occupants(q)
      BY <2>1 DEF Occupants
    <2>6. RoomsAreSound'
      BY <1>c, <2>1, <2>2, <2>5 DEF HosInv, RoomsAreSound
    <2> QED BY <2>3, <2>4, <2>6 DEF HosInv
  <1>3. ASSUME NEW c \in HosCalls, NEW call \in HosEdit \cup HosVacation \cup {HosIdle},
               hosCall' = [hosCall EXCEPT ![c] = call],
               UNCHANGED <<room, bed, gender, corrected, reshaped>>,
               call.do = "edit" =>
                  \A t \in Residents : bed[t] = call.on => gender[t] = call.restriction
        PROVE  HosInv'
    <2>1. \A d \in HosCalls : hosCall'[d] = IF d = c THEN call ELSE hosCall[d]
      BY <1>0, <1>3
    <2>2. HosInvType'
      BY <1>0, <1>3 DEF HosInvType
    <2>3. EditsAreCurrent'
      BY <1>3, <2>1 DEF HosInv, EditsAreCurrent
    <2>4. RoomsAreSound'
      BY <1>3 DEF HosInv, RoomsAreSound, Occupants
    <2> QED BY <2>2, <2>3, <2>4 DEF HosInv
  <1>4. ASSUME NEW c \in HosCalls, NEW s \in Residents, LoadAllocation(c, s)
        PROVE  HosInv'
    <2>1. PICK call : call = [HosIdle EXCEPT !.do = "vacate", !.on = s,
                                             !.restriction = room[bed[s]].restriction]
      OBVIOUS
    <2>2. /\ bed[s] # NoBed /\ hosCall' = [hosCall EXCEPT ![c] = call]
          /\ UNCHANGED <<room, bed, gender, corrected, reshaped>>
      BY <1>4, <2>1 DEF LoadAllocation
    <2>3. room[bed[s]].restriction \in Genders
      BY <1>0, <1>d, <2>2
    <2>4. 1 \in 1..MaxBeds
      BY HostelAssumption
    <2>5. call \in HosVacation /\ call.do # "edit"
      BY <2>1, <2>3, <2>4 DEF HosIdle, HosVacation
    <2> QED BY <1>3, <2>2, <2>5
  <1>5. ASSUME NEW c \in HosCalls, NEW r \in HostelRooms, NEW new \in HostelRoom, CheckRoom(c, r, new)
        PROVE  HosInv'
    <2>1. PICK call : call = [do |-> "edit", on |-> r, stale |-> FALSE,
                              restriction |-> new.restriction, capacity |-> new.capacity]
      OBVIOUS
    <2>2. /\ \A t \in Occupants(r) : gender[t] = new.restriction
          /\ hosCall' = [hosCall EXCEPT ![c] = call]
          /\ UNCHANGED <<room, bed, gender, corrected, reshaped>>
      BY <1>5, <2>1 DEF CheckRoom
    <2>3. call \in HosEdit /\ call.on = r /\ call.restriction = new.restriction
      BY <2>1 DEF HosEdit, HostelRoom
    <2>4. \A t \in Residents : bed[t] = call.on => gender[t] = call.restriction
      BY <2>2, <2>3 DEF Occupants
    <2> QED BY <1>3, <2>2, <2>3, <2>4
  <1>6. ASSUME NEW c \in HosCalls, HosAbandon(c)
        PROVE  HosInv'
    <2>1. hosCall' = [hosCall EXCEPT ![c] = HosIdle]
          /\ UNCHANGED <<room, bed, gender, corrected, reshaped>>
      BY <1>6 DEF HosAbandon
    <2> QED BY <1>3, <1>a, <2>1
  <1>7. ASSUME NEW x, NEW kind \in {"edit", "vacate"}, NEW c \in HosCalls,
               hosCall' = [Overtaken(x, kind) EXCEPT ![c] = HosIdle]
        PROVE  /\ hosCall' \in [HosCalls -> HosEdit \cup HosVacation \cup {HosIdle}]
               /\ \A d \in HosCalls :
                     hosCall'[d].do = "edit" /\ ~hosCall'[d].stale =>
                        /\ hosCall[d].do = "edit" /\ ~hosCall[d].stale
                        /\ hosCall'[d].on = hosCall[d].on
                        /\ hosCall'[d].restriction = hosCall[d].restriction
                        /\ kind = "edit" => hosCall[d].on # x
    <2>1. DOMAIN Overtaken(x, kind) = HosCalls
      BY DEF Overtaken
    <2>2. ASSUME NEW d \in HosCalls
          PROVE  /\ hosCall'[d] \in HosEdit \cup HosVacation \cup {HosIdle}
                 /\ hosCall'[d].do = "edit" /\ ~hosCall'[d].stale =>
                        /\ hosCall[d].do = "edit" /\ ~hosCall[d].stale
                        /\ hosCall'[d].on = hosCall[d].on
                        /\ hosCall'[d].restriction = hosCall[d].restriction
                        /\ kind = "edit" => hosCall[d].on # x
      <3>1. PICK after : after = Overtaken(x, kind)[d]
        OBVIOUS
      <3>2. hosCall'[d] = IF d = c THEN HosIdle ELSE after
        BY <1>7, <2>1, <3>1
      <3>3. /\ after \in HosEdit \cup HosVacation \cup {HosIdle}
            /\ after.do = hosCall[d].do /\ after.on = hosCall[d].on
            /\ after.restriction = hosCall[d].restriction
            /\ ~after.stale => ~hosCall[d].stale
            /\ hosCall[d].do = kind /\ hosCall[d].on = x => after.stale
        BY <1>b, <3>1, OvertakenCalls
      <3> QED BY <1>a, <3>2, <3>3
    <2>3. hosCall' = [d \in HosCalls |-> hosCall'[d]]
      BY <1>7, <2>1
    <2> QED BY <2>2, <2>3
  <1>8. ASSUME NEW c \in HosCalls, VacateAllocation(c)
        PROVE  HosInv'
    <2>1. PICK s : s = hosCall[c].on
      OBVIOUS
    <2>2. /\ hosCall[c].do = "vacate"
          /\ bed' = IF hosCall[c].stale THEN bed ELSE [bed EXCEPT ![s] = NoBed]
          /\ hosCall' = [Overtaken(s, "vacate") EXCEPT ![c] = HosIdle]
          /\ UNCHANGED <<room, gender, corrected, reshaped>>
      BY <1>8, <2>1 DEF VacateAllocation
    <2>3. bed' \in [Residents -> HostelRooms \cup {NoBed}]
          /\ \A t \in Residents : bed'[t] = bed[t] \/ bed'[t] = NoBed
      BY <1>0, <2>2
    <2>4. HosInvType'
      BY <1>0, <1>7, <2>2, <2>3 DEF HosInvType
    <2>5. EditsAreCurrent'
      <3> SUFFICES ASSUME NEW d \in HosCalls, hosCall'[d].do = "edit", ~hosCall'[d].stale,
                          NEW t \in Residents, bed'[t] = hosCall'[d].on, t \notin corrected
                   PROVE  gender[t] = hosCall'[d].restriction
        BY <2>2 DEF EditsAreCurrent
      <3>1. /\ hosCall[d].do = "edit" /\ ~hosCall[d].stale
            /\ hosCall'[d].on = hosCall[d].on /\ hosCall'[d].restriction = hosCall[d].restriction
        BY <1>7, <2>2
      <3>2. hosCall[d].on \in HostelRooms
        BY <1>0, <1>a, <3>1 DEF HosEdit, HosVacation
      <3>3. bed[t] = hosCall[d].on
        BY <2>3, <3>1, <3>2, HostelAssumption
      <3> QED BY <3>1, <3>3 DEF HosInv, EditsAreCurrent
    <2>6. ASSUME NEW q \in HostelRooms PROVE Occupants(q)' \in SUBSET Occupants(q)
      BY <2>3, HostelAssumption DEF Occupants
    <2>7. RoomsAreSound'
      <3> SUFFICES ASSUME NEW q \in HostelRooms \ reshaped
                   PROVE  /\ Cardinality(Occupants(q)') <= room[q].capacity
                          /\ \A t \in Occupants(q)' \ corrected : gender[t] = room[q].restriction
        BY <2>2 DEF RoomsAreSound
      <3>1. /\ Cardinality(Occupants(q)) <= room[q].capacity
            /\ \A t \in Occupants(q) \ corrected : gender[t] = room[q].restriction
        BY DEF HosInv, RoomsAreSound
      <3>2. PICK old, now : old = Occupants(q) /\ now = Occupants(q)'
        OBVIOUS
      <3>3. now \in SUBSET old /\ IsFiniteSet(old)
        BY <1>c, <2>6, <3>2
      <3>4. /\ Cardinality(now) <= Cardinality(old)
            /\ Cardinality(now) \in Nat /\ Cardinality(old) \in Nat
        BY <3>3, FewerOccupants
      <3>5. room[q].capacity \in Nat
        BY <1>d
      <3>6. Cardinality(now) <= room[q].capacity
        BY <3>1, <3>2, <3>4, <3>5
      <3> QED BY <3>1, <3>2, <3>3, <3>6
    <2> QED BY <2>4, <2>5, <2>7 DEF HosInv
  <1>9. ASSUME NEW c \in HosCalls, SaveRoom(c)
        PROVE  HosInv'
    <2>1. PICK call : call = hosCall[c]
      OBVIOUS
    <2>2. PICK r : r = call.on
      OBVIOUS
    <2>3. PICK new : new = [capacity |-> call.capacity, restriction |-> call.restriction]
      OBVIOUS
    <2>4. /\ call.do = "edit" /\ room' = [room EXCEPT ![r] = new]
          /\ hosCall' = [Overtaken(r, "edit") EXCEPT ![c] = HosIdle]
          /\ reshaped' = IF call.stale \/ call.capacity < Cardinality(Occupants(r))
                         THEN reshaped \cup {r} ELSE reshaped
          /\ UNCHANGED <<bed, gender, corrected>>
      BY <1>9, <2>1, <2>2, <2>3 DEF SaveRoom
    <2>5. call \in HosEdit
      BY <1>0, <1>a, <2>1, <2>4 DEF HosVacation
    <2>6. /\ r \in HostelRooms /\ new \in HostelRoom /\ new.capacity = call.capacity
          /\ new.restriction = call.restriction
      BY <2>2, <2>3, <2>5 DEF HosEdit, HostelRoom
    <2>7. \A q \in HostelRooms : room'[q] = IF q = r THEN new ELSE room[q]
      BY <1>0, <2>4
    <2>8. HosInvType'
      BY <1>0, <1>7, <2>4, <2>6 DEF HosInvType
    <2>9. EditsAreCurrent'
      <3>1. \A d \in HosCalls :
               hosCall'[d].do = "edit" /\ ~hosCall'[d].stale =>
                        /\ hosCall[d].do = "edit" /\ ~hosCall[d].stale
                        /\ hosCall'[d].on = hosCall[d].on
                        /\ hosCall'[d].restriction = hosCall[d].restriction
        BY <1>7, <2>4
      <3> QED BY <2>4, <3>1 DEF HosInv, EditsAreCurrent
    <2>10. RoomsAreSound'
      <3> SUFFICES ASSUME NEW q \in HostelRooms \ reshaped'
                   PROVE  /\ Cardinality(Occupants(q)) <= room'[q].capacity
                          /\ \A t \in Occupants(q) \ corrected : gender[t] = room'[q].restriction
        BY <2>4 DEF RoomsAreSound, Occupants
      <3>1. CASE q # r
        <4>1. q \notin reshaped /\ room'[q] = room[q]
          BY <2>4, <2>7, <3>1
        <4> QED BY <4>1 DEF HosInv, RoomsAreSound
      <3>2. CASE q = r
        <4>1. ~call.stale /\ ~(call.capacity < Cardinality(Occupants(r)))
          BY <2>4, <3>2
        <4>2. room'[q].capacity = call.capacity /\ room'[q].restriction = call.restriction
          BY <2>6, <2>7, <3>2
        <4>3. call.capacity \in Nat /\ Cardinality(Occupants(r)) \in Nat
          BY <1>c, <2>5, HostelAssumption DEF HosEdit
        <4>4. Cardinality(Occupants(r)) <= call.capacity
          BY <4>1, <4>3
        <4>5. \A t \in Occupants(r) \ corrected : gender[t] = call.restriction
          BY <2>1, <2>2, <2>4, <4>1 DEF HosInv, EditsAreCurrent, Occupants
        <4> QED BY <3>2, <4>2, <4>4, <4>5
      <3> QED BY <3>1, <3>2
    <2> QED BY <2>8, <2>9, <2>10 DEF HosInv
  <1>10. CASE UNCHANGED hosVars
    BY <1>10 DEF HosInv, HosInvType, EditsAreCurrent, RoomsAreSound, Occupants, hosVars
  <1> QED BY <1>1, <1>2, <1>4, <1>5, <1>6, <1>8, <1>9, <1>10 DEF HosNext

\* The hostel stays sound.
LEMMA HosInvariant == HosSpec => []HosInv
  <1>1. HosInit => HosInv
    <2> SUFFICES ASSUME HosInit PROVE HosInv
      OBVIOUS
    <2>1. HosIdle.do = "none"
      BY DEF HosIdle
    <2>2. HosInvType /\ EditsAreCurrent
      BY <2>1 DEF HosInit, HosInvType, EditsAreCurrent
    <2>3. \A r \in HostelRooms : Occupants(r) = {}
      BY HostelAssumption DEF HosInit, Occupants
    <2>4. \A r \in HostelRooms : 0 <= room[r].capacity
      BY HostelAssumption DEF HosInit, HostelRoom
    <2> QED BY <2>2, <2>3, <2>4, FS_EmptySet DEF HosInv, RoomsAreSound
  <1> QED BY <1>1, HosStep, PTL DEF HosSpec

\* No room is overbooked and everybody lives where their gender may, for any number
\* of rooms, residents and overlapping requests, but for rooms cut below their
\* occupancy or saved on a stale check and residents whose record was corrected.
THEOREM RoomsStaySound == HosSpec => []RoomsAreSound
  <1>1. HosInv => RoomsAreSound
    BY DEF HosInv
  <1> QED BY <1>1, HosInvariant, PTL

\* The hostel's tables keep their types.
THEOREM HostelTypes == HosSpec => []HosTypeOK
  <1>1. HosInv => HosTypeOK
    BY DEF HosInv, HosInvType, HosTypeOK
  <1> QED BY <1>1, HosInvariant, PTL

----------------------------------------------------------------------------
(* HR.                                                                     *)

\* A request on a leave, and one on a contract.
LeaveCall == [do : {"endorse"} \cup Decided, by : Employees, on : Leaves, row : LeaveRequest,
              stale : BOOLEAN]
ContractCall == [do : {"end", "patch"}, by : Employees, on : Contracts, row : Contract,
                 stale : BOOLEAN]

\* The type of HR's state.
HrInvType ==
    /\ leave \in [Leaves -> LeaveRequest]
    /\ contract \in [Contracts -> Contract]
    /\ appraisal \in [Employees -> Ratings \cup {0}]
    /\ hrCall \in [HrCalls -> LeaveCall \cup ContractCall \cup {HrIdle}]

\* Whoever endorses is of the asker's department or of HR.
EndorsedBy(u, staff) == u \in Hods /\ (u \in HrOfficers \cup Unscoped \/ Heads(u, staff))

\* A request on a leave: what it checked of the row it loaded, and that the row is
\* current unless the request was overtaken.
LeaveCallIsSound(call) ==
    /\ call.row # NoLeave
    /\ call.stale \/ call.row = leave[call.on]
    /\ call.do = "endorse" => call.row.status = "submitted" /\ EndorsedBy(call.by, call.row.staff)
    /\ call.do \in Decided => call.row.status = "endorsed" /\ call.by \in HrOfficers

\* A request on a contract.
ContractCallIsSound(call) ==
    /\ call.row.state # "none"
    /\ call.stale \/ call.row = contract[call.on]

HrReadsAreCurrent ==
    \A c \in HrCalls :
        /\ hrCall[c].do \in {"endorse"} \cup Decided => LeaveCallIsSound(hrCall[c])
        /\ hrCall[c].do \in {"end", "patch"} => ContractCallIsSound(hrCall[c])

\* A leave went through its two hands in their order.
LeaveIsSound(row) ==
    /\ row.status \in {"endorsed"} \cup Decided => EndorsedBy(row.endorsed_by, row.staff)
    /\ row.status \in Decided => row.decided_by \in HrOfficers

HrInv == HrInvType /\ HrReadsAreCurrent /\ \A l \in Leaves \ hrRaced : LeaveIsSound(leave[l])

\* What a step may do to decided leaves and ended contracts.
RecordsStand ==
    /\ \A l \in Leaves \ hrRaced' : leave[l].status \in Decided => leave'[l] = leave[l]
    /\ \A k \in Contracts \ (hrRaced' \cup edited') :
          contract[k].state = "ended" => /\ contract'[k].state = "ended"
                                         /\ contract'[k].terms = contract[k].terms

\* Requests on one kind of row are not requests on the other.
LEMMA HrKinds ==
    ASSUME HrInvType, NEW c \in HrCalls
    PROVE  /\ hrCall[c].do \in {"endorse"} \cup Decided =>
                 hrCall[c] \in LeaveCall /\ hrCall[c].on \in Leaves /\ hrCall[c].row \in LeaveRequest
                 /\ hrCall[c].by \in Employees
           /\ hrCall[c].do \in {"end", "patch"} =>
                 hrCall[c] \in ContractCall /\ hrCall[c].on \in Contracts /\ hrCall[c].row \in Contract
  <1>1. HrIdle.do = "none"
    BY DEF HrIdle
  <1>2. hrCall[c] \in LeaveCall \cup ContractCall \cup {HrIdle}
    BY DEF HrInvType
  <1> QED BY <1>1, <1>2 DEF LeaveCall, ContractCall, Decided

\* What a save does to the requests under way.
LEMMA HrSavedCalls ==
    ASSUME HrInvType, NEW c \in HrCalls, HrSaved(c), NEW d \in HrCalls
    PROVE  \/ hrCall'[d] = HrIdle
           \/ /\ hrCall'[d] \in LeaveCall \cup ContractCall
              /\ hrCall'[d].do = hrCall[d].do /\ hrCall'[d].by = hrCall[d].by
              /\ hrCall'[d].on = hrCall[d].on /\ hrCall'[d].row = hrCall[d].row
              /\ hrCall'[d].stale = (hrCall[d].stale \/ hrCall[d].on = hrCall[c].on)
  <1>1. CASE d = c \/ hrCall[d] = HrIdle
    BY <1>1 DEF HrSaved
  <1>2. CASE ~(d = c \/ hrCall[d] = HrIdle)
    <2>1. PICK b \in BOOLEAN : b = (hrCall[d].stale \/ hrCall[d].on = hrCall[c].on)
      OBVIOUS
    <2>2. PICK call : call = hrCall[d]
      OBVIOUS
    <2>3. hrCall'[d] = [call EXCEPT !.stale = b]
      BY <1>2, <2>1, <2>2 DEF HrSaved
    <2>4. CASE call \in LeaveCall
      BY <2>1, <2>2, <2>3, <2>4 DEF LeaveCall
    <2>5. CASE call \in ContractCall
      BY <2>1, <2>2, <2>3, <2>5 DEF ContractCall
    <2> QED BY <1>2, <2>2, <2>4, <2>5 DEF HrInvType
  <1> QED BY <1>1, <1>2

\* A save of a leave or of a contract: the new row is right unless it was stale.
LEMMA HrSaveStep ==
    ASSUME HrInv, NEW c \in HrCalls, HrSaved(c), appraisal' = appraisal,
           leave' \in [Leaves -> LeaveRequest], contract' \in [Contracts -> Contract],
           \A l \in Leaves : l # hrCall[c].on => leave'[l] = leave[l],
           \A k \in Contracts : k # hrCall[c].on => contract'[k] = contract[k],
           \A l \in Leaves : l = hrCall[c].on /\ ~hrCall[c].stale /\ l \notin hrRaced =>
               LeaveIsSound(leave'[l])
    PROVE  HrInv'
  <1>1. HrInvType /\ hrCall \in [HrCalls -> LeaveCall \cup ContractCall \cup {HrIdle}]
    BY DEF HrInv, HrInvType
  <1>2. \A d \in HrCalls : \/ hrCall'[d] = HrIdle
           \/ /\ hrCall'[d] \in LeaveCall \cup ContractCall
              /\ hrCall'[d].do = hrCall[d].do /\ hrCall'[d].by = hrCall[d].by
              /\ hrCall'[d].on = hrCall[d].on /\ hrCall'[d].row = hrCall[d].row
              /\ hrCall'[d].stale = (hrCall[d].stale \/ hrCall[d].on = hrCall[c].on)
    BY <1>1, HrSavedCalls
  <1>3. HrInvType'
    <2>1. hrCall' = [d \in HrCalls |-> hrCall'[d]]
      BY DEF HrSaved
    <2>2. hrCall' \in [HrCalls -> LeaveCall \cup ContractCall \cup {HrIdle}]
      BY <1>2, <2>1
    <2> QED BY <2>2 DEF HrInv, HrInvType
  <1>4. HrReadsAreCurrent'
    <2>1. ASSUME NEW d \in HrCalls, hrCall'[d].do \in {"endorse"} \cup Decided
          PROVE  LeaveCallIsSound(hrCall[d])'
      <3>1. hrCall'[d] # HrIdle
        BY <2>1 DEF HrIdle, Decided
      <3>2. /\ hrCall'[d].do = hrCall[d].do /\ hrCall'[d].by = hrCall[d].by
            /\ hrCall'[d].on = hrCall[d].on /\ hrCall'[d].row = hrCall[d].row
            /\ hrCall'[d].stale = (hrCall[d].stale \/ hrCall[d].on = hrCall[c].on)
        BY <1>2, <3>1
      <3>3. LeaveCallIsSound(hrCall[d]) /\ hrCall[d].on \in Leaves
        BY <1>1, <2>1, <3>2, HrKinds DEF HrInv, HrReadsAreCurrent
      <3>4. hrCall[d].on # hrCall[c].on => leave'[hrCall[d].on] = leave[hrCall[d].on]
        BY <3>3
      <3> QED BY <3>2, <3>3, <3>4 DEF LeaveCallIsSound
    <2>2. ASSUME NEW d \in HrCalls, hrCall'[d].do \in {"end", "patch"}
          PROVE  ContractCallIsSound(hrCall[d])'
      <3>1. hrCall'[d] # HrIdle
        BY <2>2 DEF HrIdle
      <3>2. /\ hrCall'[d].do = hrCall[d].do
            /\ hrCall'[d].on = hrCall[d].on /\ hrCall'[d].row = hrCall[d].row
            /\ hrCall'[d].stale = (hrCall[d].stale \/ hrCall[d].on = hrCall[c].on)
        BY <1>2, <3>1
      <3>3. ContractCallIsSound(hrCall[d]) /\ hrCall[d].on \in Contracts
        BY <1>1, <2>2, <3>2, HrKinds DEF HrInv, HrReadsAreCurrent
      <3>4. hrCall[d].on # hrCall[c].on => contract'[hrCall[d].on] = contract[hrCall[d].on]
        BY <3>3
      <3> QED BY <3>2, <3>3, <3>4 DEF ContractCallIsSound
    <2> QED BY <2>1, <2>2 DEF HrReadsAreCurrent
  <1>5. ASSUME NEW l \in Leaves, l \notin hrRaced' PROVE LeaveIsSound(leave'[l])
    <2>1. l \notin hrRaced /\ (l = hrCall[c].on => ~hrCall[c].stale)
      BY <1>5 DEF HrSaved
    <2>2. LeaveIsSound(leave[l])
      BY <2>1 DEF HrInv
    <2> QED BY <2>1, <2>2
  <1> QED BY <1>3, <1>4, <1>5 DEF HrInv, LeaveIsSound

\* Every operation of HR keeps the invariant and lets its records stand.
LEMMA HrStep == HrInv /\ [HrNext]_hrVars => HrInv' /\ RecordsStand
  <1> SUFFICES ASSUME HrInv, [HrNext]_hrVars PROVE HrInv' /\ RecordsStand
    OBVIOUS
  <1>0. /\ leave \in [Leaves -> LeaveRequest]
        /\ contract \in [Contracts -> Contract]
        /\ appraisal \in [Employees -> Ratings \cup {0}]
        /\ hrCall \in [HrCalls -> LeaveCall \cup ContractCall \cup {HrIdle}]
        /\ HrInvType
    BY DEF HrInv, HrInvType
  <1>a. HrIdle.do = "none"
    BY DEF HrIdle
  <1>b. "endorse" \notin Decided /\ Decided \subseteq LeaveStatus /\ "endorsed" \notin Decided
        /\ "submitted" \notin Decided
    BY DEF Decided, LeaveStatus
  <1>1. ASSUME NEW l \in Leaves, NEW u \in Employees, SubmitLeave(l, u)
        PROVE  HrInv' /\ RecordsStand
    <2>1. PICK new : new = NewLeave(u)
      OBVIOUS
    <2>2. new \in LeaveRequest /\ new.status = "submitted"
      BY <2>1 DEF NewLeave, NoLeave, LeaveRequest, LeaveStatus
    <2>3. /\ leave[l] = NoLeave /\ leave' = [leave EXCEPT ![l] = new]
          /\ UNCHANGED <<contract, appraisal, hrCall, hrRaced, edited>>
      BY <1>1, <2>1 DEF SubmitLeave
    <2>4. \A m \in Leaves : leave'[m] = IF m = l THEN new ELSE leave[m]
      BY <1>0, <2>3
    <2>5. HrInvType'
      BY <1>0, <2>2, <2>3 DEF HrInvType
    <2>6. HrReadsAreCurrent'
      <3>1. ASSUME NEW c \in HrCalls, hrCall[c].do \in {"endorse"} \cup Decided
            PROVE  LeaveCallIsSound(hrCall[c])'
        <4>1. LeaveCallIsSound(hrCall[c]) /\ hrCall[c].on \in Leaves
          BY <1>0, <3>1, HrKinds DEF HrInv, HrReadsAreCurrent
        <4>2. hrCall[c].stale \/ hrCall[c].on # l
          BY <2>3, <4>1 DEF LeaveCallIsSound
        <4>3. hrCall[c].on # l => leave'[hrCall[c].on] = leave[hrCall[c].on]
          BY <2>4, <4>1
        <4> QED BY <2>3, <4>1, <4>2, <4>3 DEF LeaveCallIsSound
      <3> QED BY <2>3, <3>1 DEF HrInv, HrReadsAreCurrent, ContractCallIsSound
    <2>7. \A m \in Leaves \ hrRaced : LeaveIsSound(leave'[m])
      BY <1>b, <2>2, <2>4 DEF HrInv, LeaveIsSound
    <2>8. NoLeave.status \notin Decided
      BY DEF NoLeave, Decided
    <2>9. RecordsStand
      BY <2>3, <2>4, <2>8 DEF RecordsStand
    <2> QED BY <2>3, <2>5, <2>6, <2>7, <2>9 DEF HrInv, LeaveIsSound
  <1>2. ASSUME NEW k \in Contracts, NEW t \in Salaries, CreateContract(k, t)
        PROVE  HrInv' /\ RecordsStand
    <2>1. PICK new : new = [state |-> "active", terms |-> t]
      OBVIOUS
    <2>2. new \in Contract
      BY <2>1 DEF Contract
    <2>3. /\ contract[k] = NoContract /\ contract' = [contract EXCEPT ![k] = new]
          /\ UNCHANGED <<leave, appraisal, hrCall, hrRaced, edited>>
      BY <1>2, <2>1 DEF CreateContract
    <2>4. \A m \in Contracts : contract'[m] = IF m = k THEN new ELSE contract[m]
      BY <1>0, <2>3
    <2>5. NoContract.state = "none"
      BY DEF NoContract
    <2>6. HrInvType'
      BY <1>0, <2>2, <2>3 DEF HrInvType
    <2>7. HrReadsAreCurrent'
      <3>1. ASSUME NEW c \in HrCalls, hrCall[c].do \in {"end", "patch"}
            PROVE  ContractCallIsSound(hrCall[c])'
        <4>1. ContractCallIsSound(hrCall[c]) /\ hrCall[c].on \in Contracts
          BY <1>0, <3>1, HrKinds DEF HrInv, HrReadsAreCurrent
        <4>2. hrCall[c].stale \/ hrCall[c].on # k
          BY <2>3, <2>5, <4>1 DEF ContractCallIsSound
        <4>3. hrCall[c].on # k => contract'[hrCall[c].on] = contract[hrCall[c].on]
          BY <2>4, <4>1
        <4> QED BY <2>3, <4>1, <4>2, <4>3 DEF ContractCallIsSound
      <3> QED BY <2>3, <3>1 DEF HrInv, HrReadsAreCurrent, LeaveCallIsSound
    <2>8. RecordsStand
      BY <2>3, <2>4, <2>5 DEF RecordsStand
    <2> QED BY <2>3, <2>6, <2>7, <2>8 DEF HrInv, LeaveIsSound
  <1>3. ASSUME NEW s \in Employees, NEW rating \in Ratings, Appraise(s, rating)
        PROVE  HrInv' /\ RecordsStand
    <2>1. /\ appraisal' = [appraisal EXCEPT ![s] = rating]
          /\ UNCHANGED <<leave, contract, hrCall, hrRaced, edited>>
      BY <1>3 DEF Appraise, RecordAppraisal, UpdateAppraisal
    <2>2. HrInvType'
      BY <1>0, <2>1 DEF HrInvType
    <2>3. HrReadsAreCurrent'
      BY <2>1 DEF HrInv, HrReadsAreCurrent, LeaveCallIsSound, ContractCallIsSound
    <2> QED BY <2>1, <2>2, <2>3 DEF HrInv, LeaveIsSound, RecordsStand
  <1>4. ASSUME NEW c \in HrCalls, NEW call \in LeaveCall \cup ContractCall \cup {HrIdle},
               hrCall' = [hrCall EXCEPT ![c] = call],
               UNCHANGED <<leave, contract, appraisal, hrRaced, edited>>,
               call.do \in {"endorse"} \cup Decided => LeaveCallIsSound(call),
               call.do \in {"end", "patch"} => ContractCallIsSound(call)
        PROVE  HrInv' /\ RecordsStand
    <2>1. HrInvType'
      BY <1>0, <1>4 DEF HrInvType
    <2>2. \A d \in HrCalls : hrCall'[d] = IF d = c THEN call ELSE hrCall[d]
      BY <1>0, <1>4
    <2>3. ASSUME NEW d \in HrCalls
          PROVE  /\ hrCall'[d].do \in {"endorse"} \cup Decided => LeaveCallIsSound(hrCall[d])'
                 /\ hrCall'[d].do \in {"end", "patch"} => ContractCallIsSound(hrCall[d])'
      <3>1. CASE d = c
        BY <1>4, <2>2, <3>1 DEF LeaveCallIsSound, ContractCallIsSound
      <3>2. CASE d # c
        BY <1>4, <2>2, <3>2 DEF HrInv, HrReadsAreCurrent, LeaveCallIsSound, ContractCallIsSound
      <3> QED BY <3>1, <3>2
    <2>4. HrReadsAreCurrent'
      BY <2>3 DEF HrReadsAreCurrent
    <2> QED BY <1>4, <2>1, <2>4 DEF HrInv, LeaveIsSound, RecordsStand
  <1>5. ASSUME NEW c \in HrCalls, NEW u \in Employees, NEW l \in Leaves,
               NEW what \in {"endorse"} \cup Decided, LoadLeave(c, u, l, what)
        PROVE  HrInv' /\ RecordsStand
    <2>1. PICK call : call = [do |-> what, by |-> u, on |-> l, row |-> leave[l], stale |-> FALSE]
      OBVIOUS
    <2>2. /\ call \in LeaveCall /\ call.do = what /\ call.by = u /\ call.on = l
          /\ call.row = leave[l]
      BY <1>0, <2>1 DEF LeaveCall
    <2>3. /\ leave[l] # NoLeave /\ Visible(u, l)
          /\ what = "endorse" => u \in Hods /\ leave[l].status = "submitted"
          /\ what \in Decided => u \in HrOfficers /\ leave[l].status = "endorsed"
          /\ hrCall' = [hrCall EXCEPT ![c] = call]
          /\ UNCHANGED <<leave, contract, appraisal, hrRaced, edited>>
      BY <1>5, <2>1 DEF LoadLeave
    <2>4. u \in Hods => EndorsedBy(u, leave[l].staff)
      BY <2>3 DEF Visible, EndorsedBy
    <2>5. LeaveCallIsSound(call)
      BY <2>2, <2>3, <2>4 DEF LeaveCallIsSound
    <2>6. call.do \notin {"end", "patch"}
      BY <2>2 DEF Decided
    <2> QED BY <1>4, <2>2, <2>3, <2>5, <2>6
  <1>6. ASSUME NEW c \in HrCalls, NEW u \in Employees, NEW k \in Contracts,
               NEW what \in {"end", "patch"}, LoadContract(c, u, k, what)
        PROVE  HrInv' /\ RecordsStand
    <2>1. PICK call : call = [do |-> what, by |-> u, on |-> k, row |-> contract[k], stale |-> FALSE]
      OBVIOUS
    <2>2. call \in ContractCall /\ call.do = what /\ call.on = k /\ call.row = contract[k]
      BY <1>0, <2>1 DEF ContractCall
    <2>3. /\ contract[k].state # "none"
          /\ hrCall' = [hrCall EXCEPT ![c] = call]
          /\ UNCHANGED <<leave, contract, appraisal, hrRaced, edited>>
      BY <1>6, <2>1 DEF LoadContract
    <2>4. ContractCallIsSound(call)
      BY <2>2, <2>3 DEF ContractCallIsSound
    <2>5. call.do \notin {"endorse"} \cup Decided
      BY <2>2 DEF Decided
    <2> QED BY <1>4, <2>2, <2>3, <2>4, <2>5
  <1>7. ASSUME NEW c \in HrCalls, HrAbandon(c)
        PROVE  HrInv' /\ RecordsStand
    <2>1. hrCall' = [hrCall EXCEPT ![c] = HrIdle]
          /\ UNCHANGED <<leave, contract, appraisal, hrRaced, edited>>
      BY <1>7 DEF HrAbandon
    <2>2. HrIdle.do \notin {"endorse"} \cup Decided /\ HrIdle.do \notin {"end", "patch"}
      BY <1>a DEF Decided
    <2> QED BY <1>4, <2>1, <2>2
  <1>8. ASSUME NEW c \in HrCalls, hrCall[c].do \in {"endorse"} \cup Decided, HrSaved(c),
               NEW new \in LeaveRequest, leave' = [leave EXCEPT ![hrCall[c].on] = new],
               UNCHANGED <<contract, appraisal, edited>>,
               hrCall[c].on \notin hrRaced /\ ~hrCall[c].stale => LeaveIsSound(new)
        PROVE  HrInv' /\ RecordsStand
    <2>1. hrCall[c].on \in Leaves /\ LeaveCallIsSound(hrCall[c])
      BY <1>0, <1>8, HrKinds DEF HrInv, HrReadsAreCurrent
    <2>2. /\ leave' \in [Leaves -> LeaveRequest]
          /\ \A l \in Leaves : leave'[l] = IF l = hrCall[c].on THEN new ELSE leave[l]
      BY <1>0, <1>8
    <2>3. HrInv'
      BY <1>0, <1>8, <2>2, HrSaveStep
    <2>4. ~hrCall[c].stale => leave[hrCall[c].on].status \notin Decided
      BY <1>8, <1>b, <2>1 DEF LeaveCallIsSound
    <2>5. hrCall[c].stale => hrCall[c].on \in hrRaced'
      BY <1>8 DEF HrSaved
    <2>6. RecordsStand
      BY <1>8, <2>2, <2>4, <2>5 DEF RecordsStand
    <2> QED BY <2>3, <2>6
  <1>9. ASSUME NEW c \in HrCalls, EndorseLeave(c)
        PROVE  HrInv' /\ RecordsStand
    <2>1. PICK call : call = hrCall[c]
      OBVIOUS
    <2>2. PICK new : new = [call.row EXCEPT !.status = "endorsed", !.endorsed_by = call.by]
      OBVIOUS
    <2>3. /\ call.do = "endorse" /\ leave' = [leave EXCEPT ![call.on] = new] /\ HrSaved(c)
          /\ UNCHANGED <<contract, appraisal, edited>>
      BY <1>9, <2>1, <2>2 DEF EndorseLeave
    <2>4. call \in LeaveCall /\ call.row \in LeaveRequest /\ call.by \in Employees
      BY <1>0, <2>1, <2>3, HrKinds
    <2>5. /\ new \in LeaveRequest /\ new.status = "endorsed" /\ new.endorsed_by = call.by
          /\ new.staff = call.row.staff
      BY <2>2, <2>4 DEF LeaveRequest, LeaveStatus
    <2>6. LeaveCallIsSound(call)
      BY <2>1, <2>3 DEF HrInv, HrReadsAreCurrent
    <2>7. LeaveIsSound(new)
      BY <1>b, <2>3, <2>5, <2>6 DEF LeaveCallIsSound, LeaveIsSound
    <2> QED BY <1>8, <2>1, <2>3, <2>5, <2>7
  <1>10. ASSUME NEW c \in HrCalls, DecideLeave(c)
        PROVE  HrInv' /\ RecordsStand
    <2>1. PICK call : call = hrCall[c]
      OBVIOUS
    <2>2. PICK new : new = [call.row EXCEPT !.status = call.do, !.decided_by = call.by]
      OBVIOUS
    <2>3. /\ call.do \in Decided /\ leave' = [leave EXCEPT ![call.on] = new] /\ HrSaved(c)
          /\ UNCHANGED <<contract, appraisal, edited>>
      BY <1>10, <2>1, <2>2 DEF DecideLeave
    <2>4. call \in LeaveCall /\ call.row \in LeaveRequest /\ call.by \in Employees /\ call.on \in Leaves
      BY <1>0, <2>1, <2>3, HrKinds
    <2>5. /\ new \in LeaveRequest /\ new.decided_by = call.by
          /\ new.staff = call.row.staff /\ new.endorsed_by = call.row.endorsed_by
      BY <1>b, <2>2, <2>3, <2>4 DEF LeaveRequest
    <2>6. LeaveCallIsSound(call)
      BY <2>1, <2>3 DEF HrInv, HrReadsAreCurrent
    <2>7. ASSUME call.on \notin hrRaced, ~call.stale PROVE LeaveIsSound(new)
      <3>1. call.row = leave[call.on] /\ call.row.status = "endorsed" /\ call.by \in HrOfficers
        BY <2>3, <2>6, <2>7 DEF LeaveCallIsSound
      <3>2. LeaveIsSound(call.row)
        BY <2>4, <2>7, <3>1 DEF HrInv
      <3>3. EndorsedBy(new.endorsed_by, new.staff)
        BY <2>5, <3>1, <3>2 DEF LeaveIsSound
      <3> QED BY <2>5, <3>1, <3>3 DEF LeaveIsSound
    <2> QED BY <1>8, <2>1, <2>3, <2>5, <2>7
  <1>11. ASSUME NEW c \in HrCalls, hrCall[c].do \in {"end", "patch"}, HrSaved(c),
               NEW new \in Contract, contract' = [contract EXCEPT ![hrCall[c].on] = new],
               UNCHANGED <<leave, appraisal>>, edited \subseteq edited',
               \/ hrCall[c].on \in edited'
               \/ new.state = "ended" /\ new.terms = hrCall[c].row.terms
         PROVE  HrInv' /\ RecordsStand
    <2>1. hrCall[c].on \in Contracts /\ ContractCallIsSound(hrCall[c])
      BY <1>0, <1>11, HrKinds DEF HrInv, HrReadsAreCurrent
    <2>2. /\ contract' \in [Contracts -> Contract]
          /\ \A k \in Contracts : contract'[k] = IF k = hrCall[c].on THEN new ELSE contract[k]
      BY <1>0, <1>11
    <2>3. HrInv'
      <3>1. \A l \in Leaves \ hrRaced : LeaveIsSound(leave[l])
        BY DEF HrInv
      <3>2. leave' = leave
        BY <1>11
      <3> QED BY <1>0, <1>11, <2>2, <3>1, <3>2, HrSaveStep
    <2>4. hrCall[c].stale => hrCall[c].on \in hrRaced'
      BY <1>11 DEF HrSaved
    <2>5. ~hrCall[c].stale => hrCall[c].row = contract[hrCall[c].on]
      BY <2>1 DEF ContractCallIsSound
    <2>6. RecordsStand
      BY <1>11, <2>2, <2>4, <2>5 DEF RecordsStand
    <2> QED BY <2>3, <2>6
  <1>12. ASSUME NEW c \in HrCalls, EndContract(c)
         PROVE  HrInv' /\ RecordsStand
    <2>1. PICK call : call = hrCall[c]
      OBVIOUS
    <2>2. PICK new : new = [call.row EXCEPT !.state = "ended"]
      OBVIOUS
    <2>3. /\ call.do = "end" /\ contract' = [contract EXCEPT ![call.on] = new] /\ HrSaved(c)
          /\ UNCHANGED <<leave, appraisal, edited>>
      BY <1>12, <2>1, <2>2 DEF EndContract
    <2>4. call.row \in Contract
      BY <1>0, <2>1, <2>3, HrKinds
    <2>5. new \in Contract /\ new.state = "ended" /\ new.terms = call.row.terms
      BY <2>2, <2>4 DEF Contract
    <2> QED BY <1>11, <2>1, <2>3, <2>5
  <1>13. ASSUME NEW c \in HrCalls, NEW state \in {"active", "ended"}, NEW t \in Salaries,
                PatchContract(c, state, t)
         PROVE  HrInv' /\ RecordsStand
    <2>1. PICK new : new = [state |-> state, terms |-> t]
      OBVIOUS
    <2>2. /\ hrCall[c].do = "patch" /\ contract' = [contract EXCEPT ![hrCall[c].on] = new]
          /\ edited' = edited \cup {hrCall[c].on} /\ HrSaved(c) /\ UNCHANGED <<leave, appraisal>>
      BY <1>13, <2>1 DEF PatchContract
    <2>3. new \in Contract
      BY <2>1 DEF Contract
    <2> QED BY <1>11, <2>2, <2>3
  <1>14. CASE UNCHANGED hrVars
    BY <1>14 DEF HrInv, HrInvType, HrReadsAreCurrent, LeaveCallIsSound, ContractCallIsSound,
                 LeaveIsSound, RecordsStand, hrVars
  <1> QED BY <1>1, <1>2, <1>3, <1>5, <1>6, <1>7, <1>9, <1>10, <1>12, <1>13, <1>14 DEF HrNext

\* HR's requests stay current and its leaves sound.
LEMMA HrInvariant == HrSpec => []HrInv
  <1>1. HrInit => HrInv
    <2> SUFFICES ASSUME HrInit PROVE HrInv
      OBVIOUS
    <2>1. NoLeave \in LeaveRequest /\ NoLeave.status = "none"
      BY DEF NoLeave, LeaveRequest, LeaveStatus
    <2>2. NoContract \in Contract
      BY HrAssumption DEF NoContract, Contract
    <2>3. HrIdle.do = "none"
      BY DEF HrIdle
    <2>4. HrInvType
      BY <2>1, <2>2 DEF HrInit, HrInvType
    <2> QED BY <2>1, <2>3, <2>4 DEF HrInit, HrInv, HrReadsAreCurrent, LeaveIsSound, Decided
  <1> QED BY <1>1, HrStep, PTL DEF HrSpec

\* Every leave decided through the API was endorsed by a head of the asker's department,
\* or by one whose other role sees all requests, and decided by HR, and stands; a
\* contract that ended stays ended with its terms; all but for overlapping requests and a
\* PATCH of the contract.
THEOREM HrRecordsStaySound == HrSpec => HrRecordsAreSound
  <1>1. HrInv /\ [HrNext]_hrVars /\ HrInv' =>
           [/\ \A l \in Leaves \ hrRaced' :
                  /\ leave'[l].status \in Decided =>
                        /\ leave'[l].endorsed_by \in Hods /\ leave'[l].decided_by \in HrOfficers
                        /\ \/ leave'[l].endorsed_by \in HrOfficers \cup Unscoped
                           \/ Heads(leave'[l].endorsed_by, leave'[l].staff)
                  /\ leave[l].status \in Decided => leave'[l] = leave[l]
            /\ \A k \in Contracts \ (hrRaced' \cup edited') :
                  contract[k].state = "ended" => k \notin Payroll' /\ contract'[k].terms = contract[k].terms
           ]_hrVars
    <2> SUFFICES ASSUME HrInv, [HrNext]_hrVars, HrInv'
                 PROVE  /\ \A l \in Leaves \ hrRaced' :
                              /\ leave'[l].status \in Decided =>
                                    /\ leave'[l].endorsed_by \in Hods
                                    /\ leave'[l].decided_by \in HrOfficers
                                    /\ \/ leave'[l].endorsed_by \in HrOfficers \cup Unscoped
                                       \/ Heads(leave'[l].endorsed_by, leave'[l].staff)
                              /\ leave[l].status \in Decided => leave'[l] = leave[l]
                        /\ \A k \in Contracts \ (hrRaced' \cup edited') :
                              contract[k].state = "ended" =>
                                 k \notin Payroll' /\ contract'[k].terms = contract[k].terms
      OBVIOUS
    <2>1. RecordsStand
      BY HrStep
    <2>2. \A l \in Leaves \ hrRaced' : LeaveIsSound(leave'[l])
      BY DEF HrInv, LeaveIsSound
    <2>3. \A l \in Leaves \ hrRaced' : leave'[l].status \in Decided =>
             /\ leave'[l].endorsed_by \in Hods /\ leave'[l].decided_by \in HrOfficers
             /\ \/ leave'[l].endorsed_by \in HrOfficers \cup Unscoped
                \/ Heads(leave'[l].endorsed_by, leave'[l].staff)
      BY <2>2 DEF LeaveIsSound, EndorsedBy
    <2>4. \A k \in Contracts : contract'[k].state = "ended" => k \notin Payroll'
      BY DEF Payroll
    <2> QED BY <2>1, <2>3, <2>4 DEF RecordsStand
  <1> QED BY <1>1, HrInvariant, PTL DEF HrSpec, HrRecordsAreSound

\* HR's tables keep their types.
THEOREM HrTypes == HrSpec => []HrTypeOK
  <1>1. HrInv => HrTypeOK
    BY DEF HrInv, HrInvType, HrTypeOK
  <1> QED BY <1>1, HrInvariant, PTL

----------------------------------------------------------------------------
(* The sign-in.                                                            *)

\* A request to the sign-in, under way or not.
SigRequest == [do : {"none", "verify", "fail", "succeed", "use code", "count", "start", "confirm",
                     "disable", "administer"},
               password : BOOLEAN, otp : 0..MaxIssues, totp : BOOLEAN, attempts : Nat,
               secret : 0..MaxSecrets, enabled : BOOLEAN]

\* The type of the sign-in's state.
SigInvType ==
    /\ account \in UserRow
    /\ unused \subseteq 1..lists /\ lists \in 0..MaxIssues
    /\ current \in 0..lists /\ drawn \in 0..MaxSecrets /\ app \in 0..drawn
    /\ sigCall \in [SigCalls -> SigRequest]
    /\ failures \in 0..MaxFailures
    /\ uses \in [1..MaxIssues -> Nat]
    /\ sigRaced \in BOOLEAN /\ administered \in BOOLEAN

\* What has been used of the backup codes: none of a list to come and, without a
\* race, none that is unused and no code twice.
CodesAreFresh ==
    /\ \A k \in 1..MaxIssues : k > lists => uses[k] = 0
    /\ ~sigRaced => /\ \A k \in unused : uses[k] = 0
                    /\ \A k \in 1..MaxIssues : uses[k] <= 1

\* The count and the lockout, until ICT writes the row.
CountIsTrue ==
    ~administered /\ ~sigRaced => /\ account.failed_login_attempts = failures
                                  /\ account.locked => failures >= MaxAttempts

\* The codes and the secret of an account with MFA.
MfaIsSound ==
    /\ ~administered /\ ~account.mfa_enabled => unused = {}
    /\ ~administered /\ ~sigRaced /\ account.mfa_enabled => account.mfa_secret = app /\ app # NoSecret

SigInv == SigInvType /\ CodesAreFresh /\ CountIsTrue /\ MfaIsSound

\* Steps that change nothing but requests keep the invariant.
LEMMA SigCallStep ==
    ASSUME SigInv, NEW c \in SigCalls, NEW call \in SigRequest, Becomes(c, call),
           UNCHANGED <<account, unused, current, drawn, lists, app, failures, uses, sigRaced, administered>>
    PROVE  SigInv'
  <1>1. sigCall' \in [SigCalls -> SigRequest]
    BY DEF SigInv, SigInvType, Becomes
  <1>2. SigInvType'
    BY <1>1 DEF SigInv, SigInvType
  <1>3. CodesAreFresh' /\ CountIsTrue' /\ MfaIsSound'
    BY DEF SigInv, CodesAreFresh, CountIsTrue, MfaIsSound
  <1> QED BY <1>2, <1>3 DEF SigInv

\* Every step of the sign-in keeps the invariant.
LEMMA SigStep == SigInv /\ [SigNext]_sigVars => SigInv'
  <1> SUFFICES ASSUME SigInv, [SigNext]_sigVars PROVE SigInv'
    OBVIOUS
  <1>0. /\ account \in UserRow
        /\ unused \subseteq 1..lists /\ lists \in 0..MaxIssues
        /\ current \in 0..lists /\ drawn \in 0..MaxSecrets /\ app \in 0..drawn
        /\ sigCall \in [SigCalls -> SigRequest]
        /\ failures \in 0..MaxFailures
        /\ uses \in [1..MaxIssues -> Nat]
        /\ sigRaced \in BOOLEAN /\ administered \in BOOLEAN
    BY DEF SigInv, SigInvType
  <1>a. /\ account.failed_login_attempts \in Nat /\ account.locked \in BOOLEAN
        /\ account.mfa_enabled \in BOOLEAN /\ account.mfa_secret \in 0..MaxSecrets
    BY <1>0 DEF UserRow
  <1>b. \A c \in SigCalls : sigCall[c] \in SigRequest
    BY <1>0
  <1>c. SigIdle \in SigRequest
    BY SignInAssumption DEF SigIdle, SigRequest, NoCode, NoSecret
  <1>d. ASSUME NEW c \in SigCalls, SigDone(c)
        PROVE  sigCall' \in [SigCalls -> SigRequest]
    BY <1>0, <1>c, <1>d DEF SigDone, Becomes
  <1>1. CASE LockExpires
    <2>1. account' = [account EXCEPT !.locked = FALSE]
          /\ UNCHANGED <<unused, current, drawn, lists, app, sigCall, failures, uses, sigRaced, administered>>
      BY <1>1 DEF LockExpires
    <2>2. /\ account' \in UserRow
          /\ account'.failed_login_attempts = account.failed_login_attempts /\ ~account'.locked
          /\ account'.mfa_enabled = account.mfa_enabled /\ account'.mfa_secret = account.mfa_secret
      BY <1>0, <2>1 DEF UserRow
    <2> QED BY <2>1, <2>2 DEF SigInv, SigInvType, CodesAreFresh, CountIsTrue, MfaIsSound
  <1>2. ASSUME NEW c \in SigCalls, NEW password \in BOOLEAN, NEW totp \in BOOLEAN,
               NEW otp \in unused \cup {NoCode}, BeginLogin(c, password, totp, otp)
        PROVE  SigInv'
    <2>1. otp \in 0..MaxIssues
      BY <1>0, SignInAssumption DEF NoCode
    <2>2. PICK call : call = [SigIdle EXCEPT !.do = "verify", !.password = password, !.totp = totp,
                                             !.otp = otp]
      OBVIOUS
    <2>3. call \in SigRequest
      BY <1>c, <2>1, <2>2 DEF SigRequest
    <2> QED BY <1>2, <2>2, <2>3, SigCallStep DEF BeginLogin
  <1>3. ASSUME NEW c \in SigCalls, NEW what \in {"start", "confirm", "disable", "administer"},
               LoadUser(c, what)
        PROVE  SigInv'
    <2>1. PICK call : call = [SigIdle EXCEPT !.do = what, !.secret = account.mfa_secret,
                                             !.enabled = account.mfa_enabled]
      OBVIOUS
    <2>2. call \in SigRequest
      BY <1>a, <1>c, <2>1 DEF SigRequest
    <2> QED BY <1>3, <2>1, <2>2, SigCallStep DEF LoadUser
  <1>4. ASSUME NEW c \in SigCalls, VerifyLogin(c)
        PROVE  SigInv'
    <2>1. PICK next \in {"fail", "succeed", "use code"} :
             /\ Becomes(c, [sigCall[c] EXCEPT !.do = next])
             /\ UNCHANGED <<account, unused, current, drawn, lists, app, failures, uses, sigRaced, administered>>
      BY <1>4 DEF VerifyLogin
    <2>2. [sigCall[c] EXCEPT !.do = next] \in SigRequest
      BY <1>b DEF SigRequest
    <2> QED BY <2>1, <2>2, SigCallStep
  <1>5. ASSUME NEW c \in SigCalls, UseBackupCode(c)
        PROVE  SigInv'
    <2>k. PICK k : k = sigCall[c].otp
      OBVIOUS
    <2>1. PICK found \in BOOLEAN : k = sigCall[c].otp /\ found = (k = current)
      BY <2>k
    <2>2. PICK next \in {"fail", "succeed"} : next = IF found THEN "succeed" ELSE "fail"
      OBVIOUS
    <2>3. /\ unused' = unused \ {k}
          /\ uses' = IF found THEN [uses EXCEPT ![k] = @ + 1] ELSE uses
          /\ sigRaced' = (sigRaced \/ (found /\ k \notin unused))
          /\ Becomes(c, [sigCall[c] EXCEPT !.do = next])
          /\ UNCHANGED <<account, current, drawn, lists, app, failures, administered>>
      BY <1>5, <2>1, <2>2 DEF UseBackupCode
    <2>4. sigCall' \in [SigCalls -> SigRequest]
      <3>1. [sigCall[c] EXCEPT !.do = next] \in SigRequest
        BY <1>b DEF SigRequest
      <3> QED BY <1>0, <2>3, <3>1 DEF Becomes
    <2>5. k \in 0..MaxIssues
      BY <1>b, <2>1 DEF SigRequest
    <2>6. uses' \in [1..MaxIssues -> Nat]
      <3>1. CASE ~found
        BY <1>0, <2>3, <3>1
      <3>2. CASE found
        <4>1. PICK more : more = uses[k] + 1
          OBVIOUS
        <4>2. k \in 1..MaxIssues => more \in Nat
          BY <1>0, <4>1
        <4>3. uses' = [uses EXCEPT ![k] = more]
          BY <2>3, <3>2, <4>1
        <4> QED BY <1>0, <4>2, <4>3
      <3> QED BY <3>1, <3>2
    <2>7. \A i \in 1..MaxIssues : uses'[i] = IF found /\ i = k THEN uses[i] + 1 ELSE uses[i]
      BY <1>0, <2>3
    <2>8. SigInvType'
      BY <1>0, <2>3, <2>4, <2>6 DEF SigInvType
    <2>9. CodesAreFresh'
      <3>1. ASSUME NEW i \in 1..MaxIssues, i > lists PROVE uses'[i] = 0
        <4>1. uses[i] = 0
          BY <3>1 DEF SigInv, CodesAreFresh
        <4>2. ~(found /\ i = k)
          <5>1. lists \in Int /\ i \in Int /\ current \in 0..lists
            BY <1>0
          <5>2. i # current
            BY <3>1, <5>1
          <5>3. found => k = current
            BY <2>1, Zenon
          <5> QED BY <5>2, <5>3, Zenon
        <4> QED BY <4>1, <4>2, <2>7
      <3>2. ASSUME ~sigRaced' PROVE \A i \in unused' : uses'[i] = 0
        <4>1. \A i \in unused : uses[i] = 0 /\ i \in 1..MaxIssues
          <5>1. ~sigRaced
            BY <2>3, <3>2
          <5>2. \A i \in unused : i \in 1..MaxIssues
            BY <1>0, SignInAssumption
          <5> QED BY <5>1, <5>2 DEF SigInv, CodesAreFresh
        <4>2. ASSUME NEW i \in unused' PROVE uses'[i] = 0
          <5>1. i \in unused /\ i # k
            BY <2>3, <4>2
          <5> QED BY <4>1, <5>1, <2>7
        <4> QED BY <4>2
      <3>3. ASSUME ~sigRaced', NEW i \in 1..MaxIssues PROVE uses'[i] <= 1
        <4>1. ~sigRaced /\ (found => k \in unused)
          BY <2>3, <3>3
        <4>2. uses[i] <= 1 /\ (i \in unused => uses[i] = 0) /\ uses[i] \in Nat
          BY <1>0, <4>1 DEF SigInv, CodesAreFresh
        <4> QED BY <4>1, <4>2, <2>7
      <3> QED BY <2>3, <3>1, <3>2, <3>3 DEF CodesAreFresh
    <2>10. CountIsTrue' /\ MfaIsSound'
      BY <1>0, <2>3 DEF SigInv, CountIsTrue, MfaIsSound
    <2> QED BY <2>8, <2>9, <2>10 DEF SigInv
  <1>6. ASSUME NEW c \in SigCalls, RecordSuccessfulLogin(c)
        PROVE  SigInv'
    <2>1. /\ account' = [account EXCEPT !.failed_login_attempts = 0, !.locked = FALSE]
          /\ failures' = 0 /\ SigDone(c)
          /\ UNCHANGED <<unused, current, drawn, lists, app, uses, sigRaced, administered>>
      BY <1>6 DEF RecordSuccessfulLogin
    <2>2. /\ account' \in UserRow
          /\ account'.failed_login_attempts = 0 /\ ~account'.locked
          /\ account'.mfa_enabled = account.mfa_enabled /\ account'.mfa_secret = account.mfa_secret
      BY <1>0, <2>1 DEF UserRow
    <2>3. SigInvType'
      BY <1>0, <1>d, <2>1, <2>2, SignInAssumption DEF SigInvType
    <2> QED BY <2>1, <2>2, <2>3 DEF SigInv, CodesAreFresh, CountIsTrue, MfaIsSound
  <1>7. ASSUME NEW c \in SigCalls, LoadForFailure(c)
        PROVE  SigInv'
    <2>1. PICK call : call = [sigCall[c] EXCEPT !.do = "count", !.attempts = account.failed_login_attempts]
      OBVIOUS
    <2>2. call \in SigRequest
      BY <1>a, <1>b, <2>1 DEF SigRequest
    <2> QED BY <1>7, <2>1, <2>2, SigCallStep DEF LoadForFailure
  <1>8. ASSUME NEW c \in SigCalls, RecordFailedLogin(c)
        PROVE  SigInv'
    <2>1. PICK attempts : attempts = sigCall[c].attempts + 1
      OBVIOUS
    <2>2. sigCall[c].attempts \in Nat /\ attempts \in Nat
      <3>1. sigCall[c].attempts \in Nat
        BY <1>b DEF SigRequest
      <3> QED BY <2>1, <3>1
    <2>3. PICK lock \in BOOLEAN : lock = (account.locked \/ attempts >= MaxAttempts)
      OBVIOUS
    <2>4. /\ failures < MaxFailures
          /\ account' = [account EXCEPT !.failed_login_attempts = attempts, !.locked = lock]
          /\ failures' = failures + 1
          /\ sigRaced' = (sigRaced \/ sigCall[c].attempts # account.failed_login_attempts)
          /\ SigDone(c)
          /\ UNCHANGED <<unused, current, drawn, lists, app, uses, administered>>
      BY <1>8, <2>1, <2>3 DEF RecordFailedLogin
    <2>5. /\ account' \in UserRow
          /\ account'.failed_login_attempts = attempts /\ account'.locked = lock
          /\ account'.mfa_enabled = account.mfa_enabled /\ account'.mfa_secret = account.mfa_secret
      BY <1>0, <2>2, <2>4 DEF UserRow
    <2>6. failures' \in 0..MaxFailures
      BY <1>0, <2>4, SignInAssumption
    <2>7. SigInvType'
      BY <1>0, <1>d, <2>4, <2>5, <2>6 DEF SigInvType
    <2>8. CountIsTrue'
      <3> SUFFICES ASSUME ~administered', ~sigRaced'
                   PROVE  attempts = failures' /\ (lock => failures' >= MaxAttempts)
        BY <2>5 DEF CountIsTrue
      <3>1. ~administered /\ ~sigRaced /\ sigCall[c].attempts = account.failed_login_attempts
        BY <2>4
      <3>2. sigCall[c].attempts = failures /\ (account.locked => failures >= MaxAttempts)
        BY <3>1 DEF SigInv, CountIsTrue
      <3>3. attempts = failures'
        BY <2>1, <2>4, <3>2
      <3>4. failures \in Nat /\ MaxAttempts \in Nat
        BY <1>0, SignInAssumption
      <3>5. account.locked => failures' >= MaxAttempts
        BY <2>4, <3>2, <3>4
      <3> QED BY <2>3, <3>3, <3>5
    <2>9. CodesAreFresh' /\ MfaIsSound'
      BY <2>4, <2>5 DEF SigInv, CodesAreFresh, MfaIsSound
    <2> QED BY <2>7, <2>8, <2>9 DEF SigInv
  <1>9. ASSUME NEW c \in SigCalls, StartMfaEnrolment(c)
        PROVE  SigInv'
    <2>1. SigDone(c) /\ UNCHANGED <<unused, current, lists, failures, uses, administered>>
      BY <1>9 DEF StartMfaEnrolment
    <2>2. CASE sigCall[c].enabled
      <3>1. UNCHANGED <<account, drawn, app, sigRaced>>
        BY <1>9, <2>2 DEF StartMfaEnrolment
      <3>2. SigInvType'
        BY <1>0, <1>d, <2>1, <3>1 DEF SigInvType
      <3> QED BY <2>1, <3>1, <3>2 DEF SigInv, CodesAreFresh, CountIsTrue, MfaIsSound
    <2>3. CASE ~sigCall[c].enabled
      <3>1. /\ drawn < MaxSecrets /\ drawn' = drawn + 1 /\ app' = drawn'
            /\ account' = [account EXCEPT !.mfa_secret = drawn']
            /\ sigRaced' = (sigRaced \/ Stale(c))
        BY <1>9, <2>3 DEF StartMfaEnrolment
      <3>2. drawn' \in 0..MaxSecrets /\ app' \in 0..drawn'
        BY <1>0, <3>1, SignInAssumption
      <3>3. /\ account' \in UserRow
            /\ account'.failed_login_attempts = account.failed_login_attempts
            /\ account'.locked = account.locked /\ account'.mfa_enabled = account.mfa_enabled
        BY <1>0, <3>1, <3>2 DEF UserRow
      <3>4. SigInvType'
        BY <1>0, <1>d, <2>1, <3>1, <3>2, <3>3 DEF SigInvType
      <3>5. ~sigRaced' => ~account.mfa_enabled
        BY <2>3, <3>1 DEF Stale
      <3> QED BY <2>1, <3>1, <3>3, <3>4, <3>5 DEF SigInv, CodesAreFresh, CountIsTrue, MfaIsSound
    <2> QED BY <2>2, <2>3
  <1>10. ASSUME NEW c \in SigCalls, ConfirmMfaEnrolment(c)
         PROVE  SigInv'
    <2>1. SigDone(c) /\ UNCHANGED <<drawn, app, failures, uses, administered>>
      BY <1>10 DEF ConfirmMfaEnrolment
    <2>2. CASE ~(sigCall[c].secret # NoSecret /\ app = sigCall[c].secret)
      <3>1. UNCHANGED <<account, unused, current, lists, sigRaced>>
        BY <1>10, <2>2 DEF ConfirmMfaEnrolment
      <3>2. SigInvType'
        BY <1>0, <1>d, <2>1, <3>1 DEF SigInvType
      <3> QED BY <2>1, <3>1, <3>2 DEF SigInv, CodesAreFresh, CountIsTrue, MfaIsSound
    <2>3. CASE sigCall[c].secret # NoSecret /\ app = sigCall[c].secret
      <3>1. /\ lists < MaxIssues
            /\ account' = [account EXCEPT !.mfa_enabled = TRUE]
            /\ lists' = lists + 1 /\ current' = lists' /\ unused' = {lists'}
            /\ sigRaced' = (sigRaced \/ Stale(c))
        BY <1>10, <2>3 DEF ConfirmMfaEnrolment
      <3>2. lists' \in 0..MaxIssues /\ lists' \in 1..MaxIssues /\ lists' > lists
        BY <1>0, <3>1, SignInAssumption
      <3>3. /\ account' \in UserRow
            /\ account'.failed_login_attempts = account.failed_login_attempts
            /\ account'.locked = account.locked /\ account'.mfa_enabled
            /\ account'.mfa_secret = account.mfa_secret
        BY <1>0, <3>1 DEF UserRow
      <3>4. SigInvType'
        BY <1>0, <1>d, <2>1, <3>1, <3>2, <3>3 DEF SigInvType
      <3>5. ~sigRaced' => account.mfa_secret = app
        BY <2>3, <3>1 DEF Stale
      <3>6. CodesAreFresh'
        <4>1. uses[lists'] = 0
          BY <3>2 DEF SigInv, CodesAreFresh
        <4>2. \A k \in 1..MaxIssues : k > lists' => uses[k] = 0
          <5>1. \A k \in 1..MaxIssues : k > lists' => k > lists
            BY <1>0, <3>1
          <5> QED BY <5>1 DEF SigInv, CodesAreFresh
        <4> QED BY <2>1, <3>1, <4>1, <4>2 DEF SigInv, CodesAreFresh
      <3> QED BY <2>1, <2>3, <3>1, <3>3, <3>4, <3>5, <3>6 DEF SigInv, CountIsTrue, MfaIsSound
    <2> QED BY <2>2, <2>3
  <1>11. ASSUME NEW c \in SigCalls, DisableMfa(c)
         PROVE  SigInv'
    <2>1. /\ account' = [account EXCEPT !.mfa_enabled = FALSE, !.mfa_secret = NoSecret]
          /\ unused' = {} /\ current' = NoCode /\ SigDone(c)
          /\ UNCHANGED <<drawn, lists, app, failures, uses, sigRaced, administered>>
      BY <1>11 DEF DisableMfa
    <2>2. /\ account' \in UserRow
          /\ account'.failed_login_attempts = account.failed_login_attempts
          /\ account'.locked = account.locked /\ ~account'.mfa_enabled
      <3>1. 0 \in 0..MaxSecrets
        BY SignInAssumption
      <3> QED BY <1>0, <2>1, <3>1 DEF UserRow, NoSecret
    <2>3. SigInvType'
      BY <1>0, <1>d, <2>1, <2>2 DEF SigInvType, NoCode
    <2> QED BY <2>1, <2>2, <2>3 DEF SigInv, CodesAreFresh, CountIsTrue, MfaIsSound
  <1>13. ASSUME NEW c \in SigCalls, NEW enabled \in BOOLEAN, NEW locked \in BOOLEAN,
                NEW attempts \in 0..MaxFailures, AdministerAccount(c, enabled, attempts, locked)
         PROVE  SigInv'
    <2>1. /\ account' = [failed_login_attempts |-> attempts, locked |-> locked,
                         mfa_enabled |-> enabled, mfa_secret |-> sigCall[c].secret]
          /\ administered' = TRUE /\ SigDone(c)
          /\ UNCHANGED <<unused, current, drawn, lists, app, failures, uses, sigRaced>>
      BY <1>13 DEF AdministerAccount
    <2>2. account' \in UserRow
      <3>1. sigCall[c].secret \in 0..MaxSecrets
        BY <1>b DEF SigRequest
      <3> QED BY <2>1, <3>1, SignInAssumption DEF UserRow
    <2>3. SigInvType'
      BY <1>0, <1>d, <2>1, <2>2 DEF SigInvType
    <2> QED BY <2>1, <2>3 DEF SigInv, CodesAreFresh, CountIsTrue, MfaIsSound
  <1>14. CASE UnlockAccounts
    <2>1. /\ account' = [account EXCEPT !.failed_login_attempts = 0, !.locked = FALSE]
          /\ failures' = 0
          /\ UNCHANGED <<unused, current, drawn, lists, app, sigCall, uses, sigRaced, administered>>
      BY <1>14 DEF UnlockAccounts
    <2>2. /\ account' \in UserRow
          /\ account'.failed_login_attempts = 0 /\ ~account'.locked
          /\ account'.mfa_enabled = account.mfa_enabled /\ account'.mfa_secret = account.mfa_secret
      BY <1>0, <2>1 DEF UserRow
    <2>3. SigInvType'
      BY <1>0, <2>1, <2>2, SignInAssumption DEF SigInvType
    <2> QED BY <2>1, <2>2, <2>3 DEF SigInv, CodesAreFresh, CountIsTrue, MfaIsSound
  <1>12. CASE UNCHANGED sigVars
    BY <1>12 DEF SigInv, SigInvType, CodesAreFresh, CountIsTrue, MfaIsSound, sigVars
  <1> QED BY <1>1, <1>2, <1>3, <1>4, <1>5, <1>6, <1>7, <1>8, <1>9, <1>10, <1>11, <1>12, <1>13,
             <1>14 DEF SigNext

\* The sign-in stays sound.
LEMMA SigInvariant == SigSpec => []SigInv
  <1>1. SigInit => SigInv
    <2> SUFFICES ASSUME SigInit PROVE SigInv
      OBVIOUS
    <2>1. SigIdle \in SigRequest
      BY SignInAssumption DEF SigIdle, SigRequest, NoCode, NoSecret
    <2>2. /\ account \in UserRow /\ account.failed_login_attempts = 0 /\ ~account.locked
          /\ ~account.mfa_enabled
      BY SignInAssumption DEF SigInit, UserRow, NoSecret
    <2>3. SigInvType
      <3>1. uses = [k \in 1..MaxIssues |-> 0] /\ sigCall = [c \in SigCalls |-> SigIdle]
        BY DEF SigInit
      <3>2. uses \in [1..MaxIssues -> Nat] /\ sigCall \in [SigCalls -> SigRequest]
        BY <2>1, <3>1
      <3>3. /\ lists \in 0..MaxIssues /\ drawn \in 0..MaxSecrets /\ app \in 0..drawn
            /\ failures \in 0..MaxFailures /\ unused = {} /\ sigRaced = FALSE
            /\ administered = FALSE /\ current \in 0..lists
        BY SignInAssumption DEF SigInit, NoSecret, NoCode
      <3> QED BY <2>2, <3>2, <3>3 DEF SigInvType
    <2> QED BY <2>2, <2>3 DEF SigInit, SigInv, CodesAreFresh, CountIsTrue, MfaIsSound
  <1> QED BY <1>1, SigStep, PTL DEF SigSpec

\* Until ICT writes the row, backup codes go with MFA whatever overlaps and, before
\* anything is saved on a stale read, count, lockout and secret are right; and no code
\* signs in twice but for a stale read: for any number of requests.
THEOREM SigningInIsSound == SigSpec => []SignInIsSound
  <1>1. SigInv => SignInIsSound
    BY DEF SigInv, CodesAreFresh, CountIsTrue, MfaIsSound, SignInIsSound
  <1> QED BY <1>1, SigInvariant, PTL

\* The sign-in's columns keep their types.
THEOREM SignInTypes == SigSpec => []SigTypeOK
  <1>1. SigInv => SigTypeOK
    BY DEF SigInv, SigInvType, SigTypeOK
  <1> QED BY <1>1, SigInvariant, PTL
============================================================================

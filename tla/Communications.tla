--------------------------- MODULE Communications ---------------------------
(***************************************************************************)
(* Announcements (backend/apps/communications).  send_announcement is one  *)
(* transaction, but the SMS and the e-mails leave one by one before it     *)
(* commits and no rollback calls them back.  A request that fails may be   *)
(* made again.                                                             *)
(***************************************************************************)
EXTENDS Integers, FiniteSets, Sequences

CONSTANTS
    People,         \* students and alumni
    Classes,        \* programmes
    NoClass,        \* the class of an alumnus; also: no programme given
    ClassOf,        \* per person
    Channels,       \* per person: the addresses on file, in the order they are tried
    Senders,        \* holders of send_announcement
    Broadcasters,   \* of these, holders of broadcast_all
    OwnClasses,     \* per sender: a head's own department, everything for the others
    Notices,
    NoNotice

ASSUME CommunicationsAssumption ==
    /\ ClassOf \in [People -> Classes \cup {NoClass}] /\ NoClass \notin Classes
    /\ \A p \in People : Channels[p] \in {<< >>, <<"sms">>, <<"email">>, <<"sms", "email">>}
    /\ Broadcasters \subseteq Senders /\ OwnClasses \in [Senders -> SUBSET Classes]
    /\ IsFiniteSet(People)

VARIABLES
    reachable,      \* active students and contactable alumni
    notice,         \* Announcement rows
    sending,        \* per notice: the request under way
    accepted,       \* messages whose channel did not raise
    failed          \* history: per notice, people a message of the last attempt raised for

comVars == <<reachable, notice, sending, accepted, failed>>

\* AudienceType.
AudienceType == {"all_students", "programme", "alumni"}

\* Announcement: `to` stands for recipient_count.
Announcement == [audience : AudienceType, class : Classes \cup {NoClass}, to : SUBSET People,
                 sms : 0..Cardinality(People), email : 0..Cardinality(People)]
ComIdle == [row |-> NoNotice, left |-> {}]

ComInit ==
    /\ reachable = People
    /\ notice = [n \in Notices |-> NoNotice]
    /\ sending = [n \in Notices |-> ComIdle]
    /\ accepted = {} /\ failed = [n \in Notices |-> {}]

----------------------------------------------------------------------------
\* active_student_contacts, of one programme or of all.
ActiveStudentContacts(classes) == {p \in reachable : ClassOf[p] \in classes}

\* active_alumni_contacts.
ActiveAlumniContacts == {p \in reachable : ClassOf[p] = NoClass}

Contacts(audience, class) ==
    CASE audience = "all_students" -> ActiveStudentContacts(Classes)
      [] audience = "programme" -> ActiveStudentContacts({class})
      [] audience = "alumni" -> ActiveAlumniContacts

\* BroadcastNotPermitted, ProgrammeRequired, OutsideOwnDepartment.
MayAnnounce(u, audience, class) ==
    IF audience = "programme" THEN class \in OwnClasses[u] ELSE u \in Broadcasters

\* The checks of send_announcement, and the contacts as they are now.
BeginAnnouncement(n, u, audience, class) ==
    /\ notice[n] = NoNotice /\ sending[n] = ComIdle
    /\ MayAnnounce(u, audience, class)
    /\ LET to == Contacts(audience, class)
       IN sending' = [sending EXCEPT ![n] =
             [row |-> [audience |-> audience, class |-> class, to |-> to, sms |-> 0, email |-> 0],
              left |-> to]]
    /\ failed' = [failed EXCEPT ![n] = {}]
    /\ UNCHANGED <<reachable, notice, accepted>>

\* send_sms, send_email returned.  The receipt they return, with its own `accepted`, is
\* not read, and e-mail fails silently.
Send(n, p, channels) == accepted \cup {<<n, p, ch>> : ch \in channels}

\* Mutant: the first exception ends the loop.
NotifyStopping(n, p, k) ==
    LET tried == Channels[p]
        sent == {tried[i] : i \in 1..k}
        count(ch) == IF ch \in sent THEN 1 ELSE 0
    IN  /\ p \in sending[n].left
        /\ sending' = [sending EXCEPT ![n] =
              [row |-> [sending[n].row EXCEPT !.sms = @ + count("sms"),
                                              !.email = @ + count("email")],
               left |-> IF k < Len(tried) THEN {} ELSE sending[n].left \ {p}]]
        /\ accepted' = Send(n, p, sent)
        /\ failed' = IF k < Len(tried) THEN [failed EXCEPT ![n] = @ \cup {p}] ELSE failed
        /\ UNCHANGED <<reachable, notice>>

\* One turn of the loop: k messages to p go out and the next, if any, raises,
\* and with it the rest of p's addresses are skipped.
Notify(n, p, k) ==
    LET tried == Channels[p]
        sent == {tried[i] : i \in 1..k}
        count(ch) == IF ch \in sent THEN 1 ELSE 0
    IN  /\ p \in sending[n].left
        /\ sending' = [sending EXCEPT ![n] =
              [row |-> [sending[n].row EXCEPT !.sms = @ + count("sms"),
                                              !.email = @ + count("email")],
               left |-> sending[n].left \ {p}]]
        /\ accepted' = Send(n, p, sent)
        /\ failed' = IF k < Len(tried) THEN [failed EXCEPT ![n] = @ \cup {p}] ELSE failed
        /\ UNCHANGED <<reachable, notice>>

\* Announcement.clean: a programme for a class and for nothing else.
Clean(row) == row.audience = "programme" <=> row.class # NoClass

\* full_clean and save.
SaveAnnouncement(n) ==
    /\ sending[n] # ComIdle /\ sending[n].left = {}
    /\ Clean(sending[n].row)
    /\ notice' = [notice EXCEPT ![n] = sending[n].row]
    /\ sending' = [sending EXCEPT ![n] = ComIdle]
    /\ UNCHANGED <<reachable, accepted, failed>>

\* full_clean refuses the row, its audit entry cannot be written, or the worker is
\* lost: the row is gone and the messages are not.
ComAbandon(n) ==
    /\ sending[n] # ComIdle
    /\ sending' = [sending EXCEPT ![n] = ComIdle]
    /\ UNCHANGED <<reachable, notice, accepted, failed>>

\* A student leaves or returns, an alumnus changes is_contactable.
ContactChanges(p) ==
    /\ reachable' = IF p \in reachable THEN reachable \ {p} ELSE reachable \cup {p}
    /\ UNCHANGED <<notice, sending, accepted, failed>>

ComNext ==
    \/ \E n \in Notices :
          \/ \E u \in Senders, audience \in AudienceType, class \in Classes \cup {NoClass} :
                BeginAnnouncement(n, u, audience, class)
          \/ \E p \in People : \E k \in 0..Len(Channels[p]) : Notify(n, p, k)
          \/ SaveAnnouncement(n) \/ ComAbandon(n)
    \/ \E p \in People : ContactChanges(p)

ComSpec == ComInit /\ [][ComNext]_comVars

----------------------------------------------------------------------------
\* AnnouncementViewSet.get_queryset: what a student finds on the portal.
Portal(p) == {n \in Notices : notice[n] # NoNotice /\
                 (notice[n].audience = "all_students" \/ notice[n].class = ClassOf[p])}

\* The type invariant.
ComTypeOK ==
    /\ reachable \subseteq People
    /\ \A n \in Notices : /\ notice[n] \in Announcement \cup {NoNotice}
                          /\ sending[n] = ComIdle \/ sending[n].row \in Announcement
    /\ accepted \subseteq Notices \X People \X {"sms", "email"}

\* "One unreachable phone number ... must not stop the rest of the audience from
\* being reached" (send_announcement): when a notice is stored, its channel took it for
\* every address on file of everybody it went to but those for whom a message of
\* their own raised; it claims no more messages than were sent, and every student
\* it went to finds it on the portal.  Whether a message was delivered it does not
\* say.  AnnouncementAdmin, which stores one that nobody was sent, is not modelled.
NoticesAreTrue ==
    \A n \in Notices : notice[n] # NoNotice =>
        LET taken(ch) == {p \in People : <<n, p, ch>> \in accepted}
        IN  /\ \A p \in notice[n].to :
                  \/ \A i \in DOMAIN Channels[p] : p \in taken(Channels[p][i])
                  \/ p \in failed[n]
            /\ notice[n].sms <= Cardinality(taken("sms"))
            /\ notice[n].email <= Cardinality(taken("email"))
            /\ \A p \in notice[n].to : ClassOf[p] # NoClass => n \in Portal(p)
=============================================================================

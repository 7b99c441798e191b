---------------------------- MODULE Timetabling ----------------------------
(***************************************************************************)
(* The class timetable and the exam timetable (backend/apps/timetabling):  *)
(* two independent schedules with the same operations, so a behaviour      *)
(* follows one of them, `board`.  Checks and saves of one request are two  *)
(* steps: a request checks the rows it can see, another may commit in      *)
(* between.                                                                *)
(***************************************************************************)
EXTENDS Integers, FiniteSets

CONSTANTS
    Entries,    \* class slots by id; exams by course
    Days, ExamDays, Times,
    Rooms, NoRoom,
    Staff,
    TtCalls, NoSlot

ASSUME TimesAssumption == Days \subseteq Int /\ ExamDays \subseteq Days /\ Times \subseteq Int

VARIABLES
    board,      \* "class" or "exam"
    slot,       \* the rows of the schedule
    ttCall,     \* per request: what it does, the rows it is about to save
    ttRaced,    \* history: something was saved on a check made before another save
    unchecked   \* history: exams moved with the invigilators they had, whom nobody asked

ttVars == <<board, slot, ttCall, ttRaced, unchecked>>

\* TimetableEntry or ExamTimetable.  `staff` is the lecturer of a class (at most
\* one, a column of the row) or the invigilators of an exam (a table of its own).
Slot == [day : Days, start : Times, end : Times, room : Rooms \cup {NoRoom},
         staff : SUBSET Staff, published : BOOLEAN]

ASSUME NoSlotAssumption == NoSlot \notin Slot

\* One request: `rows` still to be saved; `keep`: the invigilators stay as they are.
TtIdle == [do |-> "none", rows |-> << >>, keep |-> FALSE, stale |-> FALSE]

TtInit ==
    /\ board \in {"class", "exam"}
    /\ slot = [e \in Entries |-> NoSlot]
    /\ ttCall = [c \in TtCalls |-> TtIdle]
    /\ ttRaced = FALSE
    /\ unchecked = {}

----------------------------------------------------------------------------
Booked == {e \in Entries : slot[e] # NoSlot}

\* Mutant: only slots that start together overlap.
OverlapSameStart(a, b) == a.day = b.day /\ a.start = b.start

\* _overlap, of two slots on the same day: sharing an end point is no overlap.
Overlap(a, b) == a.day = b.day /\ a.start < b.end /\ b.start < a.end

\* What the queries of _room_busy and _exam_room_busy, and of _lecturer_busy and
\* _invigilators_busy, select: no room and no staff are never busy.
SharesRoom(a, b) == a.room # NoRoom /\ a.room = b.room
SharesStaff(a, b) == a.staff \cap b.staff # {}

RoomBusy(e, new) == \E f \in Booked \ {e} : SharesRoom(new, slot[f]) /\ Overlap(new, slot[f])
StaffBusy(e, new) == \E f \in Booked \ {e} : SharesStaff(new, slot[f]) /\ Overlap(new, slot[f])

\* The refusals common to creating and updating: InvalidTimeRange,
\* OutsideExamWindow, RoomClash; the staff are checked only when they are given.
Acceptable(e, new, keep) ==
    /\ new.start < new.end
    /\ board = "exam" => new.day \in ExamDays
    /\ board = "class" => Cardinality(new.staff) <= 1
    /\ ~RoomBusy(e, new)
    /\ keep \/ ~StaffBusy(e, new)

BeginTt(c, what, rows, keep) ==
    /\ ttCall[c] = TtIdle
    /\ ttCall' = [ttCall EXCEPT ![c] = [do |-> what, rows |-> rows, keep |-> keep, stale |-> FALSE]]
    /\ UNCHANGED <<board, slot, ttRaced, unchecked>>

\* create_entry, create_exam_entry: the checks.  Ids are not used again while a
\* request holds them; two requests may schedule the same exam.
CheckCreate(c, e, new) ==
    /\ slot[e] = NoSlot
    /\ \A d \in TtCalls : e \in DOMAIN ttCall[d].rows => ttCall[d].do = "create" /\ board = "exam"
    /\ ~new.published /\ Acceptable(e, new, FALSE)
    /\ BeginTt(c, "create", [f \in {e} |-> new], FALSE)

\* update_exam_entry: invigilators that are not given stay.
KeepsInvigilators(e, new) == board = "exam" /\ new.staff = slot[e].staff

\* update_entry, update_exam_entry through PATCH: day and times not given stay, a
\* room or lecturer not given is cleared.
CheckUpdate(c, e, new, keep) ==
    /\ e \in Booked /\ new.published = slot[e].published
    /\ keep => KeepsInvigilators(e, new)
    /\ Acceptable(e, new, keep)
    /\ BeginTt(c, "update", [f \in {e} |-> new], keep)

\* publish_timetable, publish_exam_timetable: the unpublished rows are loaded; the
\* invigilators of an exam are not among its columns.
Unpublished == {e \in Booked : ~slot[e].published}

LoadUnpublished(c) ==
    /\ Unpublished # {}
    /\ BeginTt(c, "publish", [e \in Unpublished |-> [slot[e] EXCEPT !.published = TRUE]],
               board = "exam")

\* One save(), of the whole row as the request knows it: an update of a deleted
\* row inserts it again, a second insert is refused.  A publication saves its
\* rows one by one, outside any transaction.
SaveSlot(c, e) ==
    LET call == ttCall[c]
        new == call.rows[e]
        kept == IF slot[e] = NoSlot THEN {} ELSE slot[e].staff
        rest == [f \in (DOMAIN call.rows) \ {e} |-> call.rows[f]]
    IN  /\ call.do = "create" => slot[e] = NoSlot
        /\ slot' = [slot EXCEPT ![e] = IF call.keep THEN [new EXCEPT !.staff = kept] ELSE new]
        /\ ttCall' = [d \in TtCalls |->
              IF d = c THEN IF rest = << >> THEN TtIdle ELSE [call EXCEPT !.rows = rest]
              ELSE IF ttCall[d] = TtIdle THEN TtIdle
              ELSE [ttCall[d] EXCEPT !.stale = TRUE]]
        /\ ttRaced' = (ttRaced \/ call.stale)
        /\ unchecked' = IF call.do = "publish" THEN unchecked
                        ELSE IF call.keep THEN unchecked \cup {e} ELSE unchecked \ {e}
        /\ UNCHANGED board

\* The request fails or the process dies: what it has saved stays.
TtAbandon(c) ==
    /\ ttCall[c] # TtIdle
    /\ ttCall' = [ttCall EXCEPT ![c] = TtIdle]
    /\ UNCHANGED <<board, slot, ttRaced, unchecked>>

\* DELETE.
DeleteSlot(e) ==
    /\ e \in Booked
    /\ slot' = [slot EXCEPT ![e] = NoSlot]
    /\ ttCall' = [d \in TtCalls |-> IF ttCall[d] = TtIdle THEN TtIdle
                                    ELSE [ttCall[d] EXCEPT !.stale = TRUE]]
    /\ UNCHANGED <<board, ttRaced, unchecked>>

TtNext ==
    \/ \E c \in TtCalls :
          \/ \E e \in Entries, new \in Slot :
                \/ CheckCreate(c, e, new)
                \/ \E keep \in BOOLEAN : CheckUpdate(c, e, new, keep)
          \/ LoadUnpublished(c)
          \/ \E e \in DOMAIN ttCall[c].rows : SaveSlot(c, e)
          \/ TtAbandon(c)
    \/ \E e \in Entries : DeleteSlot(e)

TtSpec == TtInit /\ [][TtNext]_ttVars

----------------------------------------------------------------------------
\* weekly_timetable and exam_schedule: what students see of the board.
NoticeBoard == {e \in Booked : slot[e].published}

\* The type invariant.
TtTypeOK ==
    /\ board \in {"class", "exam"}
    /\ slot \in [Entries -> Slot \cup {NoSlot}]
    /\ \A c \in TtCalls : \A e \in DOMAIN ttCall[c].rows : ttCall[c].rows[e] \in Slot

\* "A room is one physical place and a lecturer is one person" (models.py): no
\* two slots share a room, a lecturer or an invigilator at overlapping times, after
\* any number of moves, publications and deletions, unless a request saved on a
\* check another had overtaken; an exam moved without naming its invigilators
\* keeps them unasked.  The admin, which saves slots without the services' checks,
\* is not modelled.
NoDoubleBooking ==
    \A e, f \in Booked, t \in Times :
        /\ e # f /\ slot[e].day = slot[f].day
        /\ \A x \in {e, f} : slot[x].start <= t /\ t < slot[x].end
        => \/ ttRaced
           \/ /\ slot[e].room = NoRoom \/ slot[e].room # slot[f].room
              /\ slot[e].staff \cap slot[f].staff = {} \/ {e, f} \cap unchecked # {}
=============================================================================

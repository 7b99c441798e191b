------------------------------- MODULE Hostel -------------------------------
(***************************************************************************)
(* Hostel rooms and the students who live in them (backend/apps/hostel).   *)
(* An allocation locks the room row and is one step; editing a room and    *)
(* vacating check first and save later, with no lock.                      *)
(***************************************************************************)
EXTENDS Integers, FiniteSets

CONSTANTS
    Residents,      \* students who ask for a room
    HostelRooms,
    Genders,        \* what a student declares and a room is restricted to
    MaxBeds,        \* bound on the capacity of a room
    TermlyFee,      \* HostelPolicy.termly_fee
    HosCalls,
    NoBed

ASSUME HostelAssumption ==
    /\ MaxBeds \in Nat \ {0} /\ TermlyFee \in Nat
    /\ IsFiniteSet(Residents) /\ NoBed \notin HostelRooms

VARIABLES
    room,           \* Room rows
    bed,            \* the active Allocation of a student (unique constraint), or NoBed
    gender,         \* Student.gender, in the registry
    hosCall,        \* per request: a room edit or a vacation under way
    corrected,      \* history: residents whose gender was corrected
    reshaped        \* history: rooms cut below their occupancy, or saved on a stale check

hosVars == <<room, bed, gender, hosCall, corrected, reshaped>>

\* Room: the columns the checks read; capacity is at least 1 (MinValueValidator).
HostelRoom == [capacity : 1..MaxBeds, restriction : Genders]

\* One request: the row to save of a room, or the allocation of `on` to close with
\* the restriction of its room as select_related loaded it.
HosIdle == [do |-> "none", on |-> NoBed, restriction |-> NoBed, capacity |-> 1, stale |-> FALSE]

\* create_room.
HosInit ==
    /\ room \in [HostelRooms -> HostelRoom]
    /\ bed = [s \in Residents |-> NoBed]
    /\ gender \in [Residents -> Genders]
    /\ hosCall = [c \in HosCalls |-> HosIdle]
    /\ corrected = {} /\ reshaped = {}

----------------------------------------------------------------------------
Occupants(r) == {s \in Residents : bed[s] = r}

\* Room.available_beds, max(0, ...).
AvailableBeds(r) ==
    IF room[r].capacity >= Cardinality(Occupants(r))
    THEN room[r].capacity - Cardinality(Occupants(r)) ELSE 0

\* Requests under way that a change of what they loaded makes stale.
Overtaken(x, kind) ==
    [d \in HosCalls |-> IF hosCall[d].do = kind /\ hosCall[d].on = x
                        THEN [hosCall[d] EXCEPT !.stale = TRUE] ELSE hosCall[d]]

\* allocate_room, under the lock on the room: RoomFull, GenderMismatch,
\* AlreadyAllocated, and the constraint one_active_allocation_per_student.
MayMoveIn(s, r) ==
    /\ AvailableBeds(r) > 0
    /\ gender[s] = room[r].restriction
    /\ bed[s] = NoBed

\* AllocationViewSet.allocate.
AllocateRoom(s, r) ==
    /\ MayMoveIn(s, r)
    /\ bed' = [bed EXCEPT ![s] = r]
    /\ hosCall' = Overtaken(r, "edit")
    /\ UNCHANGED <<room, gender, corrected, reshaped>>

\* vacate: get_object and the check of the status.
LoadAllocation(c, s) ==
    /\ hosCall[c] = HosIdle
    /\ bed[s] # NoBed
    /\ hosCall' = [hosCall EXCEPT ![c] =
                     [HosIdle EXCEPT !.do = "vacate", !.on = s,
                                     !.restriction = room[bed[s]].restriction]]
    /\ UNCHANGED <<room, bed, gender, corrected, reshaped>>

\* vacate_allocation: Allocation.clean still wants the genders to match.  Closing
\* a row that is already closed changes nothing, even if the student has since
\* been given another.
VacateAllocation(c) ==
    LET s == hosCall[c].on
    IN  /\ hosCall[c].do = "vacate"
        /\ gender[s] = hosCall[c].restriction
        /\ bed' = IF hosCall[c].stale THEN bed ELSE [bed EXCEPT ![s] = NoBed]
        /\ hosCall' = [Overtaken(s, "vacate") EXCEPT ![c] = HosIdle]
        /\ UNCHANGED <<room, gender, corrected, reshaped>>

\* Mutant: an edit does not look at who lives there.
CheckRoomBlind(c, r, new) ==
    /\ hosCall[c] = HosIdle
    /\ hosCall' = [hosCall EXCEPT ![c] = [do |-> "edit", on |-> r, stale |-> FALSE,
                     restriction |-> new.restriction, capacity |-> new.capacity]]
    /\ UNCHANGED <<room, bed, gender, corrected, reshaped>>

\* update_room: get_object and Room.clean, which looks at the active occupants and
\* not at the capacity.
CheckRoom(c, r, new) ==
    /\ hosCall[c] = HosIdle
    /\ \A s \in Occupants(r) : gender[s] = new.restriction
    /\ hosCall' = [hosCall EXCEPT ![c] = [do |-> "edit", on |-> r, stale |-> FALSE,
                     restriction |-> new.restriction, capacity |-> new.capacity]]
    /\ UNCHANGED <<room, bed, gender, corrected, reshaped>>

\* ... and the save.
SaveRoom(c) ==
    LET call == hosCall[c]
        r == call.on
    IN  /\ call.do = "edit"
        /\ room' = [room EXCEPT ![r] = [capacity |-> call.capacity,
                                        restriction |-> call.restriction]]
        /\ hosCall' = [Overtaken(r, "edit") EXCEPT ![c] = HosIdle]
        /\ reshaped' = IF call.stale \/ call.capacity < Cardinality(Occupants(r))
                       THEN reshaped \cup {r} ELSE reshaped
        /\ UNCHANGED <<bed, gender, corrected>>

HosAbandon(c) ==
    /\ hosCall[c] # HosIdle
    /\ hosCall' = [hosCall EXCEPT ![c] = HosIdle]
    /\ UNCHANGED <<room, bed, gender, corrected, reshaped>>

\* The registry corrects a student's record: nobody asks the hostel.
CorrectGender(s, g) ==
    /\ g # gender[s]
    /\ gender' = [gender EXCEPT ![s] = g]
    /\ corrected' = corrected \cup {s}
    /\ UNCHANGED <<room, bed, hosCall, reshaped>>

HosNext ==
    \/ \E s \in Residents :
          \/ \E r \in HostelRooms : AllocateRoom(s, r)
          \/ \E g \in Genders : CorrectGender(s, g)
    \/ \E c \in HosCalls :
          \/ \E s \in Residents : LoadAllocation(c, s)
          \/ \E r \in HostelRooms, new \in HostelRoom : CheckRoom(c, r, new)
          \/ VacateAllocation(c) \/ SaveRoom(c) \/ HosAbandon(c)

HosSpec == HosInit /\ [][HosNext]_hosVars

----------------------------------------------------------------------------
\* fee_for_active_allocation: what generate_invoice adds to the tuition.
HostelFee(s) == IF bed[s] # NoBed THEN TermlyFee ELSE 0

\* The type invariant.
HosTypeOK ==
    /\ room \in [HostelRooms -> HostelRoom]
    /\ bed \in [Residents -> HostelRooms \cup {NoBed}]
    /\ gender \in [Residents -> Genders]

\* Through any mix of moves and edits a room never holds more students than beds,
\* nor a student who did not declare its gender (FR-HOS-01): unless the room was
\* cut below its occupancy, edited while someone moved in, or the student's own
\* record was corrected.  AllocationAdmin, which adds residents unchecked, is not
\* modelled.
RoomsAreSound ==
    \A r \in HostelRooms \ reshaped :
        /\ Cardinality(Occupants(r)) <= room[r].capacity
        /\ \A s \in Occupants(r) \ corrected : gender[s] = room[r].restriction
=============================================================================

------------------------------- MODULE Campus -------------------------------
(***************************************************************************)
(* The administrative offices side by side: admissions and their merit     *)
(* list, the registry, documents, the library, the hostel, HR, accounts,   *)
(* communications, billing, the sign-in and the cashier's payments and     *)
(* refunds.  As in Academic each keeps tables of its own, so a behaviour   *)
(* follows one office, `desk`, and the others stand still.                 *)
(***************************************************************************)
EXTENDS Admissions, MeritList, Registry, Documents, Library, Hostel, HR, Accounts,
        Communications, Billing, SignIn, Finance

VARIABLE desk

Desks == {"admissions", "merit list", "registry", "documents", "library", "hostel", "hr",
          "accounts", "communications", "billing", "sign-in", "finance"}

CampusInit ==
    /\ desk \in Desks
    /\ AdmInit /\ MeritInit /\ RegistryInit /\ DocInit /\ LibInit /\ HosInit /\ HrInit /\ AccInit
    /\ ComInit /\ BilInit /\ SigInit /\ FinInit
    \* The initial choices of an office that stands still are fixed.
    /\ desk # "documents" => ~held
    /\ desk # "library" => copies = 0
    /\ desk # "billing" => roll = {} /\ lodged = {}
    /\ desk # "hostel" =>
          /\ room = [r \in HostelRooms |-> CHOOSE x \in HostelRoom : TRUE]
          /\ gender = [s \in Residents |-> CHOOSE g \in Genders : TRUE]

CampusNext ==
    /\ UNCHANGED desk
    /\ \/ /\ desk = "admissions" /\ AdmNext
          /\ UNCHANGED <<meritVars, registryVars, docVars, libVars, hosVars, hrVars,
                         accVars, comVars, bilVars, sigVars, finVars>>
       \/ /\ desk = "merit list" /\ MeritNext
          /\ UNCHANGED <<admVars, registryVars, docVars, libVars, hosVars, hrVars,
                         accVars, comVars, bilVars, sigVars, finVars>>
       \/ /\ desk = "registry" /\ RegistryNext
          /\ UNCHANGED <<admVars, meritVars, docVars, libVars, hosVars, hrVars,
                         accVars, comVars, bilVars, sigVars, finVars>>
       \/ /\ desk = "documents" /\ DocNext
          /\ UNCHANGED <<admVars, meritVars, registryVars, libVars, hosVars, hrVars,
                         accVars, comVars, bilVars, sigVars, finVars>>
       \/ /\ desk = "library" /\ LibNext
          /\ UNCHANGED <<admVars, meritVars, registryVars, docVars, hosVars, hrVars,
                         accVars, comVars, bilVars, sigVars, finVars>>
       \/ /\ desk = "hostel" /\ HosNext
          /\ UNCHANGED <<admVars, meritVars, registryVars, docVars, libVars, hrVars,
                         accVars, comVars, bilVars, sigVars, finVars>>
       \/ /\ desk = "hr" /\ HrNext
          /\ UNCHANGED <<admVars, meritVars, registryVars, docVars, libVars, hosVars,
                         accVars, comVars, bilVars, sigVars, finVars>>
       \/ /\ desk = "accounts" /\ AccNext
          /\ UNCHANGED <<admVars, meritVars, registryVars, docVars, libVars, hosVars,
                         hrVars, comVars, bilVars, sigVars, finVars>>
       \/ /\ desk = "communications" /\ ComNext
          /\ UNCHANGED <<admVars, meritVars, registryVars, docVars, libVars, hosVars,
                         hrVars, accVars, bilVars, sigVars, finVars>>
       \/ /\ desk = "billing" /\ BilNext
          /\ UNCHANGED <<admVars, meritVars, registryVars, docVars, libVars, hosVars,
                         hrVars, accVars, comVars, sigVars, finVars>>
       \/ /\ desk = "sign-in" /\ SigNext
          /\ UNCHANGED <<admVars, meritVars, registryVars, docVars, libVars, hosVars,
                         hrVars, accVars, comVars, bilVars, finVars>>
       \/ /\ desk = "finance" /\ FinNext
          /\ UNCHANGED <<admVars, meritVars, registryVars, docVars, libVars, hosVars,
                         hrVars, accVars, comVars, bilVars, sigVars>>

campusVars == <<admVars, meritVars, registryVars, docVars, libVars, hosVars, hrVars, accVars,
                comVars, bilVars, sigVars, finVars>>

CampusSpec == CampusInit /\ [][CampusNext]_<<campusVars, desk>>

\* The type invariant: each office's tables keep the statuses, amounts and keys its
\* models declare.
CampusTypeOK ==
    /\ AdmTypeOK /\ MeritTypeOK /\ RegistryTypeOK /\ DocTypeOK /\ LibTypeOK /\ HosTypeOK /\ HrTypeOK
    /\ AccTypeOK /\ ComTypeOK /\ BilTypeOK /\ SigTypeOK /\ FinTypeOK
=============================================================================

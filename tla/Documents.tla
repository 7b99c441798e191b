----------------------------- MODULE Documents -----------------------------
(***************************************************************************)
(* Transcript requests and issued documents (backend/apps/documents).      *)
(* The views load a row with get_object; the services check the status     *)
(* they see and save the whole row.                                        *)
(***************************************************************************)
EXTENDS Integers, FiniteSets

CONSTANTS
    Requests,       \* transcript requests
    Serials,        \* serial numbers, unique (generate_serial_number)
    DocCalls,
    NoRequest

ASSUME NoRequestAssumption == NoRequest \notin Requests

VARIABLES
    request,        \* TranscriptRequest.status, "none": not made yet
    issued,         \* IssuedDocument rows by serial number
    held,           \* the student has a blocking hold
    docCall,        \* per call: what it does, to what
    docRaced        \* history: requests decided on a stale row

docVars == <<request, issued, held, docCall, docRaced>>

\* TranscriptRequestStatus.
RequestStatus == {"none", "requested", "issued", "rejected"}

\* IssuedDocument: a transcript has its request, a certificate has none;
\* `override`: issued over a blocking hold with a reason.
IssuedDocument == [request : Requests \cup {NoRequest}, override : BOOLEAN, revoked : BOOLEAN]
DocIdle == [do |-> "none", on |-> NoRequest, stale |-> FALSE]

DocInit ==
    /\ request = [r \in Requests |-> "none"]
    /\ issued = << >>
    /\ held \in BOOLEAN
    /\ docCall = [c \in DocCalls |-> DocIdle]
    /\ docRaced = {}

----------------------------------------------------------------------------
\* request_transcript: the state of a new row.
NewRequest == "requested"

\* submit: by the student, or by staff on the student's behalf.
RequestTranscript(r) ==
    /\ request[r] = "none"
    /\ request' = [request EXCEPT ![r] = NewRequest]
    /\ UNCHANGED <<issued, held, docCall, docRaced>>

\* Mutant: approving again issues again, checked or not.
LoadRequestAny(c, what, r) ==
    /\ docCall[c] = DocIdle
    /\ request[r] # "none"
    /\ docCall' = [docCall EXCEPT ![c] = [do |-> what, on |-> r, stale |-> FALSE]]
    /\ UNCHANGED <<request, issued, held, docRaced>>

\* decide: get_object and the check of the status.
LoadRequest(c, what, r) ==
    /\ docCall[c] = DocIdle
    /\ request[r] = "requested"
    /\ docCall' = [docCall EXCEPT ![c] = [do |-> what, on |-> r, stale |-> FALSE]]
    /\ UNCHANGED <<request, issued, held, docRaced>>

\* _issue: a document with the next serial number.
Issue(s, r, override) ==
    /\ s \in Serials \ DOMAIN issued
    /\ issued' = [t \in (DOMAIN issued) \cup {s} |->
                    IF t = s THEN [request |-> r, override |-> override, revoked |-> FALSE]
                    ELSE issued[t]]

SaveRequest(c, status) ==
    LET r == docCall[c].on
    IN  /\ request' = [request EXCEPT ![r] = status]
        /\ docCall' = [d \in DocCalls |->
              IF d = c \/ docCall[d] = DocIdle THEN DocIdle
              ELSE [docCall[d] EXCEPT !.stale = @ \/ docCall[d].on = r]]
        /\ docRaced' = IF docCall[c].stale THEN docRaced \cup {r} ELSE docRaced
        /\ UNCHANGED held

\* decide_transcript_request: approving and issuing are one transaction.
ApproveRequest(c, s) ==
    /\ docCall[c].do = "approve"
    /\ Issue(s, docCall[c].on, FALSE)
    /\ SaveRequest(c, "issued")

\* Mutant: the wording refunds use.
RejectRequestDeclined(c) ==
    /\ docCall[c].do = "reject"
    /\ SaveRequest(c, "declined")
    /\ UNCHANGED issued

RejectRequest(c) ==
    /\ docCall[c].do = "reject"
    /\ SaveRequest(c, "rejected")
    /\ UNCHANGED issued

DocAbandon(c) ==
    /\ docCall[c] # DocIdle
    /\ docCall' = [docCall EXCEPT ![c] = DocIdle]
    /\ UNCHANGED <<request, issued, held, docRaced>>

\* graduation_clearance_status.
Cleared == ~held

\* issue_certificate: a hold blocks unless a reason is given by an actor who may
\* override.
MayIssue(override) == Cleared \/ override

\* The reason is kept only when there was a hold to override.
IssueCertificate(s, override) ==
    /\ MayIssue(override)
    /\ Issue(s, NoRequest, override /\ ~Cleared)
    /\ UNCHANGED <<request, held, docCall, docRaced>>

\* revoke_document: once.
Revocable(s) == s \in DOMAIN issued /\ ~issued[s].revoked

RevokeDocument(s) ==
    /\ Revocable(s)
    /\ issued' = [issued EXCEPT ![s].revoked = TRUE]
    /\ UNCHANGED <<request, held, docCall, docRaced>>

\* The hold providers (finance, library) change their minds.
HoldChanges ==
    /\ held' = ~held
    /\ UNCHANGED <<request, issued, docCall, docRaced>>

DocNext ==
    \/ \E r \in Requests : RequestTranscript(r)
    \/ \E c \in DocCalls :
          \/ \E r \in Requests, what \in {"approve", "reject"} : LoadRequest(c, what, r)
          \/ \E s \in Serials : ApproveRequest(c, s)
          \/ RejectRequest(c) \/ DocAbandon(c)
    \/ \E s \in Serials :
          \/ \E override \in BOOLEAN : IssueCertificate(s, override)
          \/ RevokeDocument(s)
    \/ HoldChanges

DocSpec == DocInit /\ [][DocNext]_docVars

----------------------------------------------------------------------------
\* verify_document: the serial number that was found, and is_valid of its document.
VerifyDocument(s) == {~issued[t].revoked : t \in (DOMAIN issued) \cap {s}}

\* VerifyDocumentView: what the public page says of a serial number.
Verify(s) ==
    CASE VerifyDocument(s) = {} -> "unknown"
      [] VerifyDocument(s) = {TRUE} -> "valid"
      [] VerifyDocument(s) = {FALSE} -> "invalid"

\* The type invariant.
DocTypeOK ==
    /\ request \in [Requests -> RequestStatus]
    /\ DOMAIN issued \subseteq Serials /\ \A s \in DOMAIN issued : issued[s] \in IssuedDocument
    /\ held \in BOOLEAN
    /\ \A c \in DocCalls : docCall[c].on \in Requests \cup {NoRequest}

\* A request has one document, valid or revoked, if it was granted and none
\* otherwise (FR-DOC-01), unless two decisions on it overlapped.  IssuedDocumentAdmin,
\* which adds documents by hand, is not modelled.
OneDocumentPerRequest ==
    \A r \in Requests \ docRaced :
        Cardinality({s \in Serials : Verify(s) # "unknown" /\ issued[s].request = r}) =
            (IF request[r] = "issued" THEN 1 ELSE 0)
=============================================================================

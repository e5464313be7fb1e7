---------------------------- MODULE Applications ----------------------------
(***************************************************************************)
(* The intake half of contracts/scholarship-applications: programs with    *)
(* versioned forms and consent terms, the consents of applicants, their    *)
(* applications, and what an applicant may ask for afterwards: that the    *)
(* answers are corrected or erased, and an export of the data.             *)
(*                                                                         *)
(* The model starts after initialize.  Published versions are immutable    *)
(* and numbered from 1, so the last number stands for all of them; of the  *)
(* hashes only the commitment to the answers matters.                      *)
(***************************************************************************)
EXTENDS Integers, Sequences, FiniteSets, Storage

CONSTANTS
    Admin,        \* the address stored by initialize
    Applicants, Programs,
    Deadlines,    \* deadlines the admin passes (u64)
    Hashes,       \* 32-byte commitments callers pass
    ZeroHash,     \* the all-zeroes commitment
    MaxVersion,   \* bound: versions of a program
    MaxForms,     \* bound: versions of a program's form
    MaxTerms,     \* bound: versions of a program's consent terms
    MaxRequests,  \* bound: correction and erasure requests
    MaxExports,   \* bound: export requests
    MaxTime       \* bound: ledger timestamp

VARIABLES
    now,            \* env.ledger().timestamp()
    programs,       \* DataKey::Program
    formVersion,    \* DataKey::FormVersion, or 0
    consentVersion, \* DataKey::ConsentVersion, or 0
    consents,       \* DataKey::Consent: <<applicant, program>> -> consent record
    applications,   \* DataKey::Application: <<applicant, program>> -> application
    requests,       \* PrivacyDataKey::Request(1..RequestCounter); ApplicantRequest is
                    \* the last one of a pair
    exports,        \* PrivacyDataKey::ExportRequest(1..ExportRequestCounter)
    exportOf        \* PrivacyDataKey::ApplicantExportRequest: pair -> export id

intake == <<programs, formVersion, consentVersion, consents>>
privacy == <<requests, exports, exportOf>>
applicationVars == <<intake, applications, privacy>>

Pairs == Applicants \X Programs

Program == [version : Nat, active : BOOLEAN, deadline : Nat]
ConsentRecord == [version : Nat, revoked : BOOLEAN]
Application == [data_hash : Hashes \cup {ZeroHash}, form_version : Nat, consent_version : Nat]
PrivacyRequest ==
    [pair : Pairs, request_type : {"Correction", "Erasure"},
     target_data_hash : Hashes \cup {ZeroHash},
     status : {"Pending", "Approved", "Denied"}]
DataExportRequest ==
    [pair : Pairs, status : {"Pending", "Completed", "Cancelled"},
     export_hash : Hashes \cup {ZeroHash}]

RequireAdmin(caller) == caller = Admin

Init ==
    /\ programs = Empty
    /\ formVersion = [p \in Programs |-> 0]
    /\ consentVersion = [p \in Programs |-> 0]
    /\ consents = Empty
    /\ applications = Empty
    /\ requests = <<>>
    /\ exports = <<>>
    /\ exportOf = Empty

-----------------------------------------------------------------------------
(* Programs, forms and consent *)

RegisterProgram(caller, p, deadline) ==
    /\ RequireAdmin(caller)
    /\ ~Has(programs, p)
    /\ programs' = Set(programs, p, [version |-> 1, active |-> TRUE, deadline |-> deadline])
    /\ UNCHANGED <<formVersion, consentVersion, consents, applications, privacy>>

SetProgramActive(caller, p, expected, value) ==
    /\ RequireAdmin(caller)
    /\ Has(programs, p)
    /\ programs[p].version = expected
    /\ expected < MaxVersion
    /\ programs' = [programs EXCEPT ![p].version = @ + 1, ![p].active = value]
    /\ UNCHANGED <<formVersion, consentVersion, consents, applications, privacy>>

PublishFormSchema(caller, p) ==
    /\ RequireAdmin(caller)
    /\ Has(programs, p)
    /\ formVersion[p] < MaxForms
    /\ formVersion' = [formVersion EXCEPT ![p] = @ + 1]
    /\ UNCHANGED <<programs, consentVersion, consents, applications, privacy>>

PublishConsentTerms(caller, p) ==
    /\ RequireAdmin(caller)
    /\ Has(programs, p)
    /\ consentVersion[p] < MaxTerms
    /\ consentVersion' = [consentVersion EXCEPT ![p] = @ + 1]
    /\ UNCHANGED <<programs, formVersion, consents, applications, privacy>>

RecordConsent(a, p) ==
    /\ consentVersion[p] # 0
    /\ consents' = Set(consents, <<a, p>>, [version |-> consentVersion[p], revoked |-> FALSE])
    /\ UNCHANGED <<programs, formVersion, consentVersion, applications, privacy>>

RevokeConsent(a, p) ==
    /\ Has(consents, <<a, p>>)
    /\ consents' = [consents EXCEPT ![<<a, p>>].revoked = TRUE]
    /\ UNCHANGED <<programs, formVersion, consentVersion, applications, privacy>>

HasValidConsent(k) ==
    /\ consentVersion[k[2]] # 0
    /\ Has(consents, k)
    /\ ~consents[k].revoked
    /\ consents[k].version = consentVersion[k[2]]

\* Fault: a second submission replaces the first.
FaultNotYetApplied(k) == TRUE
NotYetApplied(k) == ~Has(applications, k)

SubmitApplication(a, p, data_hash, form_version) ==
    LET k == <<a, p>> IN
    /\ Has(programs, p) /\ programs[p].active
    /\ now <= programs[p].deadline
    /\ form_version \in 1..formVersion[p]
    /\ HasValidConsent(k)
    /\ NotYetApplied(k)
    /\ applications' = Set(applications, k,
           [data_hash |-> data_hash, form_version |-> form_version,
            consent_version |-> consents[k].version])
    /\ UNCHANGED <<intake, privacy>>

-----------------------------------------------------------------------------
(* Correction, erasure and export *)

AddRequest(k, type, target) ==
    /\ Has(applications, k)
    /\ Len(requests) < MaxRequests
    /\ requests' = Append(requests,
           [pair |-> k, request_type |-> type, target_data_hash |-> target,
            status |-> "Pending"])
    /\ UNCHANGED <<intake, applications, exports, exportOf>>

RequestCorrection(a, p, hash) == AddRequest(<<a, p>>, "Correction", hash)
RequestErasure(a, p) == AddRequest(<<a, p>>, "Erasure", ZeroHash)

\* Fault: only a denial is final.
FaultAwaitsProcessing(id) == requests[id].status # "Denied"
AwaitsProcessing(id) == requests[id].status = "Pending"

ProcessPrivacyRequest(caller, id, approve) ==
    /\ RequireAdmin(caller)
    /\ AwaitsProcessing(id)
    /\ requests' = [requests EXCEPT ![id].status = IF approve THEN "Approved" ELSE "Denied"]
    /\ applications' =
           IF approve /\ Has(applications, requests[id].pair)
           THEN [applications EXCEPT ![requests[id].pair].data_hash =
                    IF requests[id].request_type = "Correction"
                    THEN requests[id].target_data_hash ELSE ZeroHash]
           ELSE applications
    /\ UNCHANGED <<intake, exports, exportOf>>

HasExportableData(k) == Has(applications, k) \/ Has(consents, k)

\* Fault: a new request is refused after a completed export, not during a pending one.
FaultExportPending(k) == Has(exportOf, k) /\ exports[exportOf[k]].status = "Completed"
ExportPending(k) == Has(exportOf, k) /\ exports[exportOf[k]].status = "Pending"

RequestDataExport(a, p) ==
    LET k == <<a, p>> IN
    /\ HasExportableData(k)
    /\ ~ExportPending(k)
    /\ Len(exports) < MaxExports
    /\ exports' = Append(exports,
           [pair |-> k, status |-> "Pending", export_hash |-> ZeroHash])
    /\ exportOf' = Set(exportOf, k, Len(exports) + 1)
    /\ UNCHANGED <<intake, applications, requests>>

CancelDataExport(a, id) ==
    /\ exports[id].pair[1] = a
    /\ exports[id].status = "Pending"
    /\ exports' = [exports EXCEPT ![id].status = "Cancelled"]
    /\ UNCHANGED <<intake, applications, requests, exportOf>>

\* Both hashes the worker passes are non-zero; one of them is kept.
CompleteDataExport(caller, id, hash) ==
    /\ RequireAdmin(caller)
    /\ hash # ZeroHash
    /\ exports[id].status = "Pending"
    /\ exports' = [exports EXCEPT ![id].status = "Completed", ![id].export_hash = hash]
    /\ UNCHANGED <<intake, applications, requests, exportOf>>

Next ==
    \/ \E caller \in Applicants \cup {Admin} :
           \/ \E p \in Programs :
                  \/ \E deadline \in Deadlines : RegisterProgram(caller, p, deadline)
                  \/ \E expected \in 1..MaxVersion, value \in BOOLEAN :
                         SetProgramActive(caller, p, expected, value)
                  \/ PublishFormSchema(caller, p)
                  \/ PublishConsentTerms(caller, p)
           \/ \E id \in 1..Len(requests), approve \in BOOLEAN :
                  ProcessPrivacyRequest(caller, id, approve)
           \/ \E id \in 1..Len(exports), hash \in Hashes \cup {ZeroHash} :
                  CompleteDataExport(caller, id, hash)
    \/ \E a \in Applicants :
           \/ \E p \in Programs :
                  \/ RecordConsent(a, p)
                  \/ RevokeConsent(a, p)
                  \/ \E hash \in Hashes, v \in 0..MaxForms : SubmitApplication(a, p, hash, v)
                  \/ \E hash \in Hashes : RequestCorrection(a, p, hash)
                  \/ RequestErasure(a, p)
                  \/ RequestDataExport(a, p)
           \/ \E id \in 1..Len(exports) : CancelDataExport(a, id)

AdvanceTime == now < MaxTime /\ now' = now + 1 /\ UNCHANGED applicationVars

Spec == now = 0 /\ Init /\ [][(Next /\ UNCHANGED now) \/ AdvanceTime]_<<now, applicationVars>>

-----------------------------------------------------------------------------
(* Properties *)

\* Every stored value stays in its type: forms and terms only of registered programs,
\* no application without a consent record, no pointer to an export that does not exist.
TypeOK ==
    /\ now \in Nat
    /\ DOMAIN programs \subseteq Programs
    /\ \A p \in DOMAIN programs : programs[p] \in Program
    /\ \A p \in Programs \ DOMAIN programs : formVersion[p] = 0 /\ consentVersion[p] = 0
    /\ formVersion \in [Programs -> Nat] /\ consentVersion \in [Programs -> Nat]
    /\ DOMAIN consents \subseteq Pairs
    /\ \A k \in DOMAIN consents : consents[k] \in ConsentRecord
    /\ DOMAIN applications \subseteq DOMAIN consents
    /\ \A k \in DOMAIN applications : applications[k] \in Application
    /\ requests \in Seq(PrivacyRequest)
    /\ exports \in Seq(DataExportRequest)
    /\ \A k \in DOMAIN exportOf : k \in Pairs /\ exportOf[k] \in 1..Len(exports)

\* "Only one export request may be pending for an applicant/program pair"
\* (docs/scholarship-applications.md): whatever is requested, cancelled and
\* completed meanwhile for other pairs, and a pending one is the one the
\* applicant's pointer names, so that it can be found and cancelled.
OnePendingExport ==
    \A i \in 1..Len(exports) : exports[i].status = "Pending" => exportOf[exports[i].pair] = i

\* One step, seen from the applications, requests and exports.
SettleStep ==
    /\ \A k \in DOMAIN applications :
         LET a == applications[k]
             b == applications'[k]
         IN  /\ a.form_version = b.form_version /\ a.consent_version = b.consent_version
             /\ a.data_hash # b.data_hash =>
                  \E id \in 1..Len(requests) :
                     /\ requests[id].pair = k /\ requests[id].status = "Pending"
                     /\ requests'[id].status = "Approved"
                     /\ b.data_hash = requests[id].target_data_hash
    /\ \A id \in 1..Len(requests) :
         requests[id].status # "Pending" => requests'[id] = requests[id]
    /\ \A id \in 1..Len(exports) :
         exports[id].status # "Pending" => exports'[id] = exports[id]

\* A submitted application is never replaced or lost and keeps its form and consent
\* versions; its answers change only in the step that approves a pending request of
\* the same applicant and program, to what that request asked for; and a processed
\* request or a resolved export is never processed again
\* (process_privacy_request, complete_data_export).
RequestsSettleOnce == [][SettleStep]_applicationVars
=============================================================================

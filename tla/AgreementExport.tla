-------------------------- MODULE AgreementExport --------------------------
(***************************************************************************)
(* contracts/mentorship-agreement-export: the registered history of an     *)
(* agreement (amendments, approvals, sessions and their money) and         *)
(* rate-limited, expiring grants by which a party downloads it, every use  *)
(* of which is logged in a bounded audit trail.                            *)
(*                                                                         *)
(* The model starts after initialize.  The lists of amendments, sessions   *)
(* and audit entries are only appended to and counted, and are counts.     *)
(***************************************************************************)
EXTENDS Integers, FiniteSets, Storage

CONSTANTS
    Admin, Registrars, ExportPairs, Persons, ExportedIds, GrantIds,
    TermsVersions, SessionMoney, \* <<gross, fees>> of a session
    InitialExportPolicy, ExportPolicies, \* <<exports per window, window, grant ttl>>
    MinExportWindow, MaxExportWindow, MinGrantTtl, MaxGrantTtl,
    MAX_AMENDMENTS, MAX_APPROVALS, MAX_SESSION_SUMMARIES, MAX_AUDIT_ENTRIES, MaxI128

VARIABLES
    now,
    exportRegistrar, \* DataKey::Registrar
    exportPolicy,    \* DataKey::Policy
    records,         \* DataKey::Agreement: id -> agreement record
    grants,          \* DataKey::Grant: id -> grant
    quotas,          \* DataKey::ExportQuota: requester -> quota
    audit            \* DataKey::Audit: agreement -> number of entries

exportVars == <<exportRegistrar, exportPolicy, records, grants, quotas, audit>>

AgreementRecord ==
    [mentor : Persons, mentee : Persons, terms_version : Nat, amendments : Nat,
     approvals : SUBSET (Persons \X Nat), summaries : Nat, gross : Nat, fees : Nat, net : Nat]
ExportGrant == [agreement : ExportedIds, requester : Persons, created : Nat, expires : Nat]
ExportQuota == [started : Nat, used : Nat]

ValidatePolicy(p) ==
    /\ p[1] # 0
    /\ p[2] \in MinExportWindow..MaxExportWindow
    /\ p[3] \in MinGrantTtl..MaxGrantTtl

Init ==
    /\ exportRegistrar = Admin
    /\ exportPolicy = InitialExportPolicy
    /\ records = Empty
    /\ grants = Empty
    /\ quotas = Empty
    /\ audit = Empty

RequireAdmin(caller) == caller = Admin
RequireRegistrar(caller) == caller = exportRegistrar
IsParty(caller, id) == Has(records, id) /\ caller \in {records[id].mentor, records[id].mentee}

SetRegistrar(caller, who) ==
    /\ RequireAdmin(caller)
    /\ exportRegistrar' = who
    /\ UNCHANGED <<exportPolicy, records, grants, quotas, audit>>

SetPolicy(caller, p) ==
    /\ RequireAdmin(caller)
    /\ ValidatePolicy(p)
    /\ exportPolicy' = p
    /\ UNCHANGED <<exportRegistrar, records, grants, quotas, audit>>

RegisterAgreement(caller, id, mentor, mentee, version) ==
    /\ RequireRegistrar(caller)
    /\ ~Has(records, id)
    /\ mentor # mentee
    /\ records' = Set(records, id,
           [mentor |-> mentor, mentee |-> mentee, terms_version |-> version,
            amendments |-> 0, approvals |-> {}, summaries |-> 0,
            gross |-> 0, fees |-> 0, net |-> 0])
    /\ UNCHANGED <<exportRegistrar, exportPolicy, grants, quotas, audit>>

RecordApproval(caller, id) ==
    /\ IsParty(caller, id)
    /\ <<caller, records[id].terms_version>> \notin records[id].approvals
    /\ Cardinality(records[id].approvals) < MAX_APPROVALS
    /\ records' = [records EXCEPT
           ![id].approvals = @ \cup {<<caller, records[id].terms_version>>}]
    /\ UNCHANGED <<exportRegistrar, exportPolicy, grants, quotas, audit>>

RecordAmendment(caller, id, version) ==
    /\ RequireRegistrar(caller)
    /\ Has(records, id)
    /\ version > records[id].terms_version
    /\ records[id].amendments < MAX_AMENDMENTS
    /\ records' = [records EXCEPT ![id].amendments = @ + 1, ![id].terms_version = version]
    /\ UNCHANGED <<exportRegistrar, exportPolicy, grants, quotas, audit>>

\* The sums are checked.
RecordSessionSummary(caller, id, money) ==
    /\ RequireRegistrar(caller)
    /\ money[1] >= 0 /\ money[2] >= 0 /\ money[2] <= money[1]
    /\ Has(records, id)
    /\ records[id].summaries < MAX_SESSION_SUMMARIES
    /\ records[id].gross + money[1] <= MaxI128
    /\ records' = [records EXCEPT
           ![id].summaries = @ + 1, ![id].gross = @ + money[1], ![id].fees = @ + money[2],
           ![id].net = @ + (money[1] - money[2])]
    /\ UNCHANGED <<exportRegistrar, exportPolicy, grants, quotas, audit>>

\* Fault: a window that has elapsed starts again with the exports used before.
FaultCurrentQuota(who) ==
    LET q == Get(quotas, who, [started |-> now, used |-> 0]) IN
    IF now - q.started >= exportPolicy[2] THEN [q EXCEPT !.started = now] ELSE q
CurrentQuota(who) ==
    LET q == Get(quotas, who, [started |-> now, used |-> 0]) IN
    IF now - q.started >= exportPolicy[2] THEN [started |-> now, used |-> 0] ELSE q

PushAudit(id) ==
    /\ Get(audit, id, 0) < MAX_AUDIT_ENTRIES
    /\ audit' = Set(audit, id, Get(audit, id, 0) + 1)

\* A repeated request returns the stored grant and writes nothing.
RequestExport(caller, id, grant) ==
    /\ IsParty(caller, id)
    /\ ~Has(grants, grant)
    /\ CurrentQuota(caller).used < exportPolicy[1]
    /\ quotas' = Set(quotas, caller, [CurrentQuota(caller) EXCEPT !.used = @ + 1])
    /\ grants' = Set(grants, grant,
           [agreement |-> id, requester |-> caller, created |-> now,
            expires |-> now + exportPolicy[3]])
    /\ PushAudit(id)
    /\ UNCHANGED <<exportRegistrar, exportPolicy, records>>

\* A download returns the record as it is now.
GetExport(caller, grant) ==
    /\ Has(grants, grant)
    /\ caller = grants[grant].requester
    /\ now <= grants[grant].expires
    /\ PushAudit(grants[grant].agreement)
    /\ UNCHANGED <<exportRegistrar, exportPolicy, records, grants, quotas>>

Next ==
    \/ \E caller \in Registrars \cup {Admin} :
           \/ \E who \in Registrars \cup {Admin} : SetRegistrar(caller, who)
           \/ \E p \in ExportPolicies : SetPolicy(caller, p)
           \/ \E id \in ExportedIds :
                  \/ \E pair \in ExportPairs, version \in TermsVersions :
                         RegisterAgreement(caller, id, pair[1], pair[2], version)
                  \/ \E version \in TermsVersions : RecordAmendment(caller, id, version)
                  \/ \E money \in SessionMoney : RecordSessionSummary(caller, id, money)
    \/ \E caller \in Persons :
           \/ \E id \in ExportedIds :
                  \/ RecordApproval(caller, id)
                  \/ \E grant \in GrantIds : RequestExport(caller, id, grant)
           \/ \E grant \in GrantIds : GetExport(caller, grant)

-----------------------------------------------------------------------------
(* Properties *)

\* Every stored value stays in its type.
TypeOK ==
    /\ \A id \in DOMAIN records : records[id] \in AgreementRecord
    /\ \A g \in DOMAIN grants : grants[g] \in ExportGrant
    /\ \A who \in DOMAIN quotas : quotas[who] \in ExportQuota

\* A requester's quota counts the grants since its window started, whatever policies were
\* in force: none before, all after, and those of that very instant except where a shorter
\* window made it start again then.  Every grant left an entry in the audit trail.
QuotaExact ==
    /\ \A who \in DOMAIN quotas :
         LET own == {g \in DOMAIN grants : grants[g].requester = who}
         IN  /\ quotas[who].used <= Cardinality({g \in own : grants[g].created >= quotas[who].started})
             /\ quotas[who].used >= Cardinality({g \in own : grants[g].created > quotas[who].started})
    /\ \A id \in ExportedIds :
         Cardinality({g \in DOMAIN grants : grants[g].agreement = id}) <= Get(audit, id, 0)

\* The money of the record adds up, and an approval is never counted for terms the
\* approver has not seen: it names a version the agreement had.
RecordAddsUp ==
    \A id \in DOMAIN records :
        /\ records[id].net = records[id].gross - records[id].fees
        /\ records[id].net >= 0
        /\ \A a \in records[id].approvals : a[2] <= records[id].terms_version
=============================================================================

------------------------------ MODULE Rematch ------------------------------
(***************************************************************************)
(* contracts/mentorship-rematch: a party of a match asks for another       *)
(* mentor; a coordinator reviews the request, proposes a successor that    *)
(* the mentee approves, and closes or supersedes the match unless a case   *)
(* is open.  The model starts after initialize.  Hashes, reasons and the   *)
(* agreement id are stored and never read; a request's creation is         *)
(* repeated without effect.                                                *)
(***************************************************************************)
EXTENDS Integers, FiniteSets, Storage

CONSTANTS
    Admin, Officers,             \* addresses that become registrar or coordinator
    RematchPairs,                \* the <<mentor, mentee>> pairs that are registered
    Successors, Persons,
    MatchIds, RequestIds,
    InitialWindow, Windows,      \* proposal windows passed to initialize and by the admin
    MinWindow, MaxWindow, MAX_REQUESTS_PER_MATCH, MAX_COORDINATORS,
    NoAddress

VARIABLES
    now,
    rematchRegistrar, \* DataKey::Registrar
    coordinators,     \* DataKey::Coordinators
    window,           \* DataKey::ProposalWindow
    matches,          \* DataKey::Match: id -> match
    rematchRequests,  \* DataKey::Request: id -> request
    caseOpen,         \* DataKey::CaseFlags: matches with a financial or safety case open
    stats             \* DataKey::Stats

rematchVars == <<rematchRegistrar, coordinators, window, matches, rematchRequests,
                 caseOpen, stats>>

MatchRecord ==
    [mentor : Persons, mentee : Persons, status : {"Active", "Closed", "Superseded"},
     successor : MatchIds \cup {NoAddress}, supersedes : MatchIds \cup {NoAddress}]
LiveStatus == {"Open", "InReview", "SuccessorProposed", "ApprovedForClosure"}
RematchRequest ==
    [match : MatchIds, status : LiveStatus \cup {"Rejected", "Closed", "Superseded"},
     successor : Successors \cup {NoAddress}, expires : Nat]

Init ==
    /\ rematchRegistrar = Admin
    /\ coordinators = {Admin}
    /\ window = InitialWindow
    /\ matches = Empty
    /\ rematchRequests = Empty
    /\ caseOpen = {}
    /\ stats = [total |-> 0, open |-> 0, closed |-> 0, superseded |-> 0]

RequireAdmin(caller) == caller = Admin
RequireRegistrar(caller) == caller = rematchRegistrar
RequireCoordinator(caller) == caller \in coordinators

-----------------------------------------------------------------------------
(* Officers, matches and cases *)

RegisterCoordinator(caller, who) ==
    /\ RequireAdmin(caller)
    /\ who \notin coordinators
    /\ Cardinality(coordinators) < MAX_COORDINATORS
    /\ coordinators' = coordinators \cup {who}
    /\ UNCHANGED <<rematchRegistrar, window, matches, rematchRequests, caseOpen, stats>>

RevokeCoordinator(caller, who) ==
    /\ RequireAdmin(caller)
    /\ who \in coordinators
    /\ coordinators' = coordinators \ {who}
    /\ UNCHANGED <<rematchRegistrar, window, matches, rematchRequests, caseOpen, stats>>

SetRegistrar(caller, who) ==
    /\ RequireAdmin(caller)
    /\ rematchRegistrar' = who
    /\ UNCHANGED <<coordinators, window, matches, rematchRequests, caseOpen, stats>>

SetProposalWindow(caller, new) ==
    /\ RequireAdmin(caller)
    /\ new \in MinWindow..MaxWindow
    /\ window' = new
    /\ UNCHANGED <<rematchRegistrar, coordinators, matches, rematchRequests, caseOpen, stats>>

NewMatch(mentor, mentee, old) ==
    [mentor |-> mentor, mentee |-> mentee, status |-> "Active",
     successor |-> NoAddress, supersedes |-> old]

RegisterMatch(caller, id, mentor, mentee) ==
    /\ RequireRegistrar(caller)
    /\ ~Has(matches, id)
    /\ mentor # mentee
    /\ matches' = Set(matches, id, NewMatch(mentor, mentee, NoAddress))
    /\ stats' = [stats EXCEPT !.total = @ + 1]
    /\ UNCHANGED <<rematchRegistrar, coordinators, window, rematchRequests, caseOpen>>

SetCaseFlags(caller, id, open) ==
    /\ RequireCoordinator(caller)
    /\ Has(matches, id)
    /\ caseOpen' = IF open THEN caseOpen \cup {id} ELSE caseOpen \ {id}
    /\ UNCHANGED <<rematchRegistrar, coordinators, window, matches, rematchRequests, stats>>

RequireNoOpenCases(id) == id \notin caseOpen

-----------------------------------------------------------------------------
(* Requests *)

RequestsOf(id) == {r \in DOMAIN rematchRequests : rematchRequests[r].match = id}

\* Fault: a request that already has an approved successor does not count as open.
FaultRematchOpen(id) ==
    \E r \in RequestsOf(id) : rematchRequests[r].status \in LiveStatus \ {"ApprovedForClosure"}
RematchOpen(id) == \E r \in RequestsOf(id) : rematchRequests[r].status \in LiveStatus

RequestRematch(caller, id, r) ==
    /\ Has(matches, id)
    /\ matches[id].status = "Active"
    /\ caller \in {matches[id].mentor, matches[id].mentee}
    /\ ~Has(rematchRequests, r)
    /\ Cardinality(RequestsOf(id)) < MAX_REQUESTS_PER_MATCH
    /\ ~RematchOpen(id)
    /\ rematchRequests' = Set(rematchRequests, r,
           [match |-> id, status |-> "Open", successor |-> NoAddress, expires |-> 0])
    /\ stats' = [stats EXCEPT !.open = @ + 1]
    /\ UNCHANGED <<rematchRegistrar, coordinators, window, matches, caseOpen>>

StartReview(caller, r) ==
    /\ RequireCoordinator(caller)
    /\ Has(rematchRequests, r)
    /\ rematchRequests[r].status = "Open"
    /\ rematchRequests' = [rematchRequests EXCEPT ![r].status = "InReview"]
    /\ UNCHANGED <<rematchRegistrar, coordinators, window, matches, caseOpen, stats>>

\* Counters use saturating_sub.
Settle(s) == [s EXCEPT !.open = IF @ > 0 THEN @ - 1 ELSE 0, !.closed = @ + 1]

RejectRequest(caller, r) ==
    /\ RequireCoordinator(caller)
    /\ Has(rematchRequests, r)
    /\ rematchRequests[r].status \in {"Open", "InReview"}
    /\ rematchRequests' = [rematchRequests EXCEPT ![r].status = "Rejected"]
    /\ stats' = Settle(stats)
    /\ UNCHANGED <<rematchRegistrar, coordinators, window, matches, caseOpen>>

\* A new proposal replaces one that is still open.
ProposeSuccessor(caller, r, who) ==
    /\ RequireCoordinator(caller)
    /\ Has(rematchRequests, r)
    /\ rematchRequests[r].status \in {"InReview", "SuccessorProposed"}
    /\ LET m == matches[rematchRequests[r].match] IN who \notin {m.mentor, m.mentee}
    /\ rematchRequests' = [rematchRequests EXCEPT
           ![r].status = "SuccessorProposed", ![r].successor = who, ![r].expires = now + window]
    /\ UNCHANGED <<rematchRegistrar, coordinators, window, matches, caseOpen, stats>>

\* Approving again is accepted and writes nothing.
ApproveSuccessor(caller, r) ==
    /\ Has(rematchRequests, r)
    /\ caller = matches[rematchRequests[r].match].mentee
    /\ rematchRequests[r].status = "SuccessorProposed"
    /\ now <= rematchRequests[r].expires
    /\ rematchRequests' = [rematchRequests EXCEPT ![r].status = "ApprovedForClosure"]
    /\ UNCHANGED <<rematchRegistrar, coordinators, window, matches, caseOpen, stats>>

CloseEngagement(caller, r) ==
    LET id == rematchRequests[r].match IN
    /\ RequireCoordinator(caller)
    /\ Has(rematchRequests, r)
    /\ rematchRequests[r].status \in {"InReview", "SuccessorProposed", "ApprovedForClosure"}
    /\ RequireNoOpenCases(id)
    /\ matches' = [matches EXCEPT ![id].status = "Closed"]
    /\ rematchRequests' = [rematchRequests EXCEPT ![r].status = "Closed"]
    /\ stats' = Settle(stats)
    /\ UNCHANGED <<rematchRegistrar, coordinators, window, caseOpen>>

ApplySuccessor(caller, r, new) ==
    LET id == rematchRequests[r].match
        m  == matches[id]
    IN  /\ RequireCoordinator(caller)
        /\ Has(rematchRequests, r)
        /\ rematchRequests[r].status = "ApprovedForClosure"
        /\ RequireNoOpenCases(id)
        /\ ~Has(matches, new)
        /\ matches' = Set([matches EXCEPT ![id].status = "Superseded", ![id].successor = new],
                          new, NewMatch(rematchRequests[r].successor, m.mentee, id))
        /\ rematchRequests' = [rematchRequests EXCEPT ![r].status = "Superseded"]
        /\ stats' = [Settle(stats) EXCEPT !.total = @ + 1, !.superseded = @ + 1]
        /\ UNCHANGED <<rematchRegistrar, coordinators, window, caseOpen>>

Next ==
    \/ \E caller \in Officers \cup {Admin} :
           \/ \E who \in Officers \cup {Admin} :
                  \/ RegisterCoordinator(caller, who)
                  \/ RevokeCoordinator(caller, who)
                  \/ SetRegistrar(caller, who)
           \/ \E new \in Windows : SetProposalWindow(caller, new)
           \/ \E id \in MatchIds :
                  \/ \E p \in RematchPairs : RegisterMatch(caller, id, p[1], p[2])
                  \/ \E open \in BOOLEAN : SetCaseFlags(caller, id, open)
           \/ \E r \in RequestIds :
                  \/ StartReview(caller, r)
                  \/ RejectRequest(caller, r)
                  \/ \E who \in Successors : ProposeSuccessor(caller, r, who)
                  \/ CloseEngagement(caller, r)
                  \/ \E new \in MatchIds : ApplySuccessor(caller, r, new)
    \/ \E caller \in Persons, r \in RequestIds :
           \/ \E id \in MatchIds : RequestRematch(caller, id, r)
           \/ ApproveSuccessor(caller, r)

-----------------------------------------------------------------------------
(* Properties *)

\* Every stored value stays in its type.
TypeOK ==
    /\ coordinators \subseteq Officers \cup {Admin}
    /\ \A id \in DOMAIN matches : matches[id] \in MatchRecord
    /\ \A r \in DOMAIN rematchRequests : rematchRequests[r] \in RematchRequest

\* The counters of stats() are exact: none is lost by a saturating subtraction, and no
\* request is settled twice.
StatsExact ==
    LET requests(S) == Cardinality({r \in DOMAIN rematchRequests : rematchRequests[r].status \in S})
    IN  /\ stats.total = Cardinality(DOMAIN matches)
        /\ stats.open = requests(LiveStatus)
        /\ stats.closed = requests({"Rejected", "Closed", "Superseded"})
        /\ stats.superseded =
             Cardinality({id \in DOMAIN matches : matches[id].status = "Superseded"})

\* A live request is the only live one of its match, and its match is still active, so
\* no match is ended twice; a superseded match and its successor name each other, and
\* the mentee stays the same.
OneLiveRequest ==
    /\ \A r \in DOMAIN rematchRequests :
         rematchRequests[r].status \in LiveStatus =>
             /\ matches[rematchRequests[r].match].status = "Active"
             /\ \A q \in RequestsOf(rematchRequests[r].match) :
                  rematchRequests[q].status \in LiveStatus => q = r
    /\ \A id \in DOMAIN matches :
         LET m == matches[id] IN
         m.status = "Superseded" => /\ Has(matches, m.successor)
                                    /\ matches[m.successor].supersedes = id
                                    /\ matches[m.successor].mentee = m.mentee
=============================================================================

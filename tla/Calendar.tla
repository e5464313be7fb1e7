------------------------------ MODULE Calendar ------------------------------
(***************************************************************************)
(* contracts/mentorship-calendar: an owner's connections to external       *)
(* calendars and the busy windows synced from them, each sync carrying an  *)
(* epoch.  Tokens, providers and error codes are stored and never read,    *)
(* and are left out; the payload hash is a model value.                    *)
(***************************************************************************)
EXTENDS Integers, Sequences, FiniteSets, Functions, Storage

CONSTANTS
    Owners, ConnectionIds,
    ScopeMasks,                  \* the scopes an owner may request, as sets of scope bits
    Expiries, Epochs, PayloadHashes, ZeroHash,
    BusyLists,                   \* the lists of <<start, end>> windows a sync may carry
    MAX_CONNECTIONS_PER_OWNER, MAX_BUSY_WINDOWS, MaxWindowSpan, MaxSyncHorizon

VARIABLES
    now,
    connections, \* DataKey::Connection: <<owner, id>> -> connection
    busy         \* DataKey::Busy: <<owner, id>> -> normalized windows, absent when none

calendarVars == <<connections, busy>>
Seqs == INSTANCE SequencesExt

\* SCOPE_FREE_BUSY and SCOPE_TIMEZONE; every other bit is refused.
ALLOWED_SCOPES == {"FREE_BUSY", "TIMEZONE"}

Connection ==
    [status : {"Active", "Revoked", "Expired"}, epoch : Epochs \cup {0},
     payload : PayloadHashes \cup {ZeroHash}, expires : Expiries, degraded : BOOLEAN]

Init == connections = Empty /\ busy = Empty

RequireScope(scopes) == scopes \subseteq ALLOWED_SCOPES /\ "FREE_BUSY" \in scopes

\* The selection sort: each place in turn is given the first of the earliest windows left.
FirstEarliest(list, i) ==
    CHOOSE j \in i..Len(list) :
        /\ \A k \in i..Len(list) : list[j][1] <= list[k][1]
        /\ \A k \in i..(j - 1) : list[j][1] < list[k][1]
SwapLeast(list, i) ==
    LET j == FirstEarliest(list, i) IN [list EXCEPT ![i] = list[j], ![j] = list[i]]

\* Fault: windows are merged without being sorted first.
FaultByStart(windows) == windows
ByStart(windows) == Seqs!FoldLeftDomain(SwapLeast, windows, windows)

MergeBusy(list, w) ==
    IF list # <<>> /\ w[1] <= Seqs!Last(list)[2]
    THEN [list EXCEPT ![Len(list)][2] = IF w[2] > @ THEN w[2] ELSE @]
    ELSE Append(list, w)

Normalize(windows) == Seqs!FoldLeft(MergeBusy, <<>>, ByStart(windows))

PutBusy(c, windows) == IF windows = <<>> THEN Remove(busy, {c}) ELSE Set(busy, c, windows)

ConnectionsOf(owner) == {c \in DOMAIN connections : c[1] = owner}

Connect(c, scopes, expires) ==
    /\ RequireScope(scopes)
    /\ expires > now
    /\ ~Has(connections, c)
    /\ Cardinality(ConnectionsOf(c[1])) < MAX_CONNECTIONS_PER_OWNER
    /\ connections' = Set(connections, c,
           [status |-> "Active", epoch |-> 0, payload |-> ZeroHash, expires |-> expires,
            degraded |-> FALSE])
    /\ UNCHANGED busy

IsActive(c) == Has(connections, c) /\ connections[c].status = "Active"

\* Fault: an epoch that was synced before is accepted again.
FaultNewerEpoch(c, epoch) == epoch >= connections[c].epoch
NewerEpoch(c, epoch) == epoch > connections[c].epoch

\* A repeated sync (same epoch and payload) is accepted and writes nothing.
RecordBusy(c, epoch, payload, windows) ==
    /\ IsActive(c)
    /\ connections[c].expires > now
    /\ <<epoch, payload>> # <<connections[c].epoch, connections[c].payload>>
    /\ NewerEpoch(c, epoch)
    /\ Len(windows) <= MAX_BUSY_WINDOWS
    /\ \A w \in Range(windows) :
         /\ w[1] # 0 /\ w[1] < w[2]
         /\ w[2] - w[1] <= MaxWindowSpan
         /\ w[2] <= now + MaxSyncHorizon
    /\ busy' = PutBusy(c, Normalize(windows))
    /\ connections' = [connections EXCEPT
           ![c].epoch = epoch, ![c].payload = payload, ![c].degraded = FALSE]

MarkSyncFailed(c) ==
    /\ IsActive(c)
    /\ connections' = [connections EXCEPT ![c].degraded = TRUE]
    /\ UNCHANGED busy

ExpireConnection(c) ==
    /\ IsActive(c)
    /\ connections[c].expires <= now
    /\ connections' = [connections EXCEPT ![c].status = "Expired", ![c].degraded = FALSE]
    /\ busy' = PutBusy(c, <<>>)

Disconnect(c) ==
    /\ Has(connections, c)
    /\ connections[c].status # "Revoked"
    /\ connections' = [connections EXCEPT ![c].status = "Revoked", ![c].degraded = FALSE]
    /\ busy' = PutBusy(c, <<>>)

Next ==
    \E c \in Owners \X ConnectionIds :
        \/ \E scopes \in ScopeMasks, expires \in Expiries : Connect(c, scopes, expires)
        \/ \E epoch \in Epochs, payload \in PayloadHashes, windows \in BusyLists :
               RecordBusy(c, epoch, payload, windows)
        \/ MarkSyncFailed(c)
        \/ ExpireConnection(c)
        \/ Disconnect(c)

-----------------------------------------------------------------------------
(* Properties *)

\* Every stored connection stays in its type.
TypeOK == \A c \in DOMAIN connections : connections[c] \in Connection

Units(windows) == UNION {w[1]..(w[2] - 1) : w \in Range(windows)}

\* What is stored of an owner's calendar is canonical (sorted, disjoint, not touching) and
\* covers exactly the time one of the imported lists covers, in whatever order that list
\* was, and it is only stored of a connection that is still active: revoking or expiring
\* one deletes it.
CanonicalBusy ==
    \A c \in DOMAIN busy :
        /\ connections[c].status = "Active"
        /\ busy[c] # <<>>
        /\ \A i \in 2..Len(busy[c]) : busy[c][i - 1][2] < busy[c][i][1]
        /\ \E windows \in BusyLists : Units(busy[c]) = Units(windows)

\* A sync that arrives late never replaces newer windows: they change only with a
\* larger epoch, or are deleted with the connection.
SyncsInOrder ==
    [][\A c \in DOMAIN connections :
         /\ connections'[c].epoch >= connections[c].epoch
         /\ Get(busy', c, <<>>) # Get(busy, c, <<>>) =>
                \/ connections'[c].epoch > connections[c].epoch
                \/ connections'[c].status # "Active"]_calendarVars
=============================================================================

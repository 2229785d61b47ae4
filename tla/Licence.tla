------------------------------ MODULE Licence ------------------------------
(***************************************************************************)
(* Licences, the seats of their devices, and the offline tokens a terminal *)
(* starts on (backend licensing/services.py and views.py; desktop          *)
(* bootstrap.py, license_gate.py, offline_token.py).  An activation locks  *)
(* the row of the licence.  Nothing else does: an administrator's request  *)
(* reads a row and saves it later, and a heartbeat bumps token_seq by one  *)
(* statement and reads it back by another.                                 *)
(***************************************************************************)
EXTENDS Integers, FiniteSets

CONSTANTS
    Licences,
    DeviceNames,          \* device names: one row per licence and name
    Nobody,
    Seats,              \* max_devices
    Lifetime,           \* how long a licence runs before it expires
    GraceAfter,         \* license.grace_days_after_expiry
    GraceOffline,       \* license.offline_grace_hours
    Slow,               \* terminals whose clock is one behind
    MaxTime, MaxTokens, \* bounds: the clock, the tokens of a licence, and what
    MaxActs             \* the administrator and the clock do

ASSUME LicenceAssumption ==
    /\ Nobody \notin DeviceNames \cup Licences
    /\ IsFiniteSet(DeviceNames) /\ Slow \subseteq DeviceNames
    /\ {Seats, Lifetime, GraceAfter, GraceOffline, MaxTime, MaxTokens, MaxActs}
         \subseteq Nat

VARIABLES
    licence,      \* status, expires_at and token_seq
    device,       \* Device.status of each licence and name
    revived,      \* history: seats an administrator gave back to a revoked device
    rowLock,      \* the activation that holds the row of each licence
    request,         \* the request of each terminal, and what it read
    desk,         \* the administrator's request, and what it read
    credential,   \* on the terminal: the licence it is a device of
    token,        \* on the terminal: the stored offline token
    ratchet,      \* on the terminal: highest_seq and highest_server_time
    gate,         \* on the terminal: the last decision
    clock, acts

licenceVars == <<licence, device, revived, rowLock, request, desk,
                 credential, token, ratchet, gate, clock, acts>>

NoToken == [by |-> Nobody, seq |-> 0, time |-> 0, status |-> "PENDING", opens |-> FALSE]
NoRatchet == [seq |-> -1, time |-> -1, by |-> {}]
AtRest == [step |-> "rest", by |-> Nobody, saw |-> "none",
           status |-> "PENDING", seq |-> 0, opens |-> FALSE]
NoDesk == [kind |-> "none", on |-> Nobody, saw |-> "PENDING"]

LicenceStatus == {"PENDING", "ACTIVE", "SUSPENDED", "REVOKED"}
DeviceStatus  == {"none", "ACTIVE", "SUSPENDED", "REVOKED"}
Decisions == {"none", "NOT_ACTIVATED", "ALLOWED", "RESTRICTED", "NO_TOKEN", "STOPPED",
              "TOKEN_REPLAYED", "CLOCK_ROLLED_BACK", "OFFLINE_GRACE_ELAPSED"}

LicenceRow == [status : LicenceStatus, expires : Nat, seq : 0 .. MaxTokens]
GateRequest ==
    [step : {"rest", "activate", "beat", "admitted", "advance", "stamp", "gate"},
     by : Licences \cup {Nobody}, saw : DeviceStatus,
     status : LicenceStatus, seq : 0 .. MaxTokens, opens : BOOLEAN]
DeskRequest == [kind : {"none", "renew", "revoke"}, on : Licences \cup {Nobody},
                saw : LicenceStatus]
OfflineToken == [by : Licences \cup {Nobody}, seq : 0 .. MaxTokens, time : 0 .. MaxTime,
                 status : LicenceStatus, opens : BOOLEAN]

LicenceTypeOK ==
    /\ licence \in [Licences -> LicenceRow]
    /\ device \in [Licences -> [DeviceNames -> DeviceStatus]]
    /\ revived \subseteq Licences \X DeviceNames
    /\ rowLock \in [Licences -> DeviceNames \cup {Nobody}]
    /\ request \in [DeviceNames -> GateRequest]
    /\ desk \in DeskRequest
    /\ credential \in [DeviceNames -> Licences \cup {Nobody}]
    /\ token \in [DeviceNames -> OfflineToken]
    /\ ratchet \in [DeviceNames -> [seq : Int, time : Int, by : SUBSET Licences]]
    /\ gate \in [DeviceNames -> Decisions]
    /\ clock \in 0 .. MaxTime /\ acts \in 0 .. MaxActs

LicenceInit ==
    /\ licence = [l \in Licences |-> [status |-> "PENDING", expires |-> Lifetime, seq |-> 0]]
    /\ device = [l \in Licences |-> [t \in DeviceNames |-> "none"]]
    /\ revived = {}
    /\ rowLock = [l \in Licences |-> Nobody]
    /\ request = [t \in DeviceNames |-> AtRest]
    /\ desk = NoDesk
    /\ credential = [t \in DeviceNames |-> Nobody]
    /\ token = [t \in DeviceNames |-> NoToken]
    /\ ratchet = [t \in DeviceNames |-> NoRatchet]
    /\ gate = [t \in DeviceNames |-> "none"]
    /\ clock = 0 /\ acts = 0

local == <<credential, token, ratchet, gate>>

-----------------------------------------------------------------------------
(* Activation.                                                             *)

Live(l) == {t \in DeviceNames : device[l][t] \in {"ACTIVE", "SUSPENDED"}}
SeatFree(l) == Cardinality(Live(l)) < Seats

\* _assert_license_usable.
Usable(l) ==
    licence[l].status \notin {"SUSPENDED", "REVOKED"} /\ licence[l].expires > clock

Unlocked(l) == TRUE
RowIsFree(l) == rowLock[l] = Nobody

\* The lock, and every check: a name that exists keeps its seat.
BeginActivation(t, l) ==
    /\ request[t] = AtRest
    /\ RowIsFree(l) /\ Usable(l)
    /\ device[l][t] # "REVOKED"
    /\ device[l][t] = "none" => SeatFree(l)
    /\ rowLock' = [rowLock EXCEPT ![l] = t]
    /\ request' = [request EXCEPT ![t] = [AtRest EXCEPT !.step = "activate", !.by = l,
                                                  !.saw = device[l][t]]]
    /\ UNCHANGED <<licence, device, revived, desk, local, clock, acts>>

\* evaluate_state: what the stage allows.
OpensOrders(status, expires) ==
    status \notin {"SUSPENDED", "REVOKED"} /\ clock =< expires + GraceAfter

Minted(l, seq, status, opens) ==
    [by |-> l, seq |-> seq, time |-> clock, status |-> status, opens |-> opens]

Activated(status) == IF status = "PENDING" THEN "ACTIVE" ELSE status

\* device.save() writes every column, the status it read among them.
FinishActivation(t) ==
    LET l == request[t].by
        status == Activated(licence[l].status)
    IN
    /\ request[t].step = "activate" /\ licence[l].seq < MaxTokens
    /\ device' = [device EXCEPT ![l][t] = IF request[t].saw = "none" THEN "ACTIVE"
                                          ELSE request[t].saw]
    /\ licence' = [licence EXCEPT ![l].seq = @ + 1, ![l].status = status]
    /\ rowLock' = [k \in Licences |-> IF rowLock[k] = t THEN Nobody ELSE rowLock[k]]
    /\ request' = [request EXCEPT ![t] = AtRest]
    /\ \/ /\ credential' = [credential EXCEPT ![t] = l]          \* complete_activation
          /\ token' = [token EXCEPT ![t] =
               Minted(l, licence[l].seq + 1, status, OpensOrders(status, licence[l].expires))]
       \/ UNCHANGED <<credential, token>>                         \* the answer was lost
    /\ UNCHANGED <<revived, desk, ratchet, gate, clock, acts>>

-----------------------------------------------------------------------------
(* bootstrap.start: authenticate, beat, evaluate the gate.                 *)

Authenticate(t) ==
    /\ request[t] = AtRest /\ credential[t] # Nobody
    /\ device[credential[t]][t] = "ACTIVE"
    /\ request' = [request EXCEPT ![t] = [AtRest EXCEPT !.step = "beat", !.by = credential[t]]]
    /\ UNCHANGED <<licence, device, revived, rowLock, desk, local, clock, acts>>

\* F("token_seq") + 1, in the database.
NextSeq(now, read) == now + 1

\* The middleware knows active devices only.
Admitted(t) ==
    /\ request[t].step = "beat" /\ device[request[t].by][t] = "ACTIVE"
    /\ request' = [request EXCEPT ![t].step = "admitted"]
    /\ UNCHANGED <<licence, device, revived, rowLock, desk, local, clock, acts>>

\* The update waits for an activation; status and expiry were read before it.
Beat(t) ==
    LET l == request[t].by IN
    /\ request[t].step = "admitted"
    /\ device[l][t] \in {"ACTIVE", "SUSPENDED"}
    /\ request' = [request EXCEPT ![t].step = "advance",
                  ![t].status = licence[l].status, ![t].seq = licence[l].seq,
                  ![t].opens = OpensOrders(licence[l].status, licence[l].expires)]
    /\ UNCHANGED <<licence, device, revived, rowLock, desk, local, clock, acts>>

AdvanceSeq(t) ==
    LET l == request[t].by IN
    /\ request[t].step = "advance"
    /\ RowIsFree(l) /\ licence[l].seq < MaxTokens
    /\ licence' = [licence EXCEPT ![l].seq = NextSeq(@, request[t].seq)]
    /\ request' = [request EXCEPT ![t].step = "stamp"]
    /\ UNCHANGED <<device, revived, rowLock, desk, local, clock, acts>>

\* refresh_from_db reads token_seq alone.
Stamp(t) ==
    LET l == request[t].by IN
    /\ request[t].step = "stamp"
    /\ token' = [token EXCEPT ![t] =
                   Minted(l, licence[l].seq, request[t].status, request[t].opens)]
    /\ request' = [request EXCEPT ![t] = [AtRest EXCEPT !.step = "gate"]]
    /\ UNCHANGED <<licence, device, revived, rowLock, desk, credential, ratchet, gate, clock, acts>>

\* No network, at any step, or an answer that start() passes over: the row is
\* gone, or suspended before it authenticates.  It goes on with the token it has.
UseCachedToken(t) ==
    /\ request[t] = AtRest \/ request[t].step \in {"beat", "admitted", "advance", "stamp"}
    /\ request' = [request EXCEPT ![t] = [AtRest EXCEPT !.step = "gate"]]
    /\ UNCHANGED <<licence, device, revived, rowLock, desk, local, clock, acts>>

\* DEVICE_REVOKED from either endpoint, and NOT_AUTHENTICATED of the middleware,
\* which does not tell a device that was suspended or reset from a revoked one.
Rejected(t) ==
    /\ \/ request[t] = AtRest /\ credential[t] # Nobody
          /\ device[credential[t]][t] = "REVOKED"
       \/ request[t].step = "beat" /\ device[request[t].by][t] # "ACTIVE"
       \/ request[t].step = "admitted" /\ device[request[t].by][t] = "REVOKED"
    /\ credential' = [credential EXCEPT ![t] = Nobody]
    /\ token' = [token EXCEPT ![t] = NoToken]
    /\ gate' = [gate EXCEPT ![t] = "NOT_ACTIVATED"]
    /\ request' = [request EXCEPT ![t] = AtRest]
    /\ UNCHANGED <<licence, device, revived, rowLock, desk, ratchet, clock, acts>>

Now(t) == IF t \in Slow THEN clock - 1 ELSE clock

\* offline_token.accept, in the order of its checks.
Refusal(t) ==
    IF token[t].seq < ratchet[t].seq THEN "TOKEN_REPLAYED"
    ELSE IF Now(t) < ratchet[t].time THEN "CLOCK_ROLLED_BACK"
    ELSE IF Now(t) > token[t].time + GraceOffline THEN "OFFLINE_GRACE_ELAPSED"
    ELSE "none"

Later(a, b) == IF a < b THEN b ELSE a

Decision(t) ==
    IF credential[t] = Nobody THEN "NOT_ACTIVATED"
    ELSE IF token[t] = NoToken THEN "NO_TOKEN"
    ELSE IF Refusal(t) # "none" THEN Refusal(t)
    ELSE IF token[t].status \in {"REVOKED", "SUSPENDED"} THEN "STOPPED"
    ELSE IF token[t].opens THEN "ALLOWED" ELSE "RESTRICTED"

\* The ratchet moves when the token was accepted, whatever it allows.
EvaluateGate(t) ==
    /\ request[t].step = "gate"
    /\ gate' = [gate EXCEPT ![t] = Decision(t)]
    /\ ratchet' = IF Decision(t) \in {"STOPPED", "ALLOWED", "RESTRICTED"}
                  THEN [ratchet EXCEPT ![t] = [seq  |-> Later(@.seq, token[t].seq),
                                               time |-> Later(@.time, token[t].time),
                                               by   |-> @.by \cup {token[t].by}]]
                  ELSE ratchet
    /\ request' = [request EXCEPT ![t] = AtRest]
    /\ UNCHANGED <<licence, device, revived, rowLock, desk, credential, token, clock, acts>>

-----------------------------------------------------------------------------
(* The administrator: one request at a time.                               *)

SetStatus(l, status) ==
    /\ RowIsFree(l)
    /\ licence' = [licence EXCEPT ![l].status = status]
    /\ UNCHANGED <<device, revived, rowLock, request, local, clock>>

MayAct == desk = NoDesk /\ acts < MaxActs /\ acts' = acts + 1

\* suspend and resume look at nothing first.
Suspend(l) == MayAct /\ SetStatus(l, "SUSPENDED") /\ UNCHANGED desk
Resume(l)  == MayAct /\ SetStatus(l, "ACTIVE") /\ UNCHANGED desk

\* The licence is saved, then the devices are updated.
Revoke(l) ==
    /\ MayAct
    /\ SetStatus(l, "REVOKED")
    /\ desk' = [NoDesk EXCEPT !.kind = "revoke", !.on = l]

RevokeDevices ==
    /\ desk.kind = "revoke"
    /\ device' = [device EXCEPT ![desk.on] =
                    [t \in DeviceNames |-> IF @[t] = "none" THEN "none" ELSE "REVOKED"]]
    /\ desk' = NoDesk
    /\ UNCHANGED <<licence, revived, rowLock, request, local, clock, acts>>

BeginRenew(l) ==
    /\ MayAct /\ licence[l].expires < MaxTime
    /\ desk' = [kind |-> "renew", on |-> l, saw |-> Activated(licence[l].status)]
    /\ UNCHANGED <<licence, device, revived, rowLock, request, local, clock>>

SaveRenewal ==
    /\ desk.kind = "renew" /\ RowIsFree(desk.on)
    /\ licence' = [licence EXCEPT ![desk.on].status = desk.saw, ![desk.on].expires = MaxTime]
    /\ desk' = NoDesk
    /\ UNCHANGED <<device, revived, rowLock, request, local, clock, acts>>

\* revoke, reset, suspend and resume of a device: whatever it was.
ActOnDevice(l, t, status) ==
    /\ MayAct /\ device[l][t] # "none"
    /\ device' = [device EXCEPT ![l][t] = status]
    /\ revived' = IF device[l][t] = "REVOKED" /\ status \in {"ACTIVE", "SUSPENDED"}
                  THEN revived \cup {<<l, t>>} ELSE revived
    /\ UNCHANGED <<licence, rowLock, request, desk, local, clock>>

Tick ==
    /\ clock < MaxTime
    /\ clock' = clock + 1
    /\ acts < MaxActs /\ acts' = acts + 1
    /\ UNCHANGED <<licence, device, revived, rowLock, request, desk, local>>

LicenceNext ==
    \/ \E t \in DeviceNames :
          \/ \E l \in Licences : BeginActivation(t, l)
          \/ FinishActivation(t)
          \/ Authenticate(t) \/ Admitted(t) \/ Beat(t) \/ AdvanceSeq(t) \/ Stamp(t)
          \/ UseCachedToken(t) \/ Rejected(t) \/ EvaluateGate(t)
    \/ \E l \in Licences :
          \/ Suspend(l) \/ Resume(l) \/ Revoke(l) \/ BeginRenew(l)
          \/ \E t \in DeviceNames, status \in DeviceStatus : ActOnDevice(l, t, status)
    \/ RevokeDevices \/ SaveRenewal \/ Tick

LicenceSpec == LicenceInit /\ [][LicenceNext]_licenceVars

-----------------------------------------------------------------------------
(* Properties.                                                             *)

\* Activations at once never sell a seat twice, whatever an administrator does
\* meanwhile: only seats given back to revoked devices may exceed the plan.
SeatsAreCounted ==
    \A l \in Licences :
        Cardinality({t \in Live(l) : <<l, t>> \notin revived}) =< Seats

\* Two heartbeats that race may be stamped with the same number, but a terminal
\* that only met one licence never takes its own token for an old one, whenever
\* its gate is asked.
OwnTokensAdvance ==
    \A t \in DeviceNames :
        Decision(t) = "TOKEN_REPLAYED" => ratchet[t].by # {token[t].by}

\* licensing/services.py, offline_token.py: the plan's seats and the tokens of
\* its terminals hold through races, clocks and administrators.
PlanAndTokensHold == SeatsAreCounted /\ OwnTokensAdvance

\* "A terminal that is online daily never encounters the mechanism", also after
\* it was activated again.
FreshTokenIsAccepted ==
    \A t \in DeviceNames : gate[t] # "TOKEN_REPLAYED"
=============================================================================

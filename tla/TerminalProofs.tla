--------------------------- MODULE TerminalProofs ---------------------------
(***************************************************************************)
(* What holds of licences, alerts, backups and the play area for every     *)
(* value of their constants, and of all that runs beside the counter       *)
(* together.                                                               *)
(***************************************************************************)
EXTENDS MCTerminals, OfflineTillProofs, FiniteSetTheorems, WellFoundedInduction, TLAPS

-----------------------------------------------------------------------------
(* Licences: seats under races, tokens under restarts.                     *)

\* The steps of a request that works on a licence.
Worked == {"activate", "beat", "admitted", "advance", "stamp"}

\* A lock is held by the activation of that licence, and every request and the
\* administrator's work on a licence there is.
LocksAreRequests ==
    /\ \A t \in DeviceNames, l \in Licences :
          rowLock[l] = t <=> request[t].step = "activate" /\ request[t].by = l
    /\ \A t \in DeviceNames : request[t].step \in Worked => request[t].by \in Licences
    /\ desk.kind # "none" => desk.on \in Licences

\* The seats that count: those in use or about to be, less those given back.
SeatsCounted(l) ==
    {t \in DeviceNames : (t \in Live(l) \/ rowLock[l] = t) /\ <<l, t>> \notin revived}

SeatsAreHeld == \A l \in Licences : Cardinality(SeatsCounted(l)) =< Seats

\* A stored token has a number its licence gave out, and what the ratchet knows of
\* one licence alone is no news to a token of that licence.
RatchetFollows ==
    /\ \A t \in DeviceNames :
          token[t].by \in Licences => token[t].seq =< licence[token[t].by].seq
    /\ \A t \in DeviceNames, l \in Licences :
          ratchet[t].by \subseteq {l} =>
             /\ ratchet[t].seq =< licence[l].seq
             /\ token[t].by = l => ratchet[t].seq =< token[t].seq
    /\ \A t \in DeviceNames : token[t].by = Nobody => token[t] = NoToken

\* The strengthening.
LicenceInv == LicenceTypeOK /\ LocksAreRequests /\ SeatsAreHeld /\ RatchetFollows

-----------------------------------------------------------------------------

\* What is counted of a licence is finite.
LEMMA SeatsAreFinite ==
    \A l : SeatsCounted(l) \subseteq DeviceNames /\ IsFiniteSet(SeatsCounted(l)) /\ Cardinality(SeatsCounted(l)) \in Nat
<1>1. \A l : SeatsCounted(l) \subseteq DeviceNames
  BY DEF SeatsCounted
<1> QED BY <1>1, LicenceAssumption, FS_Subset, FS_CardinalityType

\* A step that counts no seat more than before.
LEMMA FewerSeats ==
    ASSUME LicenceInv, \A l \in Licences : SeatsCounted(l)' \subseteq SeatsCounted(l)
    PROVE  SeatsAreHeld'
<1> SUFFICES ASSUME NEW l \in Licences PROVE Cardinality(SeatsCounted(l)') =< Seats
  BY DEF SeatsAreHeld
<1>1. IsFiniteSet(SeatsCounted(l)) /\ SeatsCounted(l)' \subseteq SeatsCounted(l)
  BY SeatsAreFinite
<1>2. Cardinality(SeatsCounted(l)') =< Cardinality(SeatsCounted(l)) /\ IsFiniteSet(SeatsCounted(l)')
  BY <1>1, FS_Subset
<1>3. Cardinality(SeatsCounted(l)) =< Seats /\ Seats \in Nat
  BY LicenceAssumption DEF LicenceInv, SeatsAreHeld
<1>4. Cardinality(SeatsCounted(l)') \in Nat /\ Cardinality(SeatsCounted(l)) \in Nat
  BY <1>1, <1>2, FS_CardinalityType
<1> QED BY <1>2, <1>3, <1>4

\* So no licence has more active devices than seats.
LEMMA SeatsAreEnough == LicenceInv => SeatsAreCounted
<1> SUFFICES ASSUME LicenceInv, NEW l \in Licences
             PROVE  Cardinality({t \in Live(l) : <<l, t>> \notin revived}) =< Seats
  BY DEF SeatsAreCounted
<1> DEFINE S == {t \in Live(l) : <<l, t>> \notin revived}
<1>1. S \subseteq SeatsCounted(l)
  BY DEF SeatsCounted, Live
<1>2. IsFiniteSet(S) /\ Cardinality(S) =< Cardinality(SeatsCounted(l))
  BY <1>1, SeatsAreFinite, FS_Subset
<1>3. Cardinality(S) \in Nat /\ Cardinality(SeatsCounted(l)) \in Nat
  BY <1>2, SeatsAreFinite, FS_CardinalityType
<1> QED BY <1>2, <1>3, LicenceAssumption DEF LicenceInv, SeatsAreHeld

\* So no token of the device itself is taken for a replay.
LEMMA TokensAdvance == LicenceInv => OwnTokensAdvance
<1> SUFFICES ASSUME LicenceInv, NEW t \in DeviceNames,
                    Decision(t) = "TOKEN_REPLAYED", ratchet[t].by = {token[t].by}
             PROVE  FALSE
  BY DEF OwnTokensAdvance
<1>1. Refusal(t) = "TOKEN_REPLAYED"
  BY DEF Decision
<1>2. token[t].seq < ratchet[t].seq
  BY <1>1 DEF Refusal
<1>3. /\ token[t].by \in Licences \cup {Nobody} /\ token[t].seq \in Nat
      /\ ratchet[t].by \subseteq Licences /\ ratchet[t].seq \in Int
  <2>1. token[t] \in OfflineToken /\ ratchet[t] \in [seq : Int, time : Int, by : SUBSET Licences]
    BY DEF LicenceInv, LicenceTypeOK
  <2> QED BY <2>1, LicenceAssumption DEF OfflineToken
<1>4. token[t].by \in Licences
  BY <1>3
<1>5. ratchet[t].seq =< token[t].seq
  BY <1>4 DEF LicenceInv, RatchetFollows
<1> QED BY <1>2, <1>3, <1>5

\* Adding one element makes a finite set larger by one at most.
LEMMA AtMostOneMore ==
    ASSUME NEW S, NEW x, IsFiniteSet(S)
    PROVE  IsFiniteSet(S \cup {x}) /\ Cardinality(S \cup {x}) =< Cardinality(S) + 1
<1>1. Cardinality(S) \in Nat
  BY FS_CardinalityType
<1>2. /\ IsFiniteSet(S \cup {x})
      /\ Cardinality(S \cup {x}) = IF x \in S THEN Cardinality(S) ELSE Cardinality(S) + 1
  BY FS_AddElement
<1> QED BY <1>1, <1>2

\* The bounds are naturals.
LEMMA LicenceBounds ==
    /\ Seats \in Nat /\ Lifetime \in Nat /\ MaxTime \in Nat /\ MaxTokens \in Nat /\ MaxActs \in Nat
    /\ IsFiniteSet(DeviceNames) /\ Nobody \notin DeviceNames \cup Licences
BY LicenceAssumption

\* The values a request, a desk and a gate begin with have their types.
LEMMA RestingValues ==
    /\ AtRest \in GateRequest /\ NoToken \in OfflineToken /\ NoDesk \in DeskRequest
    /\ NoRatchet \in [seq : Int, time : Int, by : SUBSET Licences]
<1> USE LicenceAssumption DEF LicenceStatus
<1>1. AtRest \in GateRequest
  BY DEF AtRest, GateRequest, DeviceStatus
<1>2. NoToken \in OfflineToken
  BY DEF NoToken, OfflineToken
<1>3. NoDesk \in DeskRequest
  BY DEF NoDesk, DeskRequest
<1>4. NoRatchet \in [seq : Int, time : Int, by : SUBSET Licences]
  BY DEF NoRatchet
<1> QED BY <1>1, <1>2, <1>3, <1>4

\* No device is activated at first.
LEMMA LicenceStart == LicenceInit => LicenceInv
<1> SUFFICES ASSUME LicenceInit PROVE LicenceInv
  OBVIOUS
<1> USE LicenceAssumption
<1>1. LicenceTypeOK
  BY RestingValues DEF LicenceInit, LicenceTypeOK, LicenceRow, LicenceStatus, DeviceStatus, Decisions
<1>2. LocksAreRequests
  BY DEF LicenceInit, LocksAreRequests, AtRest, NoDesk, Worked
<1>3. SeatsAreHeld
  <2> SUFFICES ASSUME NEW l \in Licences PROVE Cardinality(SeatsCounted(l)) =< Seats
    BY DEF SeatsAreHeld
  <2>1. SeatsCounted(l) = {}
    BY DEF LicenceInit, SeatsCounted, Live
  <2> QED BY <2>1, FS_EmptySet
<1>4. RatchetFollows
  BY DEF LicenceInit, RatchetFollows, NoToken, NoRatchet
<1> QED BY <1>1, <1>2, <1>3, <1>4 DEF LicenceInv

-----------------------------------------------------------------------------
(* Types.                                                                  *)

\* The steps of requests keep the types.
LEMMA RequestTypes ==
    ASSUME LicenceTypeOK, LocksAreRequests, NEW t \in DeviceNames,
           (\E l \in Licences : BeginActivation(t, l)) \/ Authenticate(t) \/ Admitted(t)
             \/ Beat(t) \/ UseCachedToken(t)
    PROVE  LicenceTypeOK'
<1>1. UNCHANGED <<licence, device, revived, desk, local, clock, acts>>
  BY DEF BeginActivation, Authenticate, Admitted, Beat, UseCachedToken
<1>2. rowLock' \in [Licences -> DeviceNames \cup {Nobody}]
  BY DEF BeginActivation, Authenticate, Admitted, Beat, UseCachedToken, LicenceTypeOK
<1>3. \E r \in GateRequest : request' = [request EXCEPT ![t] = r]
  <2>1. CASE \E l \in Licences : BeginActivation(t, l)
    <3>1. PICK l \in Licences : BeginActivation(t, l)
      BY <2>1
    <3>2. device[l][t] \in DeviceStatus
      BY DEF LicenceTypeOK
    <3>3. [AtRest EXCEPT !.step = "activate", !.by = l, !.saw = device[l][t]] \in GateRequest
      BY <3>2, RestingValues DEF GateRequest
    <3> QED BY <3>1, <3>3 DEF BeginActivation
  <2>2. CASE Authenticate(t)
    <3>1. credential[t] \in Licences \cup {Nobody}
      BY DEF LicenceTypeOK
    <3>2. [AtRest EXCEPT !.step = "beat", !.by = credential[t]] \in GateRequest
      BY <3>1, RestingValues DEF GateRequest
    <3> QED BY <2>2, <3>2 DEF Authenticate
  <2>3. CASE Beat(t)
    <3> DEFINE l == request[t].by
               opens == OpensOrders(licence[l].status, licence[l].expires)
               r == [request[t] EXCEPT !.step = "advance", !.status = licence[l].status,
                                       !.seq = licence[l].seq, !.opens = opens]
    <3>1. l \in Licences
      BY <2>3 DEF Beat, LocksAreRequests, Worked
    <3>2. licence[l] \in LicenceRow /\ opens \in BOOLEAN /\ request[t] \in GateRequest
      BY <3>1 DEF LicenceTypeOK, OpensOrders
    <3>3. r \in GateRequest
      <4> HIDE DEF opens
      <4> QED BY <3>2 DEF GateRequest, LicenceRow
    <3>4. request' = [request EXCEPT ![t] = r]
      BY <2>3 DEF Beat
    <3> QED BY <3>3, <3>4
  <2>4. CASE UseCachedToken(t)
    <3>1. [AtRest EXCEPT !.step = "gate"] \in GateRequest
      BY RestingValues DEF GateRequest
    <3> QED BY <2>4, <3>1 DEF UseCachedToken
  <2>5. CASE Admitted(t)
    <3>1. request[t] \in GateRequest
      BY DEF LicenceTypeOK
    <3>2. [request[t] EXCEPT !.step = "admitted"] \in GateRequest
      BY <3>1 DEF GateRequest
    <3> QED BY <2>5, <3>2 DEF Admitted
  <2> QED BY <2>1, <2>2, <2>3, <2>4, <2>5
<1>4. request' \in [DeviceNames -> GateRequest]
  BY <1>3 DEF LicenceTypeOK
<1> QED BY <1>1, <1>2, <1>4 DEF LicenceTypeOK, local

\* So do those that write and read offline tokens.
LEMMA TokenTypes ==
    ASSUME LicenceTypeOK, LocksAreRequests, NEW t \in DeviceNames,
           FinishActivation(t) \/ AdvanceSeq(t) \/ Stamp(t) \/ Rejected(t)
    PROVE  LicenceTypeOK'
<1> USE LicenceAssumption
<1> DEFINE l == request[t].by
<1>1. request[t] \in GateRequest /\ clock \in 0 .. MaxTime
  BY DEF LicenceTypeOK
<1>2. CASE FinishActivation(t)
  <2>1. l \in Licences
    BY <1>2 DEF FinishActivation, LocksAreRequests, Worked
  <2>2. licence[l] \in LicenceRow /\ licence[l].seq + 1 \in 0 .. MaxTokens
    BY <1>2, <2>1 DEF FinishActivation, LicenceTypeOK, LicenceRow
  <2>3. Activated(licence[l].status) \in LicenceStatus
    BY <2>2 DEF Activated, LicenceRow, LicenceStatus
  <2>4. licence' \in [Licences -> LicenceRow]
    BY <1>2, <2>1, <2>2, <2>3 DEF FinishActivation, LicenceTypeOK, LicenceRow
  <2>5. device' \in [Licences -> [DeviceNames -> DeviceStatus]]
    BY <1>1, <1>2, <2>1 DEF FinishActivation, LicenceTypeOK, GateRequest, DeviceStatus
  <2>6. rowLock' \in [Licences -> DeviceNames \cup {Nobody}]
    BY <1>2 DEF FinishActivation, LicenceTypeOK
  <2>7. request' \in [DeviceNames -> GateRequest]
    BY <1>2, RestingValues DEF FinishActivation, LicenceTypeOK
  <2>8. credential' \in [DeviceNames -> Licences \cup {Nobody}] /\ token' \in [DeviceNames -> OfflineToken]
    <3> DEFINE m == Minted(l, licence[l].seq + 1, Activated(licence[l].status),
                           OpensOrders(Activated(licence[l].status), licence[l].expires))
    <3>1. OpensOrders(Activated(licence[l].status), licence[l].expires) \in BOOLEAN
      BY DEF OpensOrders
    <3>2. m \in OfflineToken
      BY <1>1, <2>1, <2>2, <2>3, <3>1 DEF Minted, OfflineToken
    <3>3. \/ credential' = [credential EXCEPT ![t] = l] /\ token' = [token EXCEPT ![t] = m]
          \/ UNCHANGED <<credential, token>>
      BY <1>2 DEF FinishActivation
    <3> HIDE DEF m
    <3>4. /\ credential \in [DeviceNames -> Licences \cup {Nobody}]
          /\ token \in [DeviceNames -> OfflineToken]
      BY DEF LicenceTypeOK
    <3> QED BY <2>1, <3>2, <3>3, <3>4
  <2> QED BY <1>2, <2>4, <2>5, <2>6, <2>7, <2>8 DEF FinishActivation, LicenceTypeOK
<1>3. CASE AdvanceSeq(t)
  <2>1. l \in Licences
    BY <1>3 DEF AdvanceSeq, LocksAreRequests, Worked
  <2>2. licence[l] \in LicenceRow /\ licence[l].seq + 1 \in 0 .. MaxTokens
    BY <1>3, <2>1 DEF AdvanceSeq, LicenceTypeOK, LicenceRow
  <2>3. [licence[l] EXCEPT !.seq = licence[l].seq + 1] \in LicenceRow
    BY <2>2 DEF LicenceRow
  <2>4. licence' = [licence EXCEPT ![l] = [licence[l] EXCEPT !.seq = licence[l].seq + 1]]
    BY <1>3 DEF AdvanceSeq, NextSeq
  <2>5. licence' \in [Licences -> LicenceRow]
    BY <2>1, <2>3, <2>4 DEF LicenceTypeOK
  <2>6. [request[t] EXCEPT !.step = "stamp"] \in GateRequest
    BY <1>1 DEF GateRequest
  <2>7. request' = [request EXCEPT ![t] = [request[t] EXCEPT !.step = "stamp"]]
    BY <1>3 DEF AdvanceSeq
  <2>8. request' \in [DeviceNames -> GateRequest]
    BY <2>6, <2>7 DEF LicenceTypeOK
  <2> QED BY <1>3, <2>5, <2>8 DEF AdvanceSeq, LicenceTypeOK, local
<1>4. CASE Stamp(t)
  <2>1. l \in Licences
    BY <1>4 DEF Stamp, LocksAreRequests, Worked
  <2>2. Minted(l, licence[l].seq, request[t].status, request[t].opens) \in OfflineToken
    BY <1>1, <2>1 DEF Minted, OfflineToken, LicenceTypeOK, LicenceRow, GateRequest
  <2>3. token' \in [DeviceNames -> OfflineToken]
    BY <1>4, <2>2 DEF Stamp, LicenceTypeOK
  <2>4. [AtRest EXCEPT !.step = "gate"] \in GateRequest
    BY RestingValues DEF GateRequest
  <2>5. request' \in [DeviceNames -> GateRequest]
    BY <1>4, <2>4 DEF Stamp, LicenceTypeOK
  <2> QED BY <1>4, <2>3, <2>5 DEF Stamp, LicenceTypeOK
<1>5. CASE Rejected(t)
  BY <1>5, RestingValues DEF Rejected, LicenceTypeOK, Decisions
<1> QED BY <1>2, <1>3, <1>4, <1>5

\* So do those of the gate.
LEMMA GateTypes ==
    ASSUME LicenceTypeOK, RatchetFollows, NEW t \in DeviceNames, EvaluateGate(t)
    PROVE  LicenceTypeOK'
<1>1. Decision(t) \in Decisions
  BY DEF Decision, Refusal, Decisions
<1>2. gate' \in [DeviceNames -> Decisions]
  BY <1>1 DEF EvaluateGate, LicenceTypeOK
<1>3. ratchet' \in [DeviceNames -> [seq : Int, time : Int, by : SUBSET Licences]]
  <2>1. CASE ratchet' = ratchet
    BY <2>1 DEF LicenceTypeOK
  <2>2. CASE ratchet' # ratchet
    <3> DEFINE new == [seq  |-> Later(ratchet[t].seq, token[t].seq),
                       time |-> Later(ratchet[t].time, token[t].time),
                       by   |-> ratchet[t].by \cup {token[t].by}]
    <3>1. ratchet' = [ratchet EXCEPT ![t] = new] /\ token[t] # NoToken
      BY <2>2 DEF EvaluateGate, Decision
    <3>2. /\ token[t] \in OfflineToken
          /\ ratchet[t] \in [seq : Int, time : Int, by : SUBSET Licences]
      BY DEF LicenceTypeOK
    <3>3. token[t].by \in Licences /\ token[t].seq \in Int /\ token[t].time \in Int
      BY <3>1, <3>2, LicenceAssumption DEF RatchetFollows, OfflineToken
    <3>4. new \in [seq : Int, time : Int, by : SUBSET Licences]
      BY <3>2, <3>3 DEF Later
    <3> HIDE DEF new
    <3> QED BY <3>1, <3>4 DEF LicenceTypeOK
  <2> QED BY <2>1, <2>2
<1>4. request' \in [DeviceNames -> GateRequest]
  BY RestingValues DEF EvaluateGate, LicenceTypeOK
<1> QED BY <1>2, <1>3, <1>4 DEF EvaluateGate, LicenceTypeOK

\* So do those of the administrator.
LEMMA OfficeTypes ==
    ASSUME LicenceTypeOK, LocksAreRequests,
           \/ \E l \in Licences :
                 \/ Suspend(l) \/ Resume(l) \/ Revoke(l) \/ BeginRenew(l)
                 \/ \E t \in DeviceNames, value \in DeviceStatus : ActOnDevice(l, t, value)
           \/ RevokeDevices \/ SaveRenewal \/ Tick
    PROVE  LicenceTypeOK'
<1> USE LicenceBounds
<1>1. ASSUME NEW l \in Licences, Suspend(l) \/ Resume(l) \/ Revoke(l) PROVE LicenceTypeOK'
  <2>1. PICK s \in LicenceStatus : licence' = [licence EXCEPT ![l].status = s]
    BY <1>1 DEF Suspend, Resume, Revoke, SetStatus, LicenceStatus
  <2>2. licence' \in [Licences -> LicenceRow]
    <3>0. licence[l] \in LicenceRow
      BY DEF LicenceTypeOK
    <3>1. [licence[l] EXCEPT !.status = s] \in LicenceRow
      BY <3>0 DEF LicenceRow
    <3>2. licence' = [licence EXCEPT ![l] = [licence[l] EXCEPT !.status = s]]
      BY <2>1
    <3> QED BY <3>1, <3>2 DEF LicenceTypeOK
  <2>3. desk' \in DeskRequest
    <3>1. [NoDesk EXCEPT !.kind = "revoke", !.on = l] \in DeskRequest
      BY RestingValues DEF DeskRequest
    <3> QED BY <1>1, <3>1 DEF Suspend, Resume, Revoke, LicenceTypeOK
  <2>4. acts' \in 0 .. MaxActs
    <3>1. acts < MaxActs /\ acts' = acts + 1
      BY <1>1 DEF Suspend, Resume, Revoke, MayAct
    <3>2. acts \in 0 .. MaxActs
      BY DEF LicenceTypeOK
    <3> QED BY <3>1, <3>2
  <2>5. UNCHANGED <<device, revived, rowLock, request, local, clock>>
    BY <1>1 DEF Suspend, Resume, Revoke, SetStatus
  <2> QED BY <2>2, <2>3, <2>4, <2>5 DEF LicenceTypeOK, local
<1>2. ASSUME NEW l \in Licences, BeginRenew(l) PROVE LicenceTypeOK'
  <2>1. Activated(licence[l].status) \in LicenceStatus
    BY DEF Activated, LicenceTypeOK, LicenceRow, LicenceStatus
  <2>2. desk' \in DeskRequest
    BY <1>2, <2>1 DEF BeginRenew, DeskRequest
  <2> QED BY <1>2, <2>2 DEF BeginRenew, MayAct, LicenceTypeOK, local
<1>3. ASSUME NEW l \in Licences, NEW t \in DeviceNames, NEW value \in DeviceStatus,
             ActOnDevice(l, t, value)
      PROVE  LicenceTypeOK'
  <2>1. device' \in [Licences -> [DeviceNames -> DeviceStatus]]
    BY <1>3 DEF ActOnDevice, LicenceTypeOK
  <2>2. revived' \subseteq Licences \X DeviceNames
    BY <1>3 DEF ActOnDevice, LicenceTypeOK
  <2> QED BY <1>3, <2>1, <2>2 DEF ActOnDevice, MayAct, LicenceTypeOK, local
<1>4. CASE RevokeDevices
  <2>1. desk.on \in Licences
    BY <1>4 DEF RevokeDevices, LocksAreRequests
  <2>2. device' \in [Licences -> [DeviceNames -> DeviceStatus]]
    BY <1>4, <2>1 DEF RevokeDevices, LicenceTypeOK, DeviceStatus
  <2> QED BY <1>4, <2>2, RestingValues DEF RevokeDevices, LicenceTypeOK, local
<1>5. CASE SaveRenewal
  <2>1. desk.on \in Licences /\ desk.saw \in LicenceStatus
    BY <1>5 DEF SaveRenewal, LocksAreRequests, LicenceTypeOK, DeskRequest
  <2>2. licence' \in [Licences -> LicenceRow]
    <3> DEFINE l == desk.on
               record == [licence[l] EXCEPT !.status = desk.saw, !.expires = MaxTime]
    <3>0. licence[l] \in LicenceRow
      BY <2>1 DEF LicenceTypeOK
    <3>1. record \in LicenceRow
      BY <2>1, <3>0 DEF LicenceRow
    <3>2. licence' = [licence EXCEPT ![l] = record]
      BY <1>5 DEF SaveRenewal
    <3> QED BY <2>1, <3>1, <3>2 DEF LicenceTypeOK
  <2> QED BY <1>5, <2>2, RestingValues DEF SaveRenewal, LicenceTypeOK, local
<1>6. CASE Tick
  BY <1>6 DEF Tick, LicenceTypeOK, local
<1> QED BY <1>1, <1>2, <1>3, <1>4, <1>5, <1>6

-----------------------------------------------------------------------------
(* Seats.                                                                  *)

\* Every step keeps the locks those of the requests.
LEMMA LocksFollow ==
    ASSUME LicenceInv, [LicenceNext]_licenceVars
    PROVE  LocksAreRequests'
<1> USE LicenceAssumption
<1>0. \A t \in DeviceNames : request[t] \in GateRequest /\ DOMAIN request = DeviceNames
  BY DEF LicenceInv, LicenceTypeOK
<1>1. ASSUME NEW t \in DeviceNames, NEW l \in Licences, BeginActivation(t, l)
      PROVE  LocksAreRequests'
  <2> DEFINE mine == [AtRest EXCEPT !.step = "activate", !.by = l, !.saw = device[l][t]]
  <2>1. /\ rowLock' = [rowLock EXCEPT ![l] = t] /\ request' = [request EXCEPT ![t] = mine]
        /\ rowLock[l] = Nobody /\ request[t].step = "rest" /\ UNCHANGED desk
    BY <1>1 DEF BeginActivation, RowIsFree, AtRest
  <2>2. mine.step = "activate" /\ mine.by = l
    BY DEF AtRest
  <2> HIDE DEF mine
  <2>3. \A k \in Licences : rowLock'[k] = IF k = l THEN t ELSE rowLock[k]
    BY <2>1 DEF LicenceInv, LicenceTypeOK
  <2>4. \A u \in DeviceNames : request'[u] = IF u = t THEN mine ELSE request[u]
    BY <2>1 DEF LicenceInv, LicenceTypeOK
  <2> QED BY <2>1, <2>2, <2>3, <2>4 DEF LicenceInv, LocksAreRequests, Worked
<1>2. ASSUME NEW t \in DeviceNames, FinishActivation(t)
      PROVE  LocksAreRequests'
  <2>1. /\ rowLock' = [k \in Licences |-> IF rowLock[k] = t THEN Nobody ELSE rowLock[k]]
        /\ request' = [request EXCEPT ![t] = AtRest] /\ UNCHANGED desk
    BY <1>2 DEF FinishActivation
  <2>2. \A u \in DeviceNames : request'[u] = IF u = t THEN AtRest ELSE request[u]
    BY <2>1 DEF LicenceInv, LicenceTypeOK
  <2> QED BY <2>1, <2>2 DEF LicenceInv, LocksAreRequests, Worked, AtRest
<1>3. ASSUME NEW t \in DeviceNames,
             Authenticate(t) \/ Admitted(t) \/ Beat(t) \/ AdvanceSeq(t) \/ Stamp(t)
               \/ UseCachedToken(t) \/ Rejected(t) \/ EvaluateGate(t)
      PROVE  LocksAreRequests'
  <2>1. UNCHANGED <<rowLock, desk>> /\ request[t].step # "activate"
    BY <1>3 DEF Authenticate, Admitted, Beat, AdvanceSeq, Stamp, UseCachedToken, Rejected, EvaluateGate,
                local, AtRest
  <2>2. /\ \A u \in DeviceNames \ {t} : request'[u] = request[u]
        /\ request'[t].step # "activate"
        /\ request'[t].step \in Worked => request'[t].by \in Licences
    <3>1. CASE Authenticate(t)
      <4>1. credential[t] \in Licences
        BY <3>1 DEF Authenticate, LicenceInv, LicenceTypeOK
      <4> QED BY <1>0, <3>1, <4>1 DEF Authenticate, AtRest
    <3>2. CASE Admitted(t) \/ Beat(t) \/ AdvanceSeq(t)
      <4>1. request[t].by \in Licences
        BY <3>2 DEF Admitted, Beat, AdvanceSeq, LicenceInv, LocksAreRequests, Worked
      <4> QED BY <1>0, <3>2, <4>1 DEF Admitted, Beat, AdvanceSeq, GateRequest
    <3>3. CASE Stamp(t) \/ UseCachedToken(t) \/ Rejected(t) \/ EvaluateGate(t)
      BY <1>0, <3>3 DEF Stamp, UseCachedToken, Rejected, EvaluateGate, AtRest, Worked
    <3> QED BY <1>3, <3>1, <3>2, <3>3
  <2> QED BY <2>1, <2>2 DEF LicenceInv, LocksAreRequests
<1>4. ASSUME NEW l \in Licences,
             \/ Suspend(l) \/ Resume(l) \/ Revoke(l) \/ BeginRenew(l)
             \/ \E t \in DeviceNames, value \in DeviceStatus : ActOnDevice(l, t, value)
      PROVE  LocksAreRequests'
  <2>1. UNCHANGED <<rowLock, request>> /\ (desk' = desk \/ desk'.on = l)
    <3>1. CASE Suspend(l) \/ Resume(l) \/ \E t \in DeviceNames, value \in DeviceStatus : ActOnDevice(l, t, value)
      BY <3>1 DEF Suspend, Resume, SetStatus, ActOnDevice
    <3>2. CASE Revoke(l)
      BY <3>2 DEF Revoke, SetStatus, NoDesk
    <3>3. CASE BeginRenew(l)
      BY <3>3 DEF BeginRenew
    <3> QED BY <1>4, <3>1, <3>2, <3>3
  <2> QED BY <2>1 DEF LicenceInv, LocksAreRequests
<1>5. CASE RevokeDevices \/ SaveRenewal \/ Tick
  BY <1>5 DEF RevokeDevices, SaveRenewal, Tick, NoDesk, LicenceInv, LocksAreRequests
<1>6. CASE UNCHANGED licenceVars
  BY <1>6 DEF licenceVars, LicenceInv, LocksAreRequests
<1> QED BY <1>1, <1>2, <1>3, <1>4, <1>5, <1>6 DEF LicenceNext

\* Every step keeps the seats enough.
LEMMA SeatsFollow ==
    ASSUME LicenceInv, [LicenceNext]_licenceVars
    PROVE  SeatsAreHeld'
<1> USE LicenceAssumption
<1>1. ASSUME NEW t \in DeviceNames, NEW l \in Licences, BeginActivation(t, l)
      PROVE  SeatsAreHeld'
  <2>1. /\ \A k \in Licences : rowLock'[k] = IF k = l THEN t ELSE rowLock[k]
        /\ UNCHANGED <<device, revived>> /\ rowLock[l] = Nobody
        /\ device[l][t] # "REVOKED" /\ (device[l][t] = "none" => SeatFree(l))
    BY <1>1 DEF BeginActivation, RowIsFree, LicenceInv, LicenceTypeOK
  <2>2. CASE device[l][t] = "none"
    <3> SUFFICES ASSUME NEW k \in Licences PROVE Cardinality(SeatsCounted(k)') =< Seats
      BY DEF SeatsAreHeld
    <3>1. CASE k # l
      <4>1. SeatsCounted(k)' = SeatsCounted(k)
        BY <2>1, <3>1 DEF SeatsCounted, Live
      <4> QED BY <4>1 DEF LicenceInv, SeatsAreHeld
    <3>2. CASE k = l
      <4>1. SeatsCounted(l)' \subseteq Live(l) \cup {t}
        BY <2>1 DEF SeatsCounted, Live
      <4>2. IsFiniteSet(Live(l)) /\ Cardinality(Live(l)) \in Nat
        <5>1. Live(l) \subseteq DeviceNames
          BY DEF Live
        <5> QED BY <5>1, FS_Subset, FS_CardinalityType
      <4>3. Cardinality(Live(l)) < Seats
        BY <2>1, <2>2 DEF SeatFree
      <4>4. /\ IsFiniteSet(Live(l) \cup {t})
            /\ Cardinality(Live(l) \cup {t}) =< Cardinality(Live(l)) + 1
        BY <4>2, AtMostOneMore
      <4>5. IsFiniteSet(SeatsCounted(l)') /\ Cardinality(SeatsCounted(l)') =< Cardinality(Live(l) \cup {t})
        BY <4>1, <4>4, FS_Subset
      <4>6. Cardinality(SeatsCounted(l)') \in Nat /\ Cardinality(Live(l) \cup {t}) \in Nat
        BY <4>4, <4>5, FS_CardinalityType
      <4> QED BY <3>2, <4>2, <4>3, <4>4, <4>5, <4>6
    <3> QED BY <3>1, <3>2
  <2>3. CASE device[l][t] # "none"
    <3>1. t \in Live(l)
      BY <2>1, <2>3 DEF Live, LicenceInv, LicenceTypeOK, DeviceStatus
    <3>2. \A k \in Licences : SeatsCounted(k)' \subseteq SeatsCounted(k)
      BY <2>1, <3>1 DEF SeatsCounted, Live
    <3> QED BY <3>2, FewerSeats
  <2> QED BY <2>2, <2>3
<1>2. ASSUME NEW t \in DeviceNames, FinishActivation(t)
      PROVE  SeatsAreHeld'
  <2> DEFINE l == request[t].by
  <2>1. /\ l \in Licences /\ rowLock[l] = t /\ revived' = revived
        /\ rowLock' = [k \in Licences |-> IF rowLock[k] = t THEN Nobody ELSE rowLock[k]]
    BY <1>2 DEF FinishActivation, LicenceInv, LocksAreRequests, Worked
  <2>2. \A k \in Licences, u \in DeviceNames : k # l \/ u # t => device'[k][u] = device[k][u]
    BY <1>2, <2>1 DEF FinishActivation, LicenceInv, LicenceTypeOK
  <2>3. \A k \in Licences : SeatsCounted(k)' \subseteq SeatsCounted(k)
    <3> SUFFICES ASSUME NEW k \in Licences, NEW u \in SeatsCounted(k)' PROVE u \in SeatsCounted(k)
      OBVIOUS
    <3>1. u \in DeviceNames /\ <<k, u>> \notin revived /\ (u \in Live(k)' \/ rowLock'[k] = u)
      BY <2>1 DEF SeatsCounted
    <3>2. rowLock'[k] = u => rowLock[k] = u
      BY <2>1, <3>1
    <3>3. CASE k = l /\ u = t
      BY <2>1, <3>1, <3>3 DEF SeatsCounted
    <3>4. CASE k # l \/ u # t
      BY <2>2, <3>1, <3>2, <3>4 DEF SeatsCounted, Live
    <3> QED BY <3>3, <3>4
  <2> QED BY <2>3, FewerSeats
<1>3. ASSUME NEW l \in Licences, NEW t \in DeviceNames, NEW value \in DeviceStatus,
             ActOnDevice(l, t, value)
      PROVE  SeatsAreHeld'
  <2>1. /\ rowLock' = rowLock /\ device[l][t] # "none"
        /\ \A k \in Licences, u \in DeviceNames :
              device'[k][u] = IF k = l /\ u = t THEN value ELSE device[k][u]
        /\ revived' = IF device[l][t] = "REVOKED" /\ value \in {"ACTIVE", "SUSPENDED"}
                      THEN revived \cup {<<l, t>>} ELSE revived
    BY <1>3 DEF ActOnDevice, LicenceInv, LicenceTypeOK
  <2>2. \A k \in Licences : SeatsCounted(k)' \subseteq SeatsCounted(k)
    <3> SUFFICES ASSUME NEW k \in Licences, NEW u \in SeatsCounted(k)' PROVE u \in SeatsCounted(k)
      OBVIOUS
    <3>1. /\ u \in DeviceNames /\ <<k, u>> \notin revived'
          /\ device'[k][u] \in {"ACTIVE", "SUSPENDED"} \/ rowLock[k] = u
      BY <2>1 DEF SeatsCounted, Live
    <3>2. <<k, u>> \notin revived
      BY <2>1, <3>1
    <3>3. device[k][u] \in {"ACTIVE", "SUSPENDED"} \/ rowLock[k] = u
      BY <2>1, <3>1 DEF LicenceInv, LicenceTypeOK, DeviceStatus
    <3> QED BY <3>1, <3>2, <3>3 DEF SeatsCounted, Live
  <2> QED BY <2>2, FewerSeats
<1>4. CASE RevokeDevices
  <2>1. UNCHANGED <<revived, rowLock>> /\ desk.on \in Licences
    BY <1>4 DEF RevokeDevices, LicenceInv, LocksAreRequests
  <2>2. \A k \in Licences : Live(k)' \subseteq Live(k)
    BY <1>4, <2>1 DEF RevokeDevices, Live, LicenceInv, LicenceTypeOK
  <2>3. \A k \in Licences : SeatsCounted(k)' \subseteq SeatsCounted(k)
    BY <2>1, <2>2 DEF SeatsCounted
  <2> QED BY <2>3, FewerSeats
<1>5. ASSUME UNCHANGED <<device, revived, rowLock>>
      PROVE  SeatsAreHeld'
  <2>1. \A k \in Licences : SeatsCounted(k)' \subseteq SeatsCounted(k)
    BY <1>5 DEF SeatsCounted, Live
  <2> QED BY <2>1, FewerSeats
<1>6. ASSUME NEW t \in DeviceNames,
             Authenticate(t) \/ Admitted(t) \/ Beat(t) \/ AdvanceSeq(t) \/ Stamp(t)
               \/ UseCachedToken(t) \/ Rejected(t) \/ EvaluateGate(t)
      PROVE  SeatsAreHeld'
  BY <1>5, <1>6 DEF Authenticate, Admitted, Beat, AdvanceSeq, Stamp, UseCachedToken, Rejected, EvaluateGate
<1>7. ASSUME NEW l \in Licences, Suspend(l) \/ Resume(l) \/ Revoke(l) \/ BeginRenew(l)
      PROVE  SeatsAreHeld'
  BY <1>5, <1>7 DEF Suspend, Resume, Revoke, SetStatus, BeginRenew
<1>8. CASE SaveRenewal \/ Tick \/ UNCHANGED licenceVars
  BY <1>5, <1>8 DEF SaveRenewal, Tick, licenceVars
<1> QED BY <1>1, <1>2, <1>3, <1>4, <1>6, <1>7, <1>8 DEF LicenceNext

-----------------------------------------------------------------------------
(* Tokens.                                                                 *)

\* Numbers only grow, and a token that is stored has the last one.
LEMMA RatchetKeeps ==
    ASSUME LicenceInv, LicenceTypeOK', ratchet' = ratchet,
           \A l \in Licences : licence'[l].seq >= licence[l].seq,
           \A t \in DeviceNames :
              \/ token'[t] = token[t] \/ token'[t] = NoToken
              \/ token'[t].by \in Licences /\ token'[t].seq = licence'[token'[t].by].seq
    PROVE  RatchetFollows'
<1>1. \A l \in Licences : licence[l].seq \in Int /\ licence'[l].seq \in Int
  BY LicenceAssumption DEF LicenceInv, LicenceTypeOK, LicenceRow
<1>2. \A t \in DeviceNames : ratchet[t].seq \in Int
  BY DEF LicenceInv, LicenceTypeOK
<1>3. \A t \in DeviceNames : token[t].seq \in Int /\ token'[t].seq \in Int
  BY LicenceAssumption DEF LicenceInv, LicenceTypeOK, OfflineToken
<1>4. NoToken.by \notin Licences /\ Nobody \notin Licences
  BY LicenceAssumption DEF NoToken
<1>5. ASSUME NEW t \in DeviceNames, token'[t].by \in Licences
      PROVE  token'[t].seq =< licence'[token'[t].by].seq
  BY <1>1, <1>3, <1>4, <1>5 DEF LicenceInv, RatchetFollows
<1>6. ASSUME NEW t \in DeviceNames, NEW l \in Licences, ratchet[t].by \subseteq {l}
      PROVE  /\ ratchet[t].seq =< licence'[l].seq
             /\ token'[t].by = l => ratchet[t].seq =< token'[t].seq
  <2>1. ratchet[t].seq =< licence[l].seq /\ (token[t].by = l => ratchet[t].seq =< token[t].seq)
    BY <1>6 DEF LicenceInv, RatchetFollows
  <2> QED BY <1>1, <1>2, <1>3, <1>4, <2>1
<1>7. \A t \in DeviceNames : token'[t].by = Nobody => token'[t] = NoToken
  BY <1>4 DEF LicenceInv, RatchetFollows
<1> QED BY <1>5, <1>6, <1>7 DEF RatchetFollows

\* Every step keeps the tokens within what was issued.
LEMMA TokensFollow ==
    ASSUME LicenceInv, LicenceTypeOK', [LicenceNext]_licenceVars
    PROVE  RatchetFollows'
<1> USE LicenceAssumption
<1>0. \A l \in Licences : licence[l] \in LicenceRow /\ licence[l].seq \in Int
  BY DEF LicenceInv, LicenceTypeOK, LicenceRow
<1>1. ASSUME NEW t \in DeviceNames, FinishActivation(t)
      PROVE  RatchetFollows'
  <2> DEFINE l == request[t].by
  <2>1. l \in Licences
    BY <1>1 DEF FinishActivation, LicenceInv, LocksAreRequests, Worked
  <2>2. /\ licence'[l].seq = licence[l].seq + 1
        /\ \A k \in Licences \ {l} : licence'[k] = licence[k]
    BY <1>0, <1>1, <2>1 DEF FinishActivation, LicenceInv, LicenceTypeOK, LicenceRow
  <2>3. \/ token' = token
        \/ /\ \A u \in DeviceNames \ {t} : token'[u] = token[u]
           /\ token'[t].by = l /\ token'[t].seq = licence[l].seq + 1
    BY <1>1 DEF FinishActivation, Minted, LicenceInv, LicenceTypeOK
  <2>4. ratchet' = ratchet
    BY <1>1 DEF FinishActivation
  <2> HIDE DEF l
  <2>5. \A k \in Licences : licence'[k].seq >= licence[k].seq
    BY <1>0, <2>2
  <2> QED BY <2>1, <2>2, <2>3, <2>4, <2>5, RatchetKeeps
<1>2. ASSUME NEW t \in DeviceNames, AdvanceSeq(t)
      PROVE  RatchetFollows'
  <2> DEFINE l == request[t].by
  <2>1. l \in Licences
    BY <1>2 DEF AdvanceSeq, LicenceInv, LocksAreRequests, Worked
  <2>2. /\ licence'[l].seq = licence[l].seq + 1
        /\ \A k \in Licences \ {l} : licence'[k] = licence[k]
    BY <1>0, <1>2, <2>1 DEF AdvanceSeq, NextSeq, LicenceInv, LicenceTypeOK, LicenceRow
  <2>3. UNCHANGED <<token, ratchet>>
    BY <1>2 DEF AdvanceSeq, local
  <2> HIDE DEF l
  <2>5. \A k \in Licences : licence'[k].seq >= licence[k].seq
    BY <1>0, <2>2
  <2> QED BY <2>3, <2>5, RatchetKeeps
<1>3. ASSUME NEW t \in DeviceNames, Stamp(t)
      PROVE  RatchetFollows'
  <2> DEFINE l == request[t].by
  <2>1. l \in Licences
    BY <1>3 DEF Stamp, LicenceInv, LocksAreRequests, Worked
  <2>2. /\ \A u \in DeviceNames \ {t} : token'[u] = token[u]
        /\ token'[t].by = l /\ token'[t].seq = licence[l].seq
    BY <1>3 DEF Stamp, Minted, LicenceInv, LicenceTypeOK
  <2>3. UNCHANGED <<licence, ratchet>>
    BY <1>3 DEF Stamp
  <2>4. \A k \in Licences : licence'[k].seq >= licence[k].seq
    BY <1>0, <2>3
  <2> QED BY <2>1, <2>2, <2>3, <2>4, RatchetKeeps
<1>4. ASSUME NEW t \in DeviceNames, Rejected(t)
      PROVE  RatchetFollows'
  <2>1. \A u \in DeviceNames : token'[u] = token[u] \/ token'[u] = NoToken
    BY <1>4 DEF Rejected, LicenceInv, LicenceTypeOK
  <2>2. UNCHANGED <<licence, ratchet>>
    BY <1>4 DEF Rejected
  <2> QED BY <1>0, <2>1, <2>2, RatchetKeeps
<1>5. ASSUME NEW t \in DeviceNames, EvaluateGate(t), ratchet' # ratchet
      PROVE  RatchetFollows'
  <2> DEFINE new == [seq  |-> Later(ratchet[t].seq, token[t].seq),
                     time |-> Later(ratchet[t].time, token[t].time),
                     by   |-> ratchet[t].by \cup {token[t].by}]
  <2>1. ratchet' = [ratchet EXCEPT ![t] = new] /\ UNCHANGED <<token, licence>> /\ token[t] # NoToken
    BY <1>5 DEF EvaluateGate, Decision
  <2>2. /\ token[t].by \in Licences /\ token[t].seq \in Int /\ ratchet[t].seq \in Int
        /\ token[t].seq =< licence[token[t].by].seq
    <3>1. token[t] \in OfflineToken
      BY DEF LicenceInv, LicenceTypeOK
    <3> QED BY <2>1, <3>1 DEF OfflineToken, LicenceInv, LicenceTypeOK, RatchetFollows
  <2>3. \A u \in DeviceNames : ratchet'[u] = IF u = t THEN new ELSE ratchet[u]
    BY <2>1 DEF LicenceInv, LicenceTypeOK
  <2>4. new.by = ratchet[t].by \cup {token[t].by} /\ new.seq = Later(ratchet[t].seq, token[t].seq)
    OBVIOUS
  <2> HIDE DEF new
  <2>5. ASSUME NEW u \in DeviceNames, NEW l \in Licences, ratchet'[u].by \subseteq {l}
        PROVE  /\ ratchet'[u].seq =< licence[l].seq
               /\ token[u].by = l => ratchet'[u].seq =< token[u].seq
    <3>1. CASE u # t
      BY <2>3, <2>5, <3>1 DEF LicenceInv, RatchetFollows
    <3>2. CASE u = t
      <4>1. token[t].by = l /\ ratchet[t].by \subseteq {l}
        BY <2>3, <2>4, <2>5, <3>2
      <4>2. ratchet[t].seq =< token[t].seq
        BY <4>1 DEF LicenceInv, RatchetFollows
      <4>3. new.seq = token[t].seq
        BY <2>2, <2>4, <4>2 DEF Later
      <4> QED BY <2>2, <2>3, <3>2, <4>1, <4>3
    <3> QED BY <3>1, <3>2
  <2> QED BY <2>1, <2>5 DEF LicenceInv, RatchetFollows
<1>6. ASSUME UNCHANGED <<token, ratchet>>, \A l \in Licences : licence'[l].seq = licence[l].seq
      PROVE  RatchetFollows'
  BY <1>0, <1>6, RatchetKeeps
<1>7. ASSUME NEW t \in DeviceNames,
             \/ \E l \in Licences : BeginActivation(t, l)
             \/ Authenticate(t) \/ Admitted(t) \/ Beat(t) \/ UseCachedToken(t)
             \/ EvaluateGate(t) /\ ratchet' = ratchet
      PROVE  RatchetFollows'
  BY <1>6, <1>7 DEF BeginActivation, Authenticate, Admitted, Beat, UseCachedToken, EvaluateGate, local
<1>8. ASSUME NEW l \in Licences,
             \/ Suspend(l) \/ Resume(l) \/ Revoke(l) \/ BeginRenew(l)
             \/ \E t \in DeviceNames, value \in DeviceStatus : ActOnDevice(l, t, value)
      PROVE  RatchetFollows'
  <2>1. UNCHANGED <<token, ratchet>>
    BY <1>8 DEF Suspend, Resume, Revoke, SetStatus, BeginRenew, ActOnDevice, local
  <2>2. \A k \in Licences : licence'[k].seq = licence[k].seq
    <3>1. licence' = licence \/ \E s : licence' = [licence EXCEPT ![l].status = s]
      BY <1>8 DEF Suspend, Resume, Revoke, SetStatus, BeginRenew, ActOnDevice
    <3> QED BY <1>0, <3>1 DEF LicenceRow, LicenceInv, LicenceTypeOK
  <2> QED BY <1>6, <2>1, <2>2
<1>9. CASE SaveRenewal
  <2>1. UNCHANGED <<token, ratchet>> /\ desk.on \in Licences
    BY <1>9 DEF SaveRenewal, local, LicenceInv, LocksAreRequests
  <2>2. \A k \in Licences : licence'[k].seq = licence[k].seq
    BY <1>0, <1>9, <2>1 DEF SaveRenewal, LicenceRow, LicenceInv, LicenceTypeOK
  <2> QED BY <1>6, <2>1, <2>2
<1>10. CASE RevokeDevices \/ Tick \/ UNCHANGED licenceVars
  BY <1>6, <1>10 DEF RevokeDevices, Tick, licenceVars, local
<1> QED BY <1>1, <1>2, <1>3, <1>4, <1>5, <1>7, <1>8, <1>9, <1>10 DEF LicenceNext

\* Together: every step keeps the invariant.
LEMMA LicenceStep == LicenceInv /\ [LicenceNext]_licenceVars => LicenceInv'
<1> SUFFICES ASSUME LicenceInv, [LicenceNext]_licenceVars PROVE LicenceInv'
  OBVIOUS
<1>1. LicenceTypeOK'
  <2>1. LicenceTypeOK /\ LocksAreRequests /\ RatchetFollows
    BY DEF LicenceInv
  <2>2. CASE UNCHANGED licenceVars
    BY <2>1, <2>2 DEF licenceVars, LicenceTypeOK
  <2> QED BY <2>1, <2>2, RequestTypes, TokenTypes, GateTypes, OfficeTypes DEF LicenceNext
<1> QED BY <1>1, LocksFollow, SeatsFollow, TokensFollow DEF LicenceInv

\* Activations, heartbeats and administrators at once sell no seat twice, and no
\* terminal takes its own token for an old one, for any number of licences.
THEOREM PlanAndTokensAreHeld == LicenceSpec => [](LicenceTypeOK /\ PlanAndTokensHold)
<1>1. LicenceInv => LicenceTypeOK /\ PlanAndTokensHold
  BY SeatsAreEnough, TokensAdvance DEF LicenceInv, PlanAndTokensHold
<1> QED BY <1>1, LicenceStart, LicenceStep, PTL DEF LicenceSpec

-----------------------------------------------------------------------------
(* Alerts: sweeps at once.                                                 *)

\* A sweep that delivers holds the row of its subject: it is the only one that
\* ever pushes it, and the phones it has left were not told yet.
ClaimIsTheRow ==
    /\ \A w \in Sweepers : sweep[w].step = "deliver" =>
          /\ sweep[w].subject \in rows
          /\ \A p \in sweep[w].left : told[p][sweep[w].subject] = 0
    /\ \A w, v \in Sweepers :
          sweep[w].step = "deliver" /\ sweep[v].step = "deliver"
            /\ sweep[w].subject = sweep[v].subject => w = v

\* The strengthening.
AlertsInv == AlertsTypeOK /\ ClaimIsTheRow /\ ToldOnce

\* Nobody was told yet.
LEMMA AlertsStart == AlertsInit => AlertsInv
<1> SUFFICES ASSUME AlertsInit PROVE AlertsInv
  OBVIOUS
<1>1. NoSweep \in Sweep
  BY DEF NoSweep, Sweep, SweepSteps
<1>2. AlertsTypeOK
  BY <1>1 DEF AlertsInit, AlertsTypeOK
<1>3. ClaimIsTheRow
  BY DEF AlertsInit, ClaimIsTheRow, NoSweep
<1>4. ToldOnce
  BY DEF AlertsInit, ToldOnce
<1> QED BY <1>2, <1>3, <1>4 DEF AlertsInv

\* A step of a worker that claims and pushes nothing.
LEMMA IdleSweepKeeps ==
    ASSUME AlertsInv, NEW w \in Sweepers, NEW s \in Sweep, s.step # "deliver",
           sweep' = [sweep EXCEPT ![w] = s], UNCHANGED <<due, raised, rows, failures, told, refusals>>,
           delivered' \in [Subjects -> Nat]
    PROVE  AlertsInv'
<1>1. \A v \in Sweepers : sweep'[v] = IF v = w THEN s ELSE sweep[v]
  BY DEF AlertsInv, AlertsTypeOK
<1>2. AlertsTypeOK'
  BY DEF AlertsInv, AlertsTypeOK
<1>3. ClaimIsTheRow'
  BY <1>1 DEF AlertsInv, ClaimIsTheRow
<1>4. ToldOnce'
  BY DEF AlertsInv, ToldOnce
<1> QED BY <1>2, <1>3, <1>4 DEF AlertsInv

\* A push that was answered: the phone is off the list of its sweep, and no
\* phone was told but, perhaps, that one.
LEMMA PushKeeps ==
    ASSUME AlertsInv, NEW w \in Sweepers, NEW p \in Phones, Sending(w, p),
           NEW next \in Sweep,
           next.step = "deliver", next.subject = sweep[w].subject,
           next.left = sweep[w].left \ {p}, sweep' = [sweep EXCEPT ![w] = next],
           \/ told' = told
           \/ told' = [told EXCEPT ![p][sweep[w].subject] = @ + 1],
           failures' \in [Phones -> Nat \cup {Absent, Gone}], refusals' \in Nat,
           UNCHANGED <<due, raised, rows, delivered>>
    PROVE  AlertsInv'
<1> DEFINE s == sweep[w].subject
<1>1. /\ sweep[w] \in Sweep /\ sweep[w].step = "deliver" /\ p \in sweep[w].left
      /\ s \in rows /\ s \in Subjects /\ told[p][s] = 0
  BY DEF AlertsInv, AlertsTypeOK, Sending, ClaimIsTheRow
<1>2. \A v \in Sweepers :
        /\ sweep'[v].step = sweep[v].step /\ sweep'[v].subject = sweep[v].subject
        /\ sweep'[v].left = IF v = w THEN sweep[w].left \ {p} ELSE sweep[v].left
  BY <1>1 DEF AlertsInv, AlertsTypeOK, Sweep
<1>3. \A q \in Phones, t \in Subjects :
        told'[q][t] = told[q][t] \/ (q = p /\ t = s /\ told'[q][t] = 1)
  BY <1>1 DEF AlertsInv, AlertsTypeOK
<1>4. AlertsTypeOK'
  <2>1. sweep' \in [Sweepers -> Sweep]
    BY <1>1 DEF AlertsInv, AlertsTypeOK, Sweep
  <2>2. told' \in [Phones -> [Subjects -> Nat]]
    BY <1>1 DEF AlertsInv, AlertsTypeOK
  <2> QED BY <2>1, <2>2 DEF AlertsInv, AlertsTypeOK
<1>5. ClaimIsTheRow'
  <2>1. ASSUME NEW v \in Sweepers, sweep[v].step = "deliver", NEW q \in sweep'[v].left
        PROVE  told'[q][sweep[v].subject] = 0
    <3>1. q \in sweep[v].left /\ (v = w => q # p)
      BY <1>2, <2>1
    <3>2. sweep[v] \in Sweep
      BY DEF AlertsInv, AlertsTypeOK
    <3>3. q \in Phones /\ sweep[v].subject \in rows /\ sweep[v].subject \in Subjects
      BY <2>1, <3>1, <3>2 DEF Sweep, AlertsInv, AlertsTypeOK, ClaimIsTheRow
    <3>4. told[q][sweep[v].subject] = 0
      BY <2>1, <3>1 DEF AlertsInv, ClaimIsTheRow
    <3>5. q # p \/ sweep[v].subject # s
      BY <1>1, <2>1, <3>1 DEF AlertsInv, ClaimIsTheRow
    <3> QED BY <1>3, <3>3, <3>4, <3>5
  <2> QED BY <1>2, <2>1 DEF AlertsInv, ClaimIsTheRow
<1>6. ToldOnce'
  BY <1>1, <1>3 DEF AlertsInv, ToldOnce
<1> QED BY <1>4, <1>5, <1>6 DEF AlertsInv

\* Every step of a sweep keeps it.
LEMMA AlertsStep == AlertsInv /\ [AlertsNext]_alertVars => AlertsInv'
<1> SUFFICES ASSUME AlertsInv, [AlertsNext]_alertVars PROVE AlertsInv'
  OBVIOUS
<1> USE AlertsAssumption
<1>1. ASSUME NEW s \in Subjects, ComesUp(s) \/ Passes(s) PROVE AlertsInv'
  <2>1. AlertsTypeOK'
    BY <1>1 DEF ComesUp, Passes, AlertsInv, AlertsTypeOK
  <2>2. ClaimIsTheRow' /\ ToldOnce'
    BY <1>1 DEF ComesUp, Passes, AlertsInv, ClaimIsTheRow, ToldOnce
  <2> QED BY <2>1, <2>2 DEF AlertsInv
<1>2. ASSUME NEW p \in Phones, Subscribe(p) \/ Unsubscribe(p) PROVE AlertsInv'
  <2>1. AlertsTypeOK'
    BY <1>2 DEF Subscribe, Unsubscribe, AlertsInv, AlertsTypeOK
  <2>2. ClaimIsTheRow' /\ ToldOnce'
    BY <1>2 DEF Subscribe, Unsubscribe, AlertsInv, ClaimIsTheRow, ToldOnce
  <2> QED BY <2>1, <2>2 DEF AlertsInv
<1>3. ASSUME NEW w \in Sweepers, Evaluate(w) \/ Delivered(w) \/ Finish(w) \/ KillSweep(w)
      PROVE  AlertsInv'
  <2>1. sweep[w] \in Sweep /\ due \subseteq Subjects /\ NoSweep \in Sweep
    BY DEF AlertsInv, AlertsTypeOK, NoSweep, Sweep, SweepSteps
  <2>2. \E s \in Sweep : s.step # "deliver" /\ sweep' = [sweep EXCEPT ![w] = s]
    <3>1. CASE Evaluate(w)
      <4>1. [NoSweep EXCEPT !.step = "claim", !.todo = due] \in Sweep
        BY <2>1 DEF NoSweep, Sweep, SweepSteps
      <4>2. [NoSweep EXCEPT !.step = "claim", !.todo = due].step = "claim"
        BY DEF NoSweep
      <4> QED BY <3>1, <4>1, <4>2 DEF Evaluate
    <3>2. CASE Delivered(w)
      <4>1. [NoSweep EXCEPT !.step = "claim", !.todo = sweep[w].todo] \in Sweep
        BY <2>1 DEF NoSweep, Sweep, SweepSteps
      <4>2. [NoSweep EXCEPT !.step = "claim", !.todo = sweep[w].todo].step = "claim"
        BY DEF NoSweep
      <4> QED BY <3>2, <4>1, <4>2 DEF Delivered
    <3>3. CASE Finish(w) \/ KillSweep(w)
      BY <2>1, <3>3 DEF Finish, KillSweep, NoSweep
    <3> QED BY <1>3, <3>1, <3>2, <3>3
  <2>3. delivered' \in [Subjects -> Nat]
    <3>1. CASE Delivered(w)
      BY <2>1, <3>1 DEF Delivered, Sweep, AlertsInv, AlertsTypeOK
    <3> QED BY <1>3, <3>1 DEF Evaluate, Finish, KillSweep, AlertsInv, AlertsTypeOK
  <2>4. UNCHANGED <<due, raised, rows, failures, told, refusals>>
    BY <1>3 DEF Evaluate, Delivered, Finish, KillSweep
  <2> QED BY <2>2, <2>3, <2>4, IdleSweepKeeps
<1>4. ASSUME NEW w \in Sweepers, NEW s \in Subjects, Claim(w, s) PROVE AlertsInv'
  <2>1. sweep[w] \in Sweep /\ sweep[w].step = "claim" /\ s \in sweep[w].todo
    BY <1>4 DEF Claim, AlertsInv, AlertsTypeOK
  <2>2. CASE s \in rows
    <3>1. sweep' = [sweep EXCEPT ![w].todo = @ \ {s}]
          /\ UNCHANGED <<due, raised, rows, delivered, failures, told, refusals>>
      BY <1>4, <2>2 DEF Claim, Unclaimed
    <3>2. [sweep[w] EXCEPT !.todo = @ \ {s}] \in Sweep
          /\ [sweep[w] EXCEPT !.todo = @ \ {s}].step = "claim"
      BY <2>1 DEF Sweep, SweepSteps
    <3>3. sweep' = [sweep EXCEPT ![w] = [sweep[w] EXCEPT !.todo = @ \ {s}]]
      BY <3>1
    <3> QED BY <3>1, <3>2, <3>3, IdleSweepKeeps DEF AlertsInv, AlertsTypeOK
  <2>3. CASE s \notin rows
    <3> DEFINE seen == [p \in Phones |-> IF p \in Subscribed THEN failures[p] ELSE 0]
               mine == [step |-> "deliver", todo |-> sweep[w].todo \ {s}, subject |-> s,
                        left |-> Subscribed, sent |-> 0, seen |-> seen]
    <3>1. /\ sweep' = [sweep EXCEPT ![w] = mine] /\ rows' = rows \cup {s}
          /\ UNCHANGED <<due, raised, delivered, failures, told, refusals>>
      BY <1>4, <2>3 DEF Claim, Unclaimed
    <3>2. seen \in [Phones -> Nat] /\ Subscribed \subseteq Phones
      BY DEF Subscribed
    <3>3. mine \in Sweep /\ mine.step = "deliver" /\ mine.subject = s /\ mine.left \subseteq Phones
      <4> HIDE DEF seen
      <4> QED BY <2>1, <3>2 DEF Sweep, SweepSteps
    <3> HIDE DEF mine
    <3>4. \A v \in Sweepers : sweep'[v] = IF v = w THEN mine ELSE sweep[v]
      BY <3>1 DEF AlertsInv, AlertsTypeOK
    <3>5. \A p \in Phones : told[p][s] = 0
      <4> TAKE p \in Phones
      <4>1. told[p][s] \in Nat
        BY DEF AlertsInv, AlertsTypeOK
      <4> QED BY <2>3, <4>1 DEF AlertsInv, ToldOnce
    <3>6. AlertsTypeOK'
      BY <3>1, <3>3 DEF AlertsInv, AlertsTypeOK
    <3>7. ClaimIsTheRow'
      BY <2>3, <3>1, <3>3, <3>4, <3>5 DEF AlertsInv, ClaimIsTheRow
    <3>8. ToldOnce'
      BY <3>1 DEF AlertsInv, ToldOnce
    <3> QED BY <3>6, <3>7, <3>8 DEF AlertsInv
  <2> QED BY <2>2, <2>3
<1>5. ASSUME NEW w \in Sweepers, NEW p \in Phones, Sent(w, p) \/ Dropped(w, p) \/ Refused(w, p)
      PROVE  AlertsInv'
  <2>1. Sending(w, p) /\ sweep[w] \in Sweep
    BY <1>5 DEF Sent, Dropped, Refused, AlertsInv, AlertsTypeOK
  <2>2. \E next \in Sweep :
          /\ next.step = "deliver" /\ next.subject = sweep[w].subject
          /\ next.left = sweep[w].left \ {p} /\ sweep' = [sweep EXCEPT ![w] = next]
    <3>1. CASE Sent(w, p)
      <4> DEFINE next == [sweep[w] EXCEPT !.left = @ \ {p}, !.sent = @ + 1]
      <4>1. sweep[w].sent + 1 \in Nat /\ sweep[w].left \ {p} \in SUBSET Phones
        BY <2>1 DEF Sweep
      <4>2. /\ next \in Sweep /\ next.step = "deliver" /\ next.subject = sweep[w].subject
            /\ next.left = sweep[w].left \ {p}
        BY <2>1, <4>1 DEF Sweep, Sending
      <4>3. sweep' = [sweep EXCEPT ![w] = next]
        BY <3>1 DEF Sent
      <4> QED BY <4>2, <4>3
    <3>2. CASE Dropped(w, p) \/ Refused(w, p)
      <4> DEFINE next == [sweep[w] EXCEPT !.left = @ \ {p}]
      <4>1. /\ next \in Sweep /\ next.step = "deliver" /\ next.subject = sweep[w].subject
            /\ next.left = sweep[w].left \ {p}
        BY <2>1 DEF Sweep, Sending
      <4>2. sweep' = [sweep EXCEPT ![w] = next]
        BY <2>1, <3>2 DEF Dropped, Refused, Sweep, AlertsInv, AlertsTypeOK
      <4> QED BY <4>1, <4>2
    <3> QED BY <1>5, <3>1, <3>2
  <2>3. failures' \in [Phones -> Nat \cup {Absent, Gone}] /\ refusals' \in Nat
    <3>1. sweep[w].seen[p] \in Nat
      BY <2>1 DEF Sweep
    <3>2. failures \in [Phones -> Nat \cup {Absent, Gone}] /\ refusals \in Nat
      BY DEF AlertsInv, AlertsTypeOK
    <3>3. CASE Refused(w, p)
      BY <3>1, <3>2, <3>3 DEF Refused, Update
    <3>4. CASE Sent(w, p) \/ Dropped(w, p)
      BY <3>2, <3>4 DEF Sent, Dropped, Update
    <3> QED BY <1>5, <3>3, <3>4
  <2>4. /\ \/ told' = told
           \/ told' = [told EXCEPT ![p][sweep[w].subject] = @ + 1]
        /\ UNCHANGED <<due, raised, rows, delivered>>
    BY <1>5 DEF Sent, Dropped, Refused
  <2> QED BY <2>1, <2>2, <2>3, <2>4, PushKeeps
<1>6. CASE UNCHANGED alertVars
  BY <1>6 DEF alertVars, AlertsInv, AlertsTypeOK, ClaimIsTheRow, ToldOnce, Sweep
<1> QED BY <1>1, <1>2, <1>3, <1>4, <1>5, <1>6 DEF AlertsNext

\* notifications/services.py: sweeps that overlap, die or run late push no alert to a phone twice.
THEOREM ToldOnceHolds == AlertsSpec => [](AlertsTypeOK /\ ToldOnce)
<1>1. AlertsInv => AlertsTypeOK /\ ToldOnce
  BY DEF AlertsInv
<1> QED BY <1>1, AlertsStart, AlertsStep, PTL DEF AlertsSpec

-----------------------------------------------------------------------------
(* Backups: what retention keeps has its file.                             *)

\* The bounds are naturals, and there are finitely many records.
LEMMA BackupBounds ==
    /\ MaxRuns \in Nat /\ MaxDay \in Nat /\ MaxKilled \in Nat /\ keep_daily \in Nat /\ keep_monthly \in Nat
    /\ Records \subseteq Nat /\ IsFiniteSet(Records)
BY BackupsAssumption, FS_Interval DEF Records

\* Some records have a first and a last one.
LEMMA FirstIsThere ==
    ASSUME NEW S \in SUBSET Records, S # {}
    PROVE  Min(S) \in S /\ \A y \in S : Min(S) =< y
<1>1. S \subseteq Nat
  BY BackupBounds
<1>2. PICK m \in S : \A y \in S : ~ (<<y, m>> \in OpToRel(<, Nat))
  BY <1>1, NatLessThanWellFounded, WFMin
<1>3. \A y \in S : ~ (y < m)
  BY <1>1, <1>2 DEF OpToRel
<1>4. \A y \in S : m =< y
  BY <1>1, <1>3
<1> QED BY <1>4 DEF Min

\* So has the last one.
LEMMA LastIsThere ==
    ASSUME NEW S \in SUBSET Records, S # {}
    PROVE  Max(S) \in S
<1> DEFINE T == {n \in Nat : \E x \in S : n = MaxRuns - x}
<1>1. \A x \in S : x \in Nat /\ x =< MaxRuns /\ MaxRuns - x \in T
  BY BackupBounds DEF Records
<1>2. T \subseteq Nat /\ T # {}
  BY <1>1
<1>3. PICK m \in T : \A y \in T : ~ (<<y, m>> \in OpToRel(<, Nat))
  BY <1>2, NatLessThanWellFounded, WFMin
<1>4. \A y \in T : ~ (y < m)
  BY <1>2, <1>3 DEF OpToRel
<1>5. PICK x \in S : m = MaxRuns - x
  OBVIOUS
<1> HIDE DEF T
<1>6. \A y \in S : x >= y
  <2> TAKE y \in S
  <2>1. ~ (MaxRuns - y < m)
    BY <1>1, <1>4
  <2> QED BY <2>1, <1>1, <1>5, BackupBounds
<1> QED BY <1>6 DEF Max

\* The months of some records.
Months(S) == {Month(i) : i \in S}

\* Months of finitely many records are finitely many.
LEMMA MonthsAreFinite ==
    ASSUME NEW S \in SUBSET Records
    PROVE  IsFiniteSet(Months(S))
<1> DEFINE f == [i \in S |-> Month(i)]
<1>1. IsFiniteSet(S)
  BY BackupBounds, FS_Subset
<1>2. f \in Surjection(S, Months(S))
  BY DEF Surjection, Months
<1> QED BY <1>1, <1>2, FS_Surjection

\* A record that leads its month among many leads it among fewer.
LEMMA FewerKeepTheFirst ==
    ASSUME NEW T \in SUBSET Records, NEW S \in SUBSET T, NEW i \in S, i \in Monthly(T)
    PROVE  i \in Monthly(S)
<1>1. PICK m \in Newest(Months(T)) : i = FirstOf(m, T)
  BY DEF Monthly, Months
<1>2. m \in Months(T)
  BY <1>1 DEF Newest
<1> DEFINE inT == {k \in T : Month(k) = m}
           inS == {k \in S : Month(k) = m}
<1>3. inT \in SUBSET Records /\ inT # {}
  BY <1>2 DEF Months
<1>4. i = Min(inT)
  BY <1>1 DEF FirstOf
<1>5. i \in inT /\ \A k \in inT : i =< k
  BY <1>3, <1>4, FirstIsThere
<1>6. i = Min(inS)
  <2>1. inS \in SUBSET Records /\ i \in inS /\ \A k \in inS : i =< k
    BY <1>5
  <2>2. Min(inS) \in inS /\ Min(inS) =< i
    BY <2>1, FirstIsThere
  <2>3. Min(inS) \in Nat /\ i \in Nat /\ i =< Min(inS)
    BY <2>1, <2>2, BackupBounds
  <2> QED BY <2>2, <2>3
<1>7. m \in Newest(Months(S))
  <2> DEFINE above(M) == {n \in M : n > m}
  <2>1. m \in Months(S)
    BY <1>5 DEF Months
  <2>2. Months(S) \subseteq Months(T)
    BY DEF Months
  <2>3. IsFiniteSet(above(Months(T))) /\ above(Months(S)) \subseteq above(Months(T))
    <3>1. IsFiniteSet(Months(T)) /\ above(Months(T)) \subseteq Months(T)
      BY MonthsAreFinite
    <3> QED BY <2>2, <3>1, FS_Subset
  <2>4. /\ Cardinality(above(Months(S))) =< Cardinality(above(Months(T)))
        /\ IsFiniteSet(above(Months(S)))
    BY <2>3, FS_Subset
  <2>5. Cardinality(above(Months(S))) \in Nat /\ Cardinality(above(Months(T))) \in Nat
    BY <2>3, <2>4, FS_CardinalityType
  <2>6. Cardinality(above(Months(T))) < keep_monthly
    BY <1>1 DEF Newest
  <2>7. Cardinality(above(Months(S))) < keep_monthly
    BY <2>4, <2>5, <2>6, BackupBounds
  <2> QED BY <2>1, <2>7 DEF Newest
<1>8. i = FirstOf(m, S)
  BY <1>6 DEF FirstOf
<1> QED BY <1>7, <1>8 DEF Monthly, Months

-----------------------------------------------------------------------------

\* What the two rules of retention keep.
Survivors(records) == Recent(records) \cup Monthly(records)

\* Nothing that survives among many is lost among fewer.
LEMMA FewerKeepSurvivors ==
    ASSUME NEW T \in SUBSET Records, NEW S \in SUBSET T, NEW i \in S, i \in Survivors(T)
    PROVE  i \in Survivors(S)
<1>1. CASE i \in Recent(T)
  BY <1>1 DEF Survivors, Recent
<1>2. CASE i \in Monthly(T)
  BY <1>2, FewerKeepTheFirst DEF Survivors
<1> QED BY <1>1, <1>2 DEF Survivors

\* Survivors are records.
LEMMA SurvivorsAreTaken ==
    ASSUME NEW T \in SUBSET Records, NEW i \in Survivors(T)
    PROVE  i \in T
<1>1. CASE i \in Recent(T)
  BY <1>1 DEF Recent
<1>2. CASE i \in Monthly(T)
  <2>1. PICK m \in Newest(Months(T)) : i = FirstOf(m, T)
    BY <1>2 DEF Monthly, Months
  <2>2. {k \in T : Month(k) = m} \in SUBSET Records /\ {k \in T : Month(k) = m} # {}
    BY <2>1 DEF Newest, Months
  <2> QED BY <2>1, <2>2, FirstIsThere DEF FirstOf
<1> QED BY <1>1, <1>2 DEF Survivors

\* A run that has not ended: its record is not complete, nobody else writes it, and
\* what it saves is whole.
Running(j) == job[j].step \in {"dump", "write", "save"}
RunsAreApart ==
    \A j \in Jobs : Running(j) =>
        /\ job[j].run \in 1 .. runs /\ job[j].run \notin taken
        /\ job[j].step = "save" => file[job[j].run] = "whole"
        /\ \A k \in Jobs : Running(k) /\ job[k].run = job[j].run => k = j

\* Only runs that began are taken.
TakenWereComplete == taken \subseteq 1 .. runs /\ Completed \subseteq taken

\* What a pruning has listed was complete, and none of it is needed.
DoomedAreSpare ==
    \A j \in Jobs : /\ job[j].doomed \subseteq taken
                    /\ job[j].doomed \cap Survivors(taken) = {}
                    /\ job[j].step = "delete" => job[j].doomed # {}

\* The strengthening.
BackupsInv ==
    /\ BackupsTypeOK
    /\ RunsAreApart /\ TakenWereComplete /\ DoomedAreSpare /\ SurvivorsReach

\* Nothing was backed up yet.
LEMMA BackupsStart == BackupsInit => BackupsInv
<1> SUFFICES ASSUME BackupsInit PROVE BackupsInv
  OBVIOUS
<1> USE BackupBounds
<1>1. BackupsTypeOK
  <2>1. NoJob \in [step : BackupSteps, run : 0 .. MaxRuns, doomed : SUBSET Records]
    BY DEF NoJob, BackupSteps
  <2>2. 0 \in 0 .. MaxDay /\ 0 \in 0 .. MaxRuns /\ 0 \in 0 .. MaxKilled
    OBVIOUS
  <2> QED BY <2>1, <2>2 DEF BackupsInit, BackupsTypeOK
<1>2. Survivors(taken) = {}
  BY SurvivorsAreTaken DEF BackupsInit
<1>3. RunsAreApart /\ TakenWereComplete /\ DoomedAreSpare
  BY DEF BackupsInit, RunsAreApart, Running, TakenWereComplete, Completed, DoomedAreSpare, NoJob
<1> QED BY <1>1, <1>2, <1>3 DEF BackupsInv, SurvivorsReach, Survivors

\* Survivors are the same while the records taken, their days and the day are.
LEMMA SameSurvivors ==
    ASSUME today' = today, NEW S, NEW T, \A i \in S : started'[i] = started[i]
    PROVE  Survivors(S)' = Survivors(S)
<1>1. \A i \in S : Month(i)' = Month(i)
  BY DEF Month
<1>2. Recent(S)' = Recent(S)
  BY DEF Recent
<1>3. {Month(i) : i \in S}' = {Month(i) : i \in S}
  BY <1>1
<1>4. \A m : FirstOf(m, S)' = FirstOf(m, S)
  <2> TAKE m
  <2>1. {i \in S : Month(i) = m}' = {i \in S : Month(i) = m}
    BY <1>1
  <2> QED BY <2>1 DEF FirstOf
<1>5. Monthly(S)' = Monthly(S)
  BY <1>3, <1>4 DEF Monthly, Newest
<1> QED BY <1>2, <1>5 DEF Survivors

-----------------------------------------------------------------------------
\* What a worker of the backups is doing.
JobRows == [step : BackupSteps, run : 0 .. MaxRuns, doomed : SUBSET Records]

\* What a step of one job leaves as it was.
LEMMA OneJob ==
    ASSUME BackupsInv, NEW j \in Jobs, NEW record \in JobRows, job' = [job EXCEPT ![j] = record]
    PROVE  /\ job' \in [Jobs -> JobRows] /\ job'[j] = record
           /\ \A k \in Jobs \ {j} : job'[k] = job[k] /\ (Running(k)' <=> Running(k))
BY DEF BackupsInv, BackupsTypeOK, JobRows, Running

\* The file and the record of a run that has not ended may change: nothing that
\* survives is touched.
LEMMA RunGoesOn ==
    ASSUME BackupsInv, NEW j \in Jobs, Running(j), NEW f \in {"none", "partial", "whole"},
           NEW st \in {"RUNNING", "FAILED"}, NEW step \in {"write", "save", "idle"},
           step = "save" => f = "whole",
           file' = [file EXCEPT ![job[j].run] = f],
           status' = status \/ status' = [status EXCEPT ![job[j].run] = st],
           job' = [job EXCEPT ![j].step = step],
           UNCHANGED <<today, tonight, runs, started, taken, killed>>
    PROVE  BackupsInv'
<1> USE BackupBounds
<1>1. PICK r : r = job[j].run
  OBVIOUS
<1>2. /\ r \in 1 .. runs /\ r \in Records /\ r \notin taken
      /\ \A k \in Jobs : Running(k) /\ job[k].run = r => k = j
  BY <1>1 DEF BackupsInv, RunsAreApart, BackupsTypeOK, Records
<1> DEFINE record == [job[j] EXCEPT !.step = step]
<1>3. record \in JobRows /\ record.step = step /\ record.run = r /\ record.doomed = job[j].doomed
  BY <1>1 DEF BackupsInv, BackupsTypeOK, JobRows, BackupSteps
<1>4. job' = [job EXCEPT ![j] = record]
  OBVIOUS
<1> HIDE DEF record
<1>5. /\ job' \in [Jobs -> JobRows] /\ job'[j] = record
      /\ \A k \in Jobs \ {j} : job'[k] = job[k] /\ (Running(k)' <=> Running(k))
  BY <1>3, <1>4, OneJob
<1>6. /\ file' \in [Records -> {"none", "partial", "whole"}]
      /\ file'[r] = f /\ \A i \in Records \ {r} : file'[i] = file[i]
  BY <1>1, <1>2 DEF BackupsInv, BackupsTypeOK
<1>7. /\ status' \in [Records -> {"NONE", "RUNNING", "COMPLETE", "FAILED", "DELETED"}]
      /\ \A i \in Records : status'[i] = "COMPLETE" => status[i] = "COMPLETE"
  BY <1>1, <1>2 DEF BackupsInv, BackupsTypeOK
<1>8. BackupsTypeOK'
  BY <1>5, <1>6, <1>7 DEF BackupsInv, BackupsTypeOK, JobRows
<1>9. TakenWereComplete'
  BY <1>7 DEF BackupsInv, TakenWereComplete, Completed
<1>10. Survivors(taken)' = Survivors(taken) /\ taken \subseteq Records
  <2>1. PICK S : S = taken
    OBVIOUS
  <2>2. Survivors(S)' = Survivors(S)
    BY SameSurvivors
  <2> QED BY <2>1, <2>2 DEF BackupsInv, BackupsTypeOK
<1>11. RunsAreApart'
  <2> SUFFICES ASSUME NEW k \in Jobs, Running(k)'
               PROVE  /\ job'[k].run \in 1 .. runs /\ job'[k].run \notin taken
                      /\ job'[k].step = "save" => file'[job'[k].run] = "whole"
                      /\ \A l \in Jobs : Running(l)' /\ job'[l].run = job'[k].run => l = k
    BY DEF RunsAreApart
  <2>1. CASE k = j
    BY <1>2, <1>3, <1>5, <1>6, <2>1
  <2>2. CASE k # j
    <3>1. /\ Running(k) /\ job'[k] = job[k] /\ job[k].run # r
          /\ job[k].run \in 1 .. runs /\ job[k].run \in Records
      BY <1>2, <1>5, <2>2 DEF BackupsInv, RunsAreApart, BackupsTypeOK, Records
    <3>2. job[k].step = "save" => file'[job[k].run] = "whole"
      BY <1>6, <3>1 DEF BackupsInv, RunsAreApart
    <3>3. \A l \in Jobs : Running(l)' /\ job'[l].run = job[k].run => l = k
      BY <1>3, <1>5, <3>1 DEF BackupsInv, RunsAreApart
    <3> QED BY <3>1, <3>2, <3>3 DEF BackupsInv, RunsAreApart
  <2> QED BY <2>1, <2>2
<1>12. DoomedAreSpare'
  BY <1>3, <1>5, <1>10 DEF BackupsInv, DoomedAreSpare
<1>13. SurvivorsReach'
  <2> SUFFICES ASSUME NEW i \in Survivors(taken) PROVE file'[i] = "whole"
    BY <1>10 DEF SurvivorsReach, Survivors
  <2>1. i \in taken /\ i \in Records /\ i # r
    BY <1>2, <1>10, SurvivorsAreTaken
  <2> QED BY <1>6, <2>1 DEF BackupsInv, SurvivorsReach, Survivors
<1> QED BY <1>8, <1>9, <1>11, <1>12, <1>13 DEF BackupsInv

\* A dump that runs keeps the invariant.
LEMMA RunStep ==
    ASSUME BackupsInv, NEW j \in Jobs, Dump(j) \/ Write(j) \/ Fail(j)
    PROVE  BackupsInv'
<1>1. CASE Dump(j)
  BY <1>1, RunGoesOn DEF Dump, GoTo, At, Running
<1>2. CASE Write(j)
  BY <1>2, RunGoesOn DEF Write, GoTo, At, Running
<1>3. CASE Fail(j)
  BY <1>3, RunGoesOn DEF Fail, GoTo, At, Running
<1> QED BY <1>1, <1>2, <1>3

\* A run begins: the new record is nobody's, and nothing is complete by it.
LEMMA BeginStep ==
    ASSUME BackupsInv, NEW j \in Jobs, BeginRun(j)
    PROVE  BackupsInv'
<1> USE BackupBounds
<1>1. PICK r : r = runs + 1
  OBVIOUS
<1> DEFINE record == [step |-> "dump", run |-> r, doomed |-> {}]
<1>2. /\ At(j, "idle") /\ runs' = r /\ runs \in 0 .. MaxRuns /\ runs < MaxRuns /\ r \in Records
      /\ job' = [job EXCEPT ![j] = record]
      /\ started' = [started EXCEPT ![r] = today] /\ status' = [status EXCEPT ![r] = "RUNNING"]
      /\ tonight' \in BOOLEAN /\ today \in 0 .. MaxDay
      /\ UNCHANGED <<today, file, taken, killed>>
  BY <1>1 DEF BeginRun, BackupsInv, BackupsTypeOK, Records
<1>3. record \in JobRows /\ record.step = "dump" /\ record.run = r /\ record.doomed = {}
  BY <1>1, <1>2 DEF JobRows, BackupSteps
<1> HIDE DEF record
<1>4. /\ job' \in [Jobs -> JobRows] /\ job'[j] = record
      /\ \A k \in Jobs \ {j} : job'[k] = job[k] /\ (Running(k)' <=> Running(k))
  BY <1>2, <1>3, OneJob
<1>5. taken \subseteq 1 .. runs /\ r \notin taken /\ taken \subseteq Records
  BY <1>1, <1>2 DEF BackupsInv, TakenWereComplete, BackupsTypeOK
<1>6. started' \in [Records -> 0 .. MaxDay] /\ \A i \in Records \ {r} : started'[i] = started[i]
  BY <1>2 DEF BackupsInv, BackupsTypeOK
<1>7. /\ status' \in [Records -> {"NONE", "RUNNING", "COMPLETE", "FAILED", "DELETED"}]
      /\ \A i \in Records : status'[i] = "COMPLETE" => status[i] = "COMPLETE"
  BY <1>2 DEF BackupsInv, BackupsTypeOK
<1>8. BackupsTypeOK'
  BY <1>1, <1>2, <1>4, <1>6, <1>7 DEF BackupsInv, BackupsTypeOK, JobRows
<1>9. TakenWereComplete'
  <2>1. taken' \subseteq 1 .. runs'
    BY <1>1, <1>2, <1>5
  <2> QED BY <1>2, <1>7, <2>1 DEF BackupsInv, TakenWereComplete, Completed
<1>10. Survivors(taken)' = Survivors(taken)
  <2>1. PICK S : S = taken
    OBVIOUS
  <2>2. Survivors(S)' = Survivors(S)
    BY <1>2, <1>5, <1>6, <2>1, SameSurvivors
  <2> QED BY <1>2, <2>1, <2>2
<1>11. RunsAreApart'
  <2> SUFFICES ASSUME NEW k \in Jobs, Running(k)'
               PROVE  /\ job'[k].run \in 1 .. runs' /\ job'[k].run \notin taken
                      /\ job'[k].step = "save" => file[job'[k].run] = "whole"
                      /\ \A l \in Jobs : Running(l)' /\ job'[l].run = job'[k].run => l = k
    BY <1>2 DEF RunsAreApart
  <2>1. \A l \in Jobs \ {j} : Running(l) => job[l].run \in 1 .. runs /\ job[l].run # r
    BY <1>1, <1>2 DEF BackupsInv, RunsAreApart
  <2>2. CASE k = j
    BY <1>1, <1>2, <1>3, <1>4, <1>5, <2>1, <2>2
  <2>3. CASE k # j
    <3>1. Running(k) /\ job'[k] = job[k]
      BY <1>4, <2>3
    <3>2. job[k].run \in 1 .. runs'
      BY <1>1, <1>2, <2>1, <2>3, <3>1
    <3>3. \A l \in Jobs : Running(l)' /\ job'[l].run = job[k].run => l = k
      BY <1>3, <1>4, <2>1, <2>3, <3>1 DEF BackupsInv, RunsAreApart
    <3> QED BY <3>1, <3>2, <3>3 DEF BackupsInv, RunsAreApart
  <2> QED BY <2>2, <2>3
<1>12. DoomedAreSpare'
  BY <1>2, <1>3, <1>4, <1>10 DEF BackupsInv, DoomedAreSpare
<1>13. SurvivorsReach'
  BY <1>2, <1>10 DEF BackupsInv, SurvivorsReach, Survivors
<1> QED BY <1>8, <1>9, <1>11, <1>12, <1>13 DEF BackupsInv

\* So does one that is saved as complete.
LEMMA SaveStep ==
    ASSUME BackupsInv, NEW j \in Jobs, Save(j)
    PROVE  BackupsInv'
<1> USE BackupBounds
<1>1. PICK r : r = job[j].run
  OBVIOUS
<1>2. PICK step \in {"list", "idle"} : job' = [job EXCEPT ![j].step = step]
  BY DEF Save, GoTo
<1> DEFINE record == [job[j] EXCEPT !.step = step]
<1>3. /\ job[j].step = "save" /\ Running(j)
      /\ status' = [status EXCEPT ![r] = "COMPLETE"] /\ taken' = taken \cup {r}
      /\ UNCHANGED <<today, tonight, runs, started, file, killed>>
  BY <1>1 DEF Save, At, Running
<1>4. /\ r \in 1 .. runs /\ r \in Records /\ r \notin taken /\ file[r] = "whole"
      /\ \A k \in Jobs : Running(k) /\ job[k].run = r => k = j
  BY <1>1, <1>3 DEF BackupsInv, RunsAreApart, BackupsTypeOK, Records
<1>5. record \in JobRows /\ record.step = step /\ record.run = r /\ record.doomed = job[j].doomed
  BY <1>1 DEF BackupsInv, BackupsTypeOK, JobRows, BackupSteps
<1>6. job' = [job EXCEPT ![j] = record]
  BY <1>2
<1> HIDE DEF record
<1>7. /\ job' \in [Jobs -> JobRows] /\ job'[j] = record /\ ~Running(j)'
      /\ \A k \in Jobs \ {j} : job'[k] = job[k] /\ (Running(k)' <=> Running(k))
  BY <1>5, <1>6, OneJob DEF Running
<1>8. /\ status' \in [Records -> {"NONE", "RUNNING", "COMPLETE", "FAILED", "DELETED"}]
      /\ \A i \in Records \ {r} : status'[i] = status[i]
  BY <1>3, <1>4 DEF BackupsInv, BackupsTypeOK
<1>9. BackupsTypeOK'
  BY <1>3, <1>4, <1>7, <1>8 DEF BackupsInv, BackupsTypeOK, JobRows
<1>10. TakenWereComplete'
  BY <1>3, <1>4, <1>8 DEF BackupsInv, TakenWereComplete, Completed
<1>11. PICK T : T = taken \cup {r}
  OBVIOUS
<1>12. T \in SUBSET Records /\ taken \in SUBSET T /\ taken' = T
  BY <1>3, <1>4, <1>11 DEF BackupsInv, BackupsTypeOK
<1>13. Survivors(taken)' = Survivors(T)
  <2>1. Survivors(T)' = Survivors(T)
    BY <1>3, SameSurvivors
  <2> QED BY <1>12, <2>1
<1>14. \A i \in Survivors(T) : i = r \/ i \in Survivors(taken)
  <2> SUFFICES ASSUME NEW i \in Survivors(T), i # r PROVE i \in Survivors(taken)
    OBVIOUS
  <2>1. i \in taken
    BY <1>11, <1>12, SurvivorsAreTaken
  <2>2. PICK S : S = taken
    OBVIOUS
  <2>3. i \in Survivors(S)
    BY <1>12, <2>1, <2>2, FewerKeepSurvivors
  <2> QED BY <2>2, <2>3
<1>15. RunsAreApart'
  <2> SUFFICES ASSUME NEW k \in Jobs, Running(k)'
               PROVE  /\ job'[k].run \in 1 .. runs /\ job'[k].run \notin taken'
                      /\ job'[k].step = "save" => file[job'[k].run] = "whole"
                      /\ \A l \in Jobs : Running(l)' /\ job'[l].run = job'[k].run => l = k
    BY <1>3 DEF RunsAreApart
  <2>1. k # j /\ Running(k) /\ job'[k] = job[k] /\ job[k].run # r
    BY <1>4, <1>7
  <2>2. \A l \in Jobs : Running(l)' /\ job'[l].run = job[k].run => l = k
    BY <1>7, <2>1 DEF BackupsInv, RunsAreApart
  <2> QED BY <1>3, <2>1, <2>2 DEF BackupsInv, RunsAreApart
<1>16. DoomedAreSpare'
  <2> SUFFICES ASSUME NEW k \in Jobs
               PROVE  /\ job'[k].doomed \subseteq T /\ job'[k].doomed \cap Survivors(T) = {}
                      /\ job'[k].step = "delete" => job'[k].doomed # {}
    BY <1>12, <1>13 DEF DoomedAreSpare
  <2>1. job'[k].doomed = job[k].doomed /\ (job'[k].step = "delete" => job[k].step = "delete")
    BY <1>5, <1>7
  <2>2. job[k].doomed \subseteq taken /\ job[k].doomed \cap Survivors(taken) = {}
        /\ (job[k].step = "delete" => job[k].doomed # {})
    BY DEF BackupsInv, DoomedAreSpare
  <2>3. r \notin job[k].doomed
    BY <1>4, <2>2
  <2> QED BY <1>12, <1>14, <2>1, <2>2, <2>3
<1>17. SurvivorsReach'
  <2> SUFFICES ASSUME NEW i \in Survivors(T) PROVE file[i] = "whole"
    BY <1>3, <1>13 DEF SurvivorsReach, Survivors
  <2> QED BY <1>4, <1>14 DEF BackupsInv, SurvivorsReach, Survivors
<1> QED BY <1>9, <1>10, <1>15, <1>16, <1>17 DEF BackupsInv

\* A job that is not running moves on; files and records of the doomed may go.
LEMMA PruneKeeps ==
    ASSUME BackupsInv, NEW j \in Jobs, NEW record \in JobRows, job' = [job EXCEPT ![j] = record],
           record.step \in {"idle", "unlink", "delete"},
           record.doomed \subseteq taken, record.doomed \cap Survivors(taken) = {},
           record.step = "delete" => record.doomed # {},
           NEW d, d \in taken => d \notin Survivors(taken),
           file' = file \/ (d \in taken /\ file' = [file EXCEPT ![d] = "none"]),
           status' = status \/ (d \in taken /\ status' = [status EXCEPT ![d] = "DELETED"]),
           killed' \in 0 .. MaxKilled,
           UNCHANGED <<today, tonight, runs, started, taken>>
    PROVE  BackupsInv'
<1> USE BackupBounds
<1>1. /\ job' \in [Jobs -> JobRows] /\ job'[j] = record /\ ~Running(j)'
      /\ \A k \in Jobs \ {j} : job'[k] = job[k] /\ (Running(k)' <=> Running(k))
  BY OneJob DEF Running
<1>2. taken \subseteq Records
  BY DEF BackupsInv, BackupsTypeOK
<1>3. /\ file' \in [Records -> {"none", "partial", "whole"}]
      /\ \A i \in Records : file'[i] = file[i] \/ (d \in taken /\ i = d)
  BY <1>2 DEF BackupsInv, BackupsTypeOK
<1>4. /\ status' \in [Records -> {"NONE", "RUNNING", "COMPLETE", "FAILED", "DELETED"}]
      /\ \A i \in Records : status'[i] = "COMPLETE" => status[i] = "COMPLETE"
  BY <1>2 DEF BackupsInv, BackupsTypeOK
<1>5. BackupsTypeOK'
  BY <1>1, <1>3, <1>4 DEF BackupsInv, BackupsTypeOK, JobRows
<1>6. TakenWereComplete'
  BY <1>4 DEF BackupsInv, TakenWereComplete, Completed
<1>7. Survivors(taken)' = Survivors(taken)
  <2>1. PICK S : S = taken
    OBVIOUS
  <2>2. Survivors(S)' = Survivors(S)
    BY SameSurvivors
  <2> QED BY <2>1, <2>2
<1>8. RunsAreApart'
  <2> SUFFICES ASSUME NEW k \in Jobs, Running(k)'
               PROVE  /\ job'[k].run \in 1 .. runs /\ job'[k].run \notin taken
                      /\ job'[k].step = "save" => file'[job'[k].run] = "whole"
                      /\ \A l \in Jobs : Running(l)' /\ job'[l].run = job'[k].run => l = k
    BY DEF RunsAreApart
  <2>1. k # j /\ Running(k) /\ job'[k] = job[k]
    BY <1>1
  <2>2. job[k].run \in 1 .. runs /\ job[k].run \notin taken /\ job[k].run \in Records
    BY <2>1 DEF BackupsInv, RunsAreApart, BackupsTypeOK, Records
  <2>3. \A l \in Jobs : Running(l)' /\ job'[l].run = job[k].run => l = k
    BY <1>1, <2>1 DEF BackupsInv, RunsAreApart
  <2>4. job[k].step = "save" => file'[job[k].run] = "whole"
    BY <1>3, <2>1, <2>2 DEF BackupsInv, RunsAreApart
  <2> QED BY <2>1, <2>2, <2>3, <2>4
<1>9. DoomedAreSpare'
  BY <1>1, <1>7 DEF BackupsInv, DoomedAreSpare
<1>10. SurvivorsReach'
  <2> SUFFICES ASSUME NEW i \in Survivors(taken) PROVE file'[i] = "whole"
    BY <1>7 DEF SurvivorsReach, Survivors
  <2>1. i \in Records /\ ~(d \in taken /\ i = d)
    BY <1>2, SurvivorsAreTaken
  <2> QED BY <1>3, <2>1 DEF BackupsInv, SurvivorsReach, Survivors
<1> QED BY <1>5, <1>6, <1>8, <1>9, <1>10 DEF BackupsInv

\* So does a removal.
LEMMA PruneStep ==
    ASSUME BackupsInv, NEW j \in Jobs,
           ListDoomed(j) \/ Unlink(j) \/ Delete(j) \/ Pruned(j) \/ KillJob(j)
    PROVE  BackupsInv'
<1> USE BackupBounds
<1>0. /\ job[j] \in JobRows /\ taken \subseteq Records /\ Completed \subseteq taken
      /\ job[j].doomed \subseteq taken /\ job[j].doomed \cap Survivors(taken) = {}
      /\ (job[j].step = "delete" => job[j].doomed # {})
      /\ NoJob \in JobRows /\ NoJob.step = "idle" /\ NoJob.doomed = {}
      /\ killed \in 0 .. MaxKilled
  <2>1. NoJob \in JobRows /\ NoJob.step = "idle" /\ NoJob.doomed = {}
    BY DEF NoJob, JobRows, BackupSteps
  <2> QED BY <2>1 DEF BackupsInv, BackupsTypeOK, TakenWereComplete, DoomedAreSpare, JobRows
<1>1. CASE Pruned(j) \/ KillJob(j)
  <2>1. /\ job' = [job EXCEPT ![j] = NoJob] /\ killed' \in 0 .. MaxKilled
        /\ UNCHANGED <<today, tonight, runs, started, status, file, taken>>
    BY <1>0, <1>1 DEF Pruned, KillJob
  <2>2. PICK d : d \notin taken
    BY BackupBounds, <1>0 DEF Records
  <2> QED BY <1>0, <2>1, <2>2, PruneKeeps
<1>2. CASE ListDoomed(j)
  <2> DEFINE record == [job[j] EXCEPT !.step = "unlink", !.doomed = Doomed]
  <2>1. Doomed \subseteq Completed /\ Doomed \cap Survivors(Completed) = {}
    BY DEF Doomed, Survivors
  <2>2. Doomed \cap Survivors(taken) = {}
    <3>1. PICK S, T : S = Completed /\ T = taken
      OBVIOUS
    <3>2. \A i \in S : i \in Survivors(T) => i \in Survivors(S)
      BY <1>0, <3>1, FewerKeepSurvivors
    <3> QED BY <2>1, <3>1, <3>2
  <2>3. record \in JobRows /\ record.step = "unlink" /\ record.doomed = Doomed
    BY <1>0, <2>1 DEF JobRows, BackupSteps
  <2>4. job' = [job EXCEPT ![j] = record] /\ UNCHANGED <<today, tonight, runs, started, status, file, taken, killed>>
    BY <1>2 DEF ListDoomed
  <2> HIDE DEF record
  <2>5. PICK d : d \notin taken
    BY BackupBounds, <1>0 DEF Records
  <2> QED BY <1>0, <2>1, <2>2, <2>3, <2>4, <2>5, PruneKeeps
<1>3. CASE Unlink(j)
  <2> DEFINE record == [job[j] EXCEPT !.step = "delete"]
  <2>1. record \in JobRows /\ record.step = "delete" /\ record.doomed = job[j].doomed
    BY <1>0 DEF JobRows, BackupSteps
  <2>2. /\ job' = [job EXCEPT ![j] = record] /\ job[j].doomed # {}
        /\ UNCHANGED <<today, tonight, runs, started, status, taken, killed>>
    BY <1>3 DEF Unlink, GoTo
  <2> HIDE DEF record
  <2>3. PICK d : d = Max(job[j].doomed)
    OBVIOUS
  <2>4. file' = [file EXCEPT ![d] = "none"]
    BY <1>3, <2>3 DEF Unlink
  <2>5. d \in job[j].doomed
    <3>1. job[j].doomed \in SUBSET Records
      BY <1>0
    <3> QED BY <2>2, <2>3, <3>1, LastIsThere
  <2>6. d \in taken /\ d \notin Survivors(taken)
    BY <1>0, <2>5
  <2> QED BY <1>0, <2>1, <2>2, <2>4, <2>6, PruneKeeps
<1>4. CASE Delete(j)
  <2>1. PICK d : d = Max(job[j].doomed)
    OBVIOUS
  <2> DEFINE record == [job[j] EXCEPT !.step = "unlink", !.doomed = job[j].doomed \ {d}]
  <2>2. record \in JobRows /\ record.step = "unlink" /\ record.doomed = job[j].doomed \ {d}
    BY <1>0 DEF JobRows, BackupSteps
  <2>3. /\ job' = [job EXCEPT ![j] = record] /\ job[j].step = "delete"
        /\ status' = [status EXCEPT ![d] = "DELETED"]
        /\ UNCHANGED <<today, tonight, runs, started, file, taken, killed>>
    BY <1>4, <2>1 DEF Delete, At
  <2> HIDE DEF record
  <2>4. d \in job[j].doomed
    <3>1. job[j].doomed \in SUBSET Records /\ job[j].doomed # {}
      BY <1>0, <2>3
    <3> QED BY <2>1, <3>1, LastIsThere
  <2>5. d \in taken /\ d \notin Survivors(taken)
    BY <1>0, <2>4
  <2>6. record.doomed \subseteq taken /\ record.doomed \cap Survivors(taken) = {}
    BY <1>0, <2>2
  <2> QED BY <1>0, <2>2, <2>3, <2>5, <2>6, PruneKeeps
<1> QED BY <1>1, <1>2, <1>3, <1>4

\* So does the end of a day.
LEMMA DayStep ==
    ASSUME BackupsInv, NextDay
    PROVE  BackupsInv'
<1> USE BackupBounds
<1>1. /\ today' = today + 1 /\ today \in 0 .. MaxDay /\ today < MaxDay /\ tonight' = FALSE
      /\ UNCHANGED <<runs, started, status, file, taken, job, killed>>
  BY DEF NextDay, BackupsInv, BackupsTypeOK
<1>2. BackupsTypeOK'
  <2>1. today' \in 0 .. MaxDay
    BY <1>1
  <2>2. tonight' \in BOOLEAN
    BY <1>1
  <2> QED BY <1>1, <2>1, <2>2 DEF BackupsInv, BackupsTypeOK
<1>3. Recent(taken)' \subseteq Recent(taken)
  <2>1. \A i \in taken : started[i] \in Int
    BY DEF BackupsInv, BackupsTypeOK
  <2> QED BY <1>1, <2>1 DEF Recent
<1>4. Monthly(taken)' = Monthly(taken)
  BY <1>1 DEF Monthly, Newest, FirstOf, Month
<1>5. Survivors(taken)' \subseteq Survivors(taken)
  BY <1>3, <1>4 DEF Survivors
<1>6. RunsAreApart' /\ TakenWereComplete'
  BY <1>1 DEF BackupsInv, RunsAreApart, Running, TakenWereComplete, Completed
<1>7. DoomedAreSpare'
  BY <1>1, <1>5 DEF BackupsInv, DoomedAreSpare
<1>8. SurvivorsReach'
  BY <1>1, <1>5 DEF BackupsInv, SurvivorsReach, Survivors
<1> QED BY <1>2, <1>6, <1>7, <1>8 DEF BackupsInv

\* Together: every step keeps the invariant.
LEMMA BackupsStep == BackupsInv /\ [BackupsNext]_backupVars => BackupsInv'
<1> SUFFICES ASSUME BackupsInv, [BackupsNext]_backupVars PROVE BackupsInv'
  OBVIOUS
<1>1. CASE UNCHANGED backupVars
  <2> USE <1>1 DEF backupVars
  <2>1. Survivors(taken)' = Survivors(taken)
    <3>1. PICK S : S = taken
      OBVIOUS
    <3>2. Survivors(S)' = Survivors(S)
      BY SameSurvivors
    <3> QED BY <3>1, <3>2
  <2>2. BackupsTypeOK' /\ RunsAreApart' /\ TakenWereComplete'
    BY DEF BackupsInv, BackupsTypeOK, RunsAreApart, Running, TakenWereComplete, Completed
  <2>3. DoomedAreSpare'
    BY <2>1 DEF BackupsInv, DoomedAreSpare
  <2>4. SurvivorsReach'
    BY <2>1 DEF BackupsInv, SurvivorsReach, Survivors
  <2> QED BY <2>2, <2>3, <2>4 DEF BackupsInv
<1> QED BY <1>1, RunStep, BeginStep, SaveStep, PruneStep, DayStep DEF BackupsNext

\* ops/backups.py: of all backups ever completed, those that the retention promises
\* to keep have their file, whichever run failed, was killed or pruned in between.
THEOREM SurvivorsReachHolds == BackupsSpec => [](BackupsTypeOK /\ SurvivorsReach)
<1>1. BackupsInv => BackupsTypeOK /\ SurvivorsReach
  BY DEF BackupsInv
<1> QED BY <1>1, BackupsStart, BackupsStep, PTL DEF BackupsSpec

-----------------------------------------------------------------------------
(* The play area: clerks, and terminals that were offline.                 *)

\* The sessions that occupy the room.
OpenVisits == {v \in Visits : IsOpenVisit(v)}

\* A record that exists has a tariff, and one that is closed a charge.
RowsAreWhole ==
    \A v \in Visits : /\ play[v] = Blank \/ (play[v].status # Nil /\ play[v].tariff \in Tariffs)
                      /\ play[v].status = "CHECKED_OUT" => play[v].charge \in Tariffs

\* They are finitely many, so that they can be counted.
RoomIsCounted == IsFiniteSet(OpenVisits)

\* A request works on a session that exists.
ClerksReadVisits ==
    \A c \in Clerks : clerk[c].kind # "idle" =>
        clerk[c].visit \in Visits /\ play[clerk[c].visit].status # Nil

\* A session waits for one bill at most, and has no line yet.
WillBill(c, v) == clerk[c].kind = "bill" /\ ~clerk[c].line /\ clerk[c].visit = v
BillsArePending ==
    \A c \in Clerks, v \in Visits : WillBill(c, v) =>
        /\ play[v].status = "CHECKED_OUT" /\ lines[v] = <<>>
        /\ \A d \in Clerks : WillBill(d, v) => d = c

\* A line on the bill is of a session that is closed.
LinesComeLast == \A v \in Visits : lines[v] # <<>> => play[v].status = "CHECKED_OUT"

\* The check-in of a visit is queued once, by the terminal that minted it, and the
\* server does not know the visit before it arrives.
CheckInsAreNew ==
    \A t \in Terminals, i \in Nat, v \in Visits :
        i \in 1 .. Len(ops[t]) /\ ops[t][i] = <<"in", v>> =>
            /\ play[v] = Blank /\ here[t][v] # Nil
            /\ \A u \in Terminals, j \in Nat :
                  j \in 1 .. Len(ops[u]) /\ ops[u][j] = <<"in", v>> => u = t /\ j = i

\* The strengthening.
PlayInv ==
    /\ PlayTypeOK
    /\ RowsAreWhole /\ RoomIsCounted /\ RoomIsSafe
    /\ ClerksReadVisits /\ BillsArePending /\ LinesComeLast /\ BilledOnce
    /\ CheckInsAreNew

\* An operation is queued behind the others.
LEMMA OpsGrow ==
    ASSUME NEW S, NEW s \in Seq(S), NEW x \in S
    PROVE  /\ Append(s, x) \in Seq(S) /\ Len(Append(s, x)) = Len(s) + 1 /\ Len(s) \in Nat
           /\ \A i \in 1 .. Len(s) : Append(s, x)[i] = s[i]
           /\ Append(s, x)[Len(s) + 1] = x /\ Append(s, x) # <<>>
OBVIOUS

\* The first operation leaves, and the others move up.
LEMMA OpsShrink ==
    ASSUME NEW S, NEW s \in Seq(S), s # <<>>
    PROVE  /\ Tail(s) \in Seq(S) /\ Len(Tail(s)) = Len(s) - 1 /\ Len(s) \in Nat /\ 1 =< Len(s)
           /\ \A i \in 1 .. Len(s) - 1 : Tail(s)[i] = s[i + 1]
           /\ Head(s) = s[1] /\ Head(s) \in S
OBVIOUS

\* Nobody plays yet.
LEMMA PlayStart == PlayInit => PlayInv
<1> SUFFICES ASSUME PlayInit PROVE PlayInv
  OBVIOUS
<1> USE PlayAssumption
<1>1. PlayTypeOK
  <2>1. Blank \in Rows
    BY DEF Blank, Rows
  <2>2. NoClerk \in [kind : {"idle", "out", "bill", "tariff", "override"},
                     visit : Visits \cup {Nil}, open : BOOLEAN, line : BOOLEAN]
    BY DEF NoClerk
  <2> QED BY <2>1, <2>2 DEF PlayInit, PlayTypeOK
<1>2. RowsAreWhole /\ LinesComeLast
  BY DEF PlayInit, RowsAreWhole, LinesComeLast, Blank
<1>3. OpenVisits = {}
  BY DEF PlayInit, OpenVisits, IsOpenVisit, Inside, Blank
<1>4. RoomIsCounted /\ RoomIsSafe
  <2>1. IsFiniteSet(OpenVisits) /\ Cardinality(OpenVisits) = 0
    BY <1>3, FS_EmptySet
  <2>2. Occupancy =< Capacity
    BY <2>1 DEF Occupancy, OpenVisits
  <2>3. \A v \in Visits : ~IsOpenVisit(v)
    BY <1>3 DEF OpenVisits
  <2> QED BY <2>1, <2>2, <2>3 DEF RoomIsCounted, RoomIsSafe
<1>5. ClerksReadVisits /\ BillsArePending
  BY DEF PlayInit, ClerksReadVisits, BillsArePending, WillBill, NoClerk
<1>6. BilledOnce /\ CheckInsAreNew
  BY DEF PlayInit, BilledOnce, CheckInsAreNew
<1> QED BY <1>1, <1>2, <1>4, <1>5, <1>6 DEF PlayInv

-----------------------------------------------------------------------------
(* What happens to the rows: a visit is admitted, or an existing record moves *)
(* on and keeps its wristband.                                             *)

\* What a step must keep that only moves rows on.
RowsKeep ==
    /\ play' \in [Visits -> Rows]
    /\ RowsAreWhole' /\ RoomIsCounted' /\ RoomIsSafe'

\* An admission finds room, so the room is not overfull, and gives out a tag nobody wears.
LEMMA AdmitKeeps ==
    ASSUME PlayInv, NEW v \in Visits, NEW tag \in Tags \cup {Nil},
           HasRoom, TagFree(tag), play[v] = Blank, Admit(v, tag)
    PROVE  /\ RowsKeep
           /\ \A w \in Visits \ {v} : play'[w] = play[w]
           /\ play'[v].status = "ACTIVE"
<1> USE PlayAssumption
<1>1. PICK r \in Tariffs :
        play' = [play EXCEPT ![v] = [Blank EXCEPT !.status = "ACTIVE", !.tag = tag, !.tariff = r]]
  BY DEF Admit
<1> DEFINE record == [Blank EXCEPT !.status = "ACTIVE", !.tag = tag, !.tariff = r]
<1>2. record \in Rows /\ record.status = "ACTIVE" /\ record.tag = tag /\ record.tariff = r
  BY DEF Blank, Rows, Inside
<1> HIDE DEF record
<1>3. play' \in [Visits -> Rows] /\ \A w \in Visits : play'[w] = IF w = v THEN record ELSE play[w]
  BY <1>1, <1>2 DEF record, PlayInv, PlayTypeOK
<1>4. RowsAreWhole'
  BY <1>2, <1>3 DEF PlayInv, RowsAreWhole
<1>5. OpenVisits' = OpenVisits \cup {v}
  BY <1>2, <1>3 DEF OpenVisits, IsOpenVisit, Inside
<1>6. /\ IsFiniteSet(OpenVisits) /\ Cardinality(OpenVisits) < Capacity
      /\ Cardinality(OpenVisits) \in Nat
  BY FS_CardinalityType DEF PlayInv, RoomIsCounted, HasRoom, Occupancy, OpenVisits
<1>7. /\ IsFiniteSet(OpenVisits \cup {v})
      /\ Cardinality(OpenVisits \cup {v}) =
           IF v \in OpenVisits THEN Cardinality(OpenVisits) ELSE Cardinality(OpenVisits) + 1
  BY <1>6, FS_AddElement
<1>8. RoomIsCounted' /\ (Occupancy =< Capacity)'
  <2>1. Cardinality(OpenVisits \cup {v}) =< Capacity
    BY <1>6, <1>7
  <2>2. Occupancy' = Cardinality(OpenVisits')
    BY DEF Occupancy, OpenVisits
  <2> QED BY <1>5, <1>7, <2>1, <2>2 DEF RoomIsCounted
<1>9. RoomIsSafe'
  <2> SUFFICES ASSUME NEW a \in Visits, NEW b \in Visits, IsOpenVisit(a)', IsOpenVisit(b)', a # b
               PROVE  play'[a].tag # play'[b].tag
    BY <1>8 DEF RoomIsSafe
  <2> QED BY <1>2, <1>3 DEF PlayInv, RoomIsSafe, IsOpenVisit, TagFree
<1> QED BY <1>2, <1>3, <1>4, <1>8, <1>9 DEF RowsKeep

\* A session that moves on stays what it was to the room.
LEMMA RowMovesOn ==
    ASSUME PlayInv, NEW v \in Visits, NEW record \in Rows, play' = [play EXCEPT ![v] = record],
           play[v].status # Nil, record.status # Nil, record.tag = play[v].tag, record.tariff \in Tariffs,
           record.status = "CHECKED_OUT" => record.charge \in Tariffs,
           record.status \in Inside => play[v].status \in Inside
    PROVE  /\ RowsKeep
           /\ \A w \in Visits \ {v} : play'[w] = play[w]
           /\ play'[v] = record
           /\ \A w \in Visits : /\ play[w].status # Nil => play'[w].status # Nil
                                /\ play[w].status = "CHECKED_OUT" => play'[w].status = "CHECKED_OUT"
                                /\ play[w] = Blank => play'[w] = Blank
<1> USE PlayAssumption
<1>1. play' \in [Visits -> Rows] /\ \A w \in Visits : play'[w] = IF w = v THEN record ELSE play[w]
  BY DEF PlayInv, PlayTypeOK
<1>2. RowsAreWhole'
  BY <1>1 DEF PlayInv, RowsAreWhole
<1>3. OpenVisits' \subseteq OpenVisits
  BY <1>1 DEF OpenVisits, IsOpenVisit
<1>4. IsFiniteSet(OpenVisits') /\ Cardinality(OpenVisits') =< Cardinality(OpenVisits)
  BY <1>3, FS_Subset DEF PlayInv, RoomIsCounted
<1>5. Cardinality(OpenVisits') \in Nat /\ Cardinality(OpenVisits) \in Nat
  BY <1>4, FS_CardinalityType DEF PlayInv, RoomIsCounted
<1>6. RoomIsCounted' /\ (Occupancy =< Capacity)'
  <2>1. Occupancy' = Cardinality(OpenVisits') /\ Occupancy = Cardinality(OpenVisits)
    BY DEF Occupancy, OpenVisits
  <2> QED BY <1>4, <1>5, <2>1 DEF RoomIsCounted, PlayInv, RoomIsSafe
<1>7. RoomIsSafe'
  <2> SUFFICES ASSUME NEW a \in Visits, NEW b \in Visits, IsOpenVisit(a)', IsOpenVisit(b)', a # b
               PROVE  play'[a].tag # play'[b].tag
    BY <1>6 DEF RoomIsSafe
  <2>1. IsOpenVisit(a) /\ IsOpenVisit(b) /\ play'[a].tag = play[a].tag /\ play'[b].tag = play[b].tag
    BY <1>1, <1>3 DEF OpenVisits, IsOpenVisit
  <2> QED BY <2>1 DEF PlayInv, RoomIsSafe
<1>8. play[v].status = "CHECKED_OUT" => record.status = "CHECKED_OUT"
  BY DEF Rows, Inside
<1>9. RowsKeep
  BY <1>1, <1>2, <1>6, <1>7 DEF RowsKeep
<1>10. play[v] # Blank
  BY DEF Blank
<1>11. ASSUME NEW w \in Visits
       PROVE  /\ play[w].status # Nil => play'[w].status # Nil
              /\ play[w].status = "CHECKED_OUT" => play'[w].status = "CHECKED_OUT"
              /\ play[w] = Blank => play'[w] = Blank
  <2>1. CASE w = v
    BY <1>1, <1>8, <1>10, <2>1
  <2>2. CASE w # v
    BY <1>1, <2>2
  <2> QED BY <2>1, <2>2
<1> QED BY <1>1, <1>9, <1>11

\* A step that leaves the rows alone keeps them.
LEMMA RowsStay ==
    ASSUME PlayInv, UNCHANGED play
    PROVE  RowsKeep
BY DEF RowsKeep, PlayInv, PlayTypeOK, RowsAreWhole, RoomIsCounted, OpenVisits, RoomIsSafe, Occupancy,
       IsOpenVisit

-----------------------------------------------------------------------------
(* The steps of a request.                                                 *)

\* A request puts its copy down, or takes the next one; the sessions it does not
\* bill keep their lines.
LEMMA ClerkKeeps ==
    ASSUME PlayInv, RowsKeep, NEW c \in Clerks, NEW copy,
           copy \in [kind : {"idle", "out", "bill", "tariff", "override"},
                     visit : Visits \cup {Nil}, open : BOOLEAN, line : BOOLEAN],
           clerk' = [clerk EXCEPT ![c] = copy],
           copy.kind # "idle" => copy.visit \in Visits /\ play'[copy.visit].status # Nil,
           copy.kind = "bill" /\ ~copy.line =>
              /\ play[copy.visit].status # "CHECKED_OUT" \/ WillBill(c, copy.visit)
              /\ play'[copy.visit].status = "CHECKED_OUT" /\ lines[copy.visit] = <<>>,
           \A w \in Visits : /\ play[w].status # Nil => play'[w].status # Nil
                             /\ play[w].status = "CHECKED_OUT" => play'[w].status = "CHECKED_OUT"
                             /\ play[w] = Blank => play'[w] = Blank,
           UNCHANGED <<lines, here, wears, ops, refused>>
    PROVE  PlayInv'
<1>1. \A d \in Clerks : clerk'[d] = IF d = c THEN copy ELSE clerk[d]
  BY DEF PlayInv, PlayTypeOK
<1>2. PlayTypeOK'
  BY DEF PlayInv, PlayTypeOK, RowsKeep
<1>3. ClerksReadVisits'
  BY <1>1 DEF PlayInv, ClerksReadVisits
<1>4. BillsArePending'
  <2>1. \A d \in Clerks, v \in Visits : WillBill(d, v)' =>
           \/ d # c /\ WillBill(d, v)
           \/ d = c /\ copy.kind = "bill" /\ ~copy.line /\ copy.visit = v
    BY <1>1 DEF WillBill
  <2>2. \A d \in Clerks, v \in Visits : WillBill(d, v)' =>
           play'[v].status = "CHECKED_OUT" /\ lines[v] = <<>>
    BY <2>1 DEF PlayInv, BillsArePending
  <2>3. \A d, e \in Clerks, v \in Visits : WillBill(d, v)' /\ WillBill(e, v)' => d = e
    BY <2>1 DEF PlayInv, BillsArePending
  <2> QED BY <2>2, <2>3 DEF BillsArePending
<1>5. LinesComeLast' /\ BilledOnce'
  BY DEF PlayInv, LinesComeLast, BilledOnce
<1>6. CheckInsAreNew'
  BY DEF PlayInv, CheckInsAreNew
<1> QED BY <1>2, <1>3, <1>4, <1>5, <1>6 DEF PlayInv, RowsKeep

\* Every step of a clerk keeps the invariant.
LEMMA ClerkStep ==
    ASSUME PlayInv, NEW c \in Clerks,
           \/ ReadVisit(c) \/ CheckOut(c) \/ Bill(c) \/ BillFails(c)
           \/ ChangeTariff(c) \/ OverrideCharge(c) \/ Refuse(c)
    PROVE  PlayInv'
<1> USE PlayAssumption
<1> DEFINE Copies == [kind : {"idle", "out", "bill", "tariff", "override"},
                      visit : Visits \cup {Nil}, open : BOOLEAN, line : BOOLEAN]
           v == clerk[c].visit
<1>0. /\ NoClerk \in Copies /\ NoClerk.kind = "idle"
      /\ clerk[c] \in Copies
  BY DEF NoClerk, PlayInv, PlayTypeOK
<1>1. ASSUME ReadVisit(c) PROVE PlayInv'
  <2> PICK w \in Visits, kind \in {"out", "tariff", "override"} :
         /\ play[w] # Blank
         /\ clerk' = [clerk EXCEPT ![c] =
               [kind |-> kind, visit |-> w, open |-> IsOpenVisit(w), line |-> play[w].line]]
    BY <1>1 DEF ReadVisit
  <2> DEFINE copy == [kind |-> kind, visit |-> w, open |-> IsOpenVisit(w), line |-> play[w].line]
  <2>1. UNCHANGED <<play, lines, here, wears, ops, refused>>
    BY <1>1 DEF ReadVisit
  <2>2. copy \in Copies /\ copy.kind = kind /\ copy.visit = w
    BY DEF PlayInv, PlayTypeOK, Rows, IsOpenVisit
  <2>3. play[w].status # Nil
    BY DEF PlayInv, RowsAreWhole
  <2> HIDE DEF copy
  <2>4. clerk' = [clerk EXCEPT ![c] = copy]
    BY DEF copy
  <2> QED BY <2>1, <2>2, <2>3, <2>4, RowsStay, ClerkKeeps
<1>2. ASSUME BillFails(c) \/ Refuse(c) PROVE PlayInv'
  <2>1. Done(c) /\ UNCHANGED <<play, lines, here, wears, ops, refused>>
    BY <1>2 DEF BillFails, Refuse
  <2> QED BY <1>0, <2>1, RowsStay, ClerkKeeps DEF Done
<1>3. ASSUME clerk[c].kind # "idle" PROVE v \in Visits /\ play[v].status # Nil /\ play[v] \in Rows
                                          /\ play[v].tariff \in Tariffs
  BY <1>3 DEF PlayInv, PlayTypeOK, ClerksReadVisits, RowsAreWhole, Blank
<1>4. ASSUME CheckOut(c) PROVE PlayInv'
  <2> DEFINE record == CheckedOut(play[v])
  <2>1. /\ play' = [play EXCEPT ![v] = record] /\ UNCHANGED <<lines, here, wears, ops, refused>>
        /\ clerk[c].kind = "out" /\ IsOpenVisit(v)
    BY <1>4 DEF CheckOut, MayLeave
  <2>2. v \in Visits /\ play[v].status # Nil /\ play[v] \in Rows /\ play[v].tariff \in Tariffs
    BY <1>3, <2>1
  <2>3. /\ record \in Rows /\ record.status = "CHECKED_OUT" /\ record.tag = play[v].tag
        /\ record.tariff = play[v].tariff /\ record.charge = play[v].tariff
    BY <2>2 DEF CheckedOut, Rows
  <2>4. record.status # Nil /\ record.status \notin Inside
    BY <2>3 DEF Inside
  <2> HIDE DEF record
  <2>5. /\ RowsKeep /\ play'[v] = record
        /\ \A w \in Visits : /\ play[w].status # Nil => play'[w].status # Nil
                             /\ play[w].status = "CHECKED_OUT" => play'[w].status = "CHECKED_OUT"
                             /\ play[w] = Blank => play'[w] = Blank
    BY <2>1, <2>2, <2>3, <2>4, RowMovesOn
  <2>6. CASE Done(c)
    BY <1>0, <2>1, <2>5, <2>6, ClerkKeeps DEF Done
  <2>7. CASE clerk' = [clerk EXCEPT ![c].kind = "bill", ![c].line = play[v].line]
    <3> DEFINE copy == [clerk[c] EXCEPT !.kind = "bill", !.line = play[v].line]
    <3>1. copy \in Copies /\ copy.kind = "bill" /\ copy.visit = v
      BY <1>0, <2>2 DEF Rows
    <3>2. clerk' = [clerk EXCEPT ![c] = copy]
      BY <2>7
    <3>3. play[v].status # "CHECKED_OUT"
      BY <2>1 DEF IsOpenVisit, Inside
    <3>4. lines[v] = <<>>
      BY <2>2, <3>3 DEF PlayInv, LinesComeLast
    <3> HIDE DEF copy
    <3>5. /\ copy.visit \in Visits /\ play'[copy.visit].status = "CHECKED_OUT"
          /\ play'[copy.visit].status # Nil
          /\ play[copy.visit].status # "CHECKED_OUT" /\ lines[copy.visit] = <<>>
      BY <2>2, <2>3, <2>4, <2>5, <3>1, <3>3, <3>4
    <3> QED BY <2>1, <2>5, <3>1, <3>2, <3>5, ClerkKeeps
  <2> QED BY <1>4, <2>6, <2>7 DEF CheckOut
<1>5. ASSUME ChangeTariff(c) \/ OverrideCharge(c) PROVE PlayInv'
  <2>1. /\ clerk[c].kind # "idle" /\ Done(c) /\ UNCHANGED <<lines, here, wears, ops, refused>>
        /\ \/ \E r \in Tariffs : play' = [play EXCEPT ![v].tariff = r]
           \/ play' = [play EXCEPT ![v].override = TRUE]
    BY <1>5 DEF ChangeTariff, OverrideCharge
  <2>2. v \in Visits /\ play[v].status # Nil /\ play[v] \in Rows /\ play[v].tariff \in Tariffs
    BY <1>3, <2>1
  <2>3. PICK record \in Rows : /\ play' = [play EXCEPT ![v] = record]
                            /\ record.status = play[v].status /\ record.tag = play[v].tag
                            /\ record.charge = play[v].charge /\ record.tariff \in Tariffs
    <3>1. CASE play' = [play EXCEPT ![v].override = TRUE]
      <4> DEFINE record == [play[v] EXCEPT !.override = TRUE]
      <4>1. /\ record \in Rows
            /\ record.status = play[v].status /\ record.tag = play[v].tag
            /\ record.charge = play[v].charge /\ record.tariff \in Tariffs
        BY <2>2 DEF Rows
      <4>2. play' = [play EXCEPT ![v] = record]
        BY <3>1
      <4> QED BY <4>1, <4>2
    <3>2. ASSUME NEW r \in Tariffs, play' = [play EXCEPT ![v].tariff = r]
          PROVE  \E record \in Rows : /\ play' = [play EXCEPT ![v] = record]
                                   /\ record.status = play[v].status /\ record.tag = play[v].tag
                                   /\ record.charge = play[v].charge /\ record.tariff \in Tariffs
      <4> DEFINE record == [play[v] EXCEPT !.tariff = r]
      <4>1. /\ record \in Rows
            /\ record.status = play[v].status /\ record.tag = play[v].tag
            /\ record.charge = play[v].charge /\ record.tariff \in Tariffs
        BY <2>2 DEF Rows
      <4>2. play' = [play EXCEPT ![v] = record]
        BY <3>2
      <4> QED BY <4>1, <4>2
    <3> QED BY <2>1, <3>1, <3>2
  <2>4. record.status = "CHECKED_OUT" => record.charge \in Tariffs
    BY <2>2, <2>3 DEF PlayInv, RowsAreWhole
  <2>5. /\ RowsKeep
        /\ \A w \in Visits : /\ play[w].status # Nil => play'[w].status # Nil
                             /\ play[w].status = "CHECKED_OUT" => play'[w].status = "CHECKED_OUT"
                             /\ play[w] = Blank => play'[w] = Blank
    BY <2>2, <2>3, <2>4, RowMovesOn
  <2> QED BY <1>0, <2>1, <2>5, ClerkKeeps DEF Done
<1>6. ASSUME Bill(c) PROVE PlayInv'
  <2> DEFINE record == [play[v] EXCEPT !.line = TRUE]
  <2>1. /\ clerk[c].kind = "bill" /\ ~clerk[c].line /\ Done(c) /\ UNCHANGED <<here, wears, ops, refused>>
        /\ play' = [play EXCEPT ![v].line = TRUE]
        /\ lines' = [lines EXCEPT ![v] = Append(lines[v], Payable(play[v]))]
    BY <1>6 DEF Bill, Billed
  <2>2. v \in Visits /\ play[v].status # Nil /\ play[v] \in Rows /\ play[v].tariff \in Tariffs
    BY <1>3, <2>1
  <2>3. WillBill(c, v)
    BY <2>1 DEF WillBill
  <2>4. /\ play[v].status = "CHECKED_OUT" /\ lines[v] = <<>> /\ play[v].charge \in Tariffs
        /\ \A d \in Clerks : WillBill(d, v) => d = c
    BY <2>2, <2>3 DEF PlayInv, BillsArePending, RowsAreWhole
  <2>5. /\ record \in Rows
        /\ record.status = play[v].status /\ record.tag = play[v].tag
        /\ record.charge = play[v].charge /\ record.tariff \in Tariffs
    BY <2>2 DEF Rows
  <2>6. play' = [play EXCEPT ![v] = record]
    BY <2>1
  <2> HIDE DEF record
  <2>7. /\ RowsKeep /\ play'[v] = record
        /\ \A w \in Visits : /\ play[w].status # Nil => play'[w].status # Nil
                             /\ play[w].status = "CHECKED_OUT" => play'[w].status = "CHECKED_OUT"
                             /\ play[w] = Blank => play'[w] = Blank
    BY <2>2, <2>4, <2>5, <2>6, RowMovesOn
  <2>8. /\ Append(lines[v], Payable(play[v])) \in Seq(Tariffs \cup {"override"})
        /\ Len(Append(lines[v], Payable(play[v]))) = 1
    <3>1. Payable(play[v]) \in Tariffs \cup {"override"}
      BY <2>4 DEF Payable
    <3>2. lines[v] \in Seq(Tariffs \cup {"override"}) /\ Len(lines[v]) = 0
      BY <2>2, <2>4 DEF PlayInv, PlayTypeOK
    <3> QED BY <3>1, <3>2, OpsGrow
  <2>9. /\ lines' \in [Visits -> Seq(Tariffs \cup {"override"})]
        /\ Len(lines'[v]) = 1
        /\ \A w \in Visits \ {v} : lines'[w] = lines[w]
    BY <2>1, <2>2, <2>8 DEF PlayInv, PlayTypeOK
  <2>10. \A d \in Clerks : clerk'[d] = IF d = c THEN NoClerk ELSE clerk[d]
    BY <2>1 DEF Done, PlayInv, PlayTypeOK
  <2>11. PlayTypeOK'
    BY <1>0, <2>1, <2>7, <2>9 DEF Done, RowsKeep, PlayInv, PlayTypeOK
  <2>12. ClerksReadVisits'
    BY <1>0, <2>7, <2>10 DEF PlayInv, ClerksReadVisits
  <2>13. BillsArePending'
    <3>1. \A d \in Clerks, w \in Visits : WillBill(d, w)' => d # c /\ WillBill(d, w) /\ w # v
      BY <1>0, <2>4, <2>10 DEF WillBill
    <3> QED BY <2>7, <2>9, <3>1 DEF PlayInv, BillsArePending
  <2>14. LinesComeLast' /\ BilledOnce'
    <3>1. play'[v].status = "CHECKED_OUT"
      BY <2>4, <2>5, <2>7
    <3>2. LinesComeLast'
      BY <2>7, <2>9, <3>1 DEF PlayInv, LinesComeLast
    <3>3. BilledOnce'
      <4> SUFFICES ASSUME NEW w \in Visits PROVE Len(lines'[w]) =< 1
        BY DEF BilledOnce
      <4>1. CASE w = v
        <5>1. Len(lines'[w]) = 1
          BY <2>9, <4>1
        <5> QED BY <5>1
      <4>2. CASE w # v
        BY <2>9, <4>2 DEF PlayInv, BilledOnce
      <4> QED BY <4>1, <4>2
    <3> QED BY <3>2, <3>3
  <2>15. CheckInsAreNew'
    BY <2>1, <2>7 DEF PlayInv, CheckInsAreNew
  <2> QED BY <2>7, <2>11, <2>12, <2>13, <2>14, <2>15 DEF RowsKeep, PlayInv
<1> QED BY <1>1, <1>2, <1>4, <1>5, <1>6

-----------------------------------------------------------------------------
(* Check-in and the board, and the terminals.                              *)

\* So does the board that marks sessions overdue.
LEMMA BoardStep ==
    ASSUME PlayInv, CheckIn \/ RefreshOverdue
    PROVE  PlayInv'
<1> USE PlayAssumption
<1>1. ASSUME CheckIn PROVE PlayInv'
  <2> PICK v \in Visits, tag \in Tags : Unused(v) /\ TagFree(tag) /\ Admit(v, tag)
    BY <1>1 DEF CheckIn
  <2>1. HasRoom /\ UNCHANGED <<lines, here, wears, ops, refused, clerk>> /\ play[v] = Blank
    BY <1>1 DEF CheckIn, Unused
  <2>2. RowsKeep /\ play'[v].status = "ACTIVE" /\ \A w \in Visits \ {v} : play'[w] = play[w]
    BY <2>1, AdmitKeeps
  <2>3. lines[v] = <<>>
    BY <2>1 DEF PlayInv, LinesComeLast, Blank
  <2>4. PlayTypeOK'
    BY <2>1, <2>2 DEF RowsKeep, PlayInv, PlayTypeOK
  <2>5. ClerksReadVisits'
    BY <2>1, <2>2 DEF PlayInv, ClerksReadVisits
  <2>6. BillsArePending'
    <3>1. \A c \in Clerks, w \in Visits : WillBill(c, w)' <=> WillBill(c, w)
      BY <2>1 DEF WillBill
    <3>2. \A c \in Clerks : ~WillBill(c, v)
      BY <2>1 DEF PlayInv, BillsArePending, Blank
    <3> QED BY <2>1, <2>2, <3>1, <3>2 DEF PlayInv, BillsArePending
  <2>7. LinesComeLast' /\ BilledOnce'
    BY <2>1, <2>2, <2>3 DEF PlayInv, LinesComeLast, BilledOnce
  <2>8. CheckInsAreNew'
    <3>1. \A t \in Terminals, i \in Nat : i \in 1 .. Len(ops[t]) => ops[t][i] # <<"in", v>>
      BY DEF PlayInv, CheckInsAreNew, Unused
    <3>2. \A t \in Terminals, i \in Nat, w \in Visits :
             i \in 1 .. Len(ops[t]) /\ ops[t][i] = <<"in", w>> => w # v
      BY <3>1
    <3> QED BY <2>1, <2>2, <3>2 DEF PlayInv, CheckInsAreNew
  <2> QED BY <2>2, <2>4, <2>5, <2>6, <2>7, <2>8 DEF RowsKeep, PlayInv
<1>2. ASSUME RefreshOverdue PROVE PlayInv'
  <2> PICK v \in Visits : play[v].status = "ACTIVE" /\ play' = [play EXCEPT ![v].status = "OVERDUE"]
    BY <1>2 DEF RefreshOverdue
  <2> DEFINE record == [play[v] EXCEPT !.status = "OVERDUE"]
  <2>1. UNCHANGED <<lines, here, wears, ops, refused, clerk>>
    BY <1>2 DEF RefreshOverdue
  <2>2. play[v] \in Rows /\ play[v].status # Nil /\ play[v].tariff \in Tariffs
        /\ play[v].status \in Inside
    BY DEF PlayInv, PlayTypeOK, RowsAreWhole, Blank, Inside
  <2>3. /\ record \in Rows /\ record.status = "OVERDUE" /\ record.tag = play[v].tag /\ record.tariff \in Tariffs
    BY <2>2 DEF Rows, Inside
  <2>4. play' = [play EXCEPT ![v] = record]
    OBVIOUS
  <2> HIDE DEF record
  <2>5. /\ RowsKeep
        /\ \A w \in Visits : /\ play[w].status # Nil => play'[w].status # Nil
                             /\ play[w].status = "CHECKED_OUT" => play'[w].status = "CHECKED_OUT"
                             /\ play[w] = Blank => play'[w] = Blank
    <3>1. record.status # Nil /\ record.status # "CHECKED_OUT"
      BY <2>3
    <3> QED BY <2>2, <2>3, <2>4, <3>1, RowMovesOn
  <2>6. PlayTypeOK'
    BY <2>1, <2>5 DEF RowsKeep, PlayInv, PlayTypeOK
  <2>7. ClerksReadVisits' /\ BillsArePending' /\ LinesComeLast' /\ BilledOnce' /\ CheckInsAreNew'
    BY <2>1, <2>5 DEF PlayInv, ClerksReadVisits, BillsArePending, WillBill, LinesComeLast, BilledOnce,
                      CheckInsAreNew
  <2> QED BY <2>5, <2>6, <2>7 DEF RowsKeep, PlayInv
<1> QED BY <1>1, <1>2

\* So does what a terminal does alone.
LEMMA LocalStep ==
    ASSUME PlayInv, NEW t \in Terminals, LocalCheckIn(t) \/ LocalCheckOut(t)
    PROVE  PlayInv'
<1> USE PlayAssumption
<1>1. PICK v \in Visits, kind \in {"in", "out"}, value \in {"ACTIVE", "CHECKED_OUT"} :
         /\ here' = [here EXCEPT ![t][v] = value]
         /\ ops' = [ops EXCEPT ![t] = Append(ops[t], <<kind, v>>)]
         /\ kind = "in" => Unused(v)
         /\ wears' \in [Visits -> Tags \cup {Nil}]
         /\ UNCHANGED <<play, lines, refused, clerk>>
  <2>1. CASE LocalCheckIn(t)
    <3> PICK v \in Visits, tag \in Tags :
         /\ Unused(v)
         /\ here' = [here EXCEPT ![t][v] = "ACTIVE"]
         /\ wears' = [wears EXCEPT ![v] = tag]
         /\ ops' = [ops EXCEPT ![t] = Append(ops[t], <<"in", v>>)]
      BY <2>1 DEF LocalCheckIn
    <3>1. wears' \in [Visits -> Tags \cup {Nil}]
      BY DEF PlayInv, PlayTypeOK
    <3> QED BY <2>1, <3>1 DEF LocalCheckIn
  <2>2. CASE LocalCheckOut(t)
    <3> PICK v \in LocalInside(t) :
         /\ here' = [here EXCEPT ![t][v] = "CHECKED_OUT"]
         /\ ops' = [ops EXCEPT ![t] = Append(ops[t], <<"out", v>>)]
      BY <2>2 DEF LocalCheckOut
    <3>1. v \in Visits
      BY DEF LocalInside
    <3>2. wears' \in [Visits -> Tags \cup {Nil}] /\ UNCHANGED <<play, lines, refused, clerk>>
      BY <2>2 DEF LocalCheckOut, PlayInv, PlayTypeOK
    <3> QED BY <3>1, <3>2
  <2> QED BY <2>1, <2>2
<1>2. ops[t] \in Seq({"in", "out"} \X Visits) /\ <<kind, v>> \in {"in", "out"} \X Visits
  BY DEF PlayInv, PlayTypeOK
<1> DEFINE n == Len(ops[t])
<1>3. /\ Append(ops[t], <<kind, v>>) \in Seq({"in", "out"} \X Visits)
      /\ \A u \in Terminals \ {t} : ops'[u] = ops[u]
      /\ n \in Nat /\ Len(ops'[t]) = n + 1 /\ ops'[t][n + 1] = <<kind, v>>
      /\ \A i \in 1 .. n : ops'[t][i] = ops[t][i]
  BY <1>1, <1>2, OpsGrow DEF PlayInv, PlayTypeOK
<1>4. PlayTypeOK'
  <2>1. ops' \in [Terminals -> Seq({"in", "out"} \X Visits)]
    BY <1>1, <1>3 DEF PlayInv, PlayTypeOK
  <2>2. here' \in [Terminals -> [Visits -> {Nil, "ACTIVE", "CHECKED_OUT"}]]
    BY <1>1 DEF PlayInv, PlayTypeOK
  <2> QED BY <1>1, <2>1, <2>2 DEF PlayInv, PlayTypeOK
<1>5. RowsKeep
  BY <1>1, RowsStay
<1>6. ClerksReadVisits' /\ BillsArePending' /\ LinesComeLast' /\ BilledOnce'
  BY <1>1 DEF PlayInv, ClerksReadVisits, BillsArePending, WillBill, LinesComeLast, BilledOnce
<1>7. \A u \in Terminals, w \in Visits : here[u][w] # Nil => here'[u][w] # Nil
  BY <1>1 DEF PlayInv, PlayTypeOK
<1>8. here'[t][v] # Nil
  BY <1>1 DEF PlayInv, PlayTypeOK
<1>9. \A u \in Terminals, i \in Nat : i \in 1 .. Len(ops'[u]) =>
          \/ i \in 1 .. Len(ops[u]) /\ ops'[u][i] = ops[u][i]
          \/ u = t /\ i = n + 1 /\ ops'[u][i] = <<kind, v>>
  BY <1>3
<1> HIDE DEF n
<1>10. \A u \in Terminals, i \in Nat, w \in Visits :
          i \in 1 .. Len(ops'[u]) /\ ops'[u][i] = <<"in", w>> =>
            \/ i \in 1 .. Len(ops[u]) /\ ops[u][i] = <<"in", w>> /\ (kind = "in" => w # v)
            \/ u = t /\ i = n + 1 /\ w = v /\ kind = "in"
  BY <1>1, <1>9 DEF PlayInv, CheckInsAreNew, Unused
<1>11. CheckInsAreNew'
  <2> SUFFICES ASSUME NEW u \in Terminals, NEW i \in Nat, NEW w \in Visits,
                      i \in 1 .. Len(ops'[u]), ops'[u][i] = <<"in", w>>
               PROVE  /\ play'[w] = Blank /\ here'[u][w] # Nil
                      /\ \A x \in Terminals, j \in Nat :
                           j \in 1 .. Len(ops'[x]) /\ ops'[x][j] = <<"in", w>> => x = u /\ j = i
    BY DEF CheckInsAreNew
  <2>1. CASE i \in 1 .. Len(ops[u]) /\ ops[u][i] = <<"in", w>> /\ (kind = "in" => w # v)
    <3>1. /\ play[w] = Blank /\ here[u][w] # Nil
          /\ \A x \in Terminals, j \in Nat :
               j \in 1 .. Len(ops[x]) /\ ops[x][j] = <<"in", w>> => x = u /\ j = i
      BY <2>1 DEF PlayInv, CheckInsAreNew
    <3> QED BY <1>1, <1>7, <1>10, <2>1, <3>1
  <2>2. CASE u = t /\ i = n + 1 /\ w = v /\ kind = "in"
    <3>1. play'[w] = Blank
      BY <1>1, <2>2 DEF Unused
    <3> QED BY <1>8, <1>10, <2>2, <3>1
  <2> QED BY <1>10, <2>1, <2>2
<1> QED BY <1>4, <1>5, <1>6, <1>11 DEF RowsKeep, PlayInv

\* So does an operation that reaches the server.
LEMMA DeliverStep ==
    ASSUME PlayInv, NEW t \in Terminals, DeliverCheckIn(t) \/ DeliverCheckOut(t)
    PROVE  PlayInv'
<1> USE PlayAssumption
<1>1. /\ ops[t] # <<>> /\ ops' = [ops EXCEPT ![t] = Tail(ops[t])]
      /\ UNCHANGED <<here, wears, clerk>>
  BY DEF DeliverCheckIn, DeliverCheckOut, Deliver
<1> DEFINE n == Len(ops[t])
<1>2. /\ Tail(ops[t]) \in Seq({"in", "out"} \X Visits)
      /\ n \in Nat /\ 1 =< n /\ Len(Tail(ops[t])) = n - 1
      /\ \A i \in 1 .. n - 1 : Tail(ops[t])[i] = ops[t][i + 1]
      /\ Head(ops[t]) = ops[t][1] /\ Head(ops[t]) \in {"in", "out"} \X Visits
  BY <1>1, OpsShrink DEF PlayInv, PlayTypeOK
<1>3. /\ ops' \in [Terminals -> Seq({"in", "out"} \X Visits)]
      /\ ops'[t] = Tail(ops[t]) /\ \A u \in Terminals \ {t} : ops'[u] = ops[u]
  BY <1>1, <1>2 DEF PlayInv, PlayTypeOK
<1>4. PICK v \in Visits, kind \in {"in", "out"} : Head(ops[t]) = <<kind, v>>
  BY <1>2
<1>5. Head(ops[t])[1] = kind /\ Head(ops[t])[2] = v
  BY <1>4
\* Every operation that is left stood one place behind.
<1>6. \A u \in Terminals, i \in Nat : i \in 1 .. Len(ops'[u]) =>
         \/ u # t /\ i \in 1 .. Len(ops[u]) /\ ops'[u][i] = ops[u][i]
         \/ u = t /\ i + 1 \in 1 .. Len(ops[t]) /\ ops'[u][i] = ops[t][i + 1] /\ i >= 1
  <2> SUFFICES ASSUME NEW u \in Terminals, NEW i \in Nat, i \in 1 .. Len(ops'[u])
               PROVE  \/ u # t /\ i \in 1 .. Len(ops[u]) /\ ops'[u][i] = ops[u][i]
                      \/ u = t /\ i + 1 \in 1 .. Len(ops[t]) /\ ops'[u][i] = ops[t][i + 1] /\ i >= 1
    OBVIOUS
  <2>1. CASE u # t
    BY <1>3, <2>1
  <2>2. CASE u = t
    <3>1. i \in 1 .. n - 1
      BY <1>2, <1>3, <2>2
    <3>2. ops'[u][i] = ops[t][i + 1]
      BY <1>2, <1>3, <2>2, <3>1
    <3> QED BY <1>2, <2>2, <3>1, <3>2
  <2> QED BY <2>1, <2>2
<1> HIDE DEF n
<1>7. ASSUME NEW u \in Terminals, NEW i \in Nat, NEW w \in Visits,
             i \in 1 .. Len(ops'[u]), ops'[u][i] = <<"in", w>>
      PROVE  /\ play[w] = Blank /\ here[u][w] # Nil
             /\ kind = "in" => w # v
             /\ \A x \in Terminals, j \in Nat :
                  j \in 1 .. Len(ops'[x]) /\ ops'[x][j] = <<"in", w>> => x = u /\ j = i
  <2>1. PICK k \in Nat : /\ k \in 1 .. Len(ops[u]) /\ ops[u][k] = <<"in", w>>
                         /\ k = IF u = t THEN i + 1 ELSE i
    <3>1. CASE u # t
      BY <1>6, <1>7, <3>1
    <3>2. CASE u = t
      <4>1. i + 1 \in 1 .. Len(ops[t]) /\ ops'[u][i] = ops[t][i + 1] /\ i + 1 \in Nat
        BY <1>6, <1>7, <3>2
      <4> QED BY <1>7, <3>2, <4>1
    <3> QED BY <3>1, <3>2
  <2>2. /\ play[w] = Blank /\ here[u][w] # Nil
        /\ \A x \in Terminals, j \in Nat :
               j \in 1 .. Len(ops[x]) /\ ops[x][j] = <<"in", w>> => x = u /\ j = k
    BY <2>1 DEF PlayInv, CheckInsAreNew
  <2>3. kind = "in" => w # v
    <3>1. kind = "in" /\ w = v => ops[t][1] = <<"in", w>> /\ 1 \in 1 .. Len(ops[t])
      BY <1>2, <1>4 DEF n
    <3>2. k # 1 \/ u # t
      BY <1>7, <2>1
    <3> QED BY <2>2, <3>1, <3>2
  <2>4. ASSUME NEW x \in Terminals, NEW j \in Nat,
               j \in 1 .. Len(ops'[x]), ops'[x][j] = <<"in", w>>
        PROVE  x = u /\ j = i
    <3>1. PICK m \in Nat : /\ m \in 1 .. Len(ops[x]) /\ ops[x][m] = <<"in", w>>
                           /\ m = IF x = t THEN j + 1 ELSE j
      <4>1. CASE x # t
        BY <1>6, <2>4, <4>1
      <4>2. CASE x = t
        <5>1. j + 1 \in 1 .. Len(ops[t]) /\ ops'[x][j] = ops[t][j + 1] /\ j + 1 \in Nat
          BY <1>6, <2>4, <4>2
        <5> QED BY <2>4, <4>2, <5>1
      <4> QED BY <4>1, <4>2
    <3>2. x = u /\ m = k
      BY <2>2, <3>1
    <3> QED BY <2>1, <3>1, <3>2
  <2> QED BY <2>2, <2>3, <2>4
\* What the server does with it: admit the child, close the session, or neither.
<1>8. \/ /\ kind = "in" /\ HasRoom /\ TagFree(wears[v]) /\ Admit(v, wears[v])
         /\ UNCHANGED <<lines, refused>>
      \/ /\ IsOpenVisit(v)
         /\ play' = [play EXCEPT ![v] = [CheckedOut(play[v]) EXCEPT !.line = TRUE]]
         /\ lines' = [lines EXCEPT ![v] = Append(lines[v], Payable(CheckedOut(play[v])))]
         /\ UNCHANGED refused
      \/ UNCHANGED <<play, lines>> /\ refused' \subseteq Visits
  <2>1. refused \subseteq Visits
    BY DEF PlayInv, PlayTypeOK
  <2>2. CASE DeliverCheckIn(t)
    BY <1>5, <2>1, <2>2 DEF DeliverCheckIn, Reject
  <2>3. CASE DeliverCheckOut(t)
    BY <1>5, <2>1, <2>3 DEF DeliverCheckOut, Reject
  <2> QED BY <2>2, <2>3
<1>9. refused' \subseteq Visits
  BY <1>8 DEF PlayInv, PlayTypeOK
<1>10. CASE /\ kind = "in" /\ HasRoom /\ TagFree(wears[v]) /\ Admit(v, wears[v])
            /\ UNCHANGED <<lines, refused>>
  <2>1. play[v] = Blank
    <3>1. ops[t][1] = <<"in", v>> /\ 1 \in 1 .. Len(ops[t])
      BY <1>2, <1>4, <1>10 DEF n
    <3> QED BY <3>1 DEF PlayInv, CheckInsAreNew
  <2>2. wears[v] \in Tags \cup {Nil}
    BY DEF PlayInv, PlayTypeOK
  <2>3. RowsKeep /\ play'[v].status = "ACTIVE" /\ \A w \in Visits \ {v} : play'[w] = play[w]
    BY <1>10, <2>1, <2>2, AdmitKeeps
  <2>4. lines[v] = <<>>
    BY <2>1 DEF PlayInv, LinesComeLast, Blank
  <2>5. PlayTypeOK'
    BY <1>1, <1>3, <1>9, <1>10, <2>3 DEF RowsKeep, PlayInv, PlayTypeOK
  <2>6. ClerksReadVisits'
    BY <1>1, <2>3 DEF PlayInv, ClerksReadVisits
  <2>7. BillsArePending'
    <3>1. \A c \in Clerks, w \in Visits : WillBill(c, w)' <=> WillBill(c, w)
      BY <1>1 DEF WillBill
    <3>2. \A c \in Clerks : ~WillBill(c, v)
      BY <2>1 DEF PlayInv, BillsArePending, Blank
    <3> QED BY <1>10, <2>3, <3>1, <3>2 DEF PlayInv, BillsArePending
  <2>8. LinesComeLast' /\ BilledOnce'
    BY <1>10, <2>3, <2>4 DEF PlayInv, LinesComeLast, BilledOnce
  <2>9. CheckInsAreNew'
    <3> SUFFICES ASSUME NEW u \in Terminals, NEW i \in Nat, NEW w \in Visits,
                        i \in 1 .. Len(ops'[u]), ops'[u][i] = <<"in", w>>
                 PROVE  /\ play'[w] = Blank /\ here'[u][w] # Nil
                        /\ \A x \in Terminals, j \in Nat :
                             j \in 1 .. Len(ops'[x]) /\ ops'[x][j] = <<"in", w>> => x = u /\ j = i
      BY DEF CheckInsAreNew
    <3>1. \A x \in Terminals, j \in Nat :
             j \in 1 .. Len(ops'[x]) /\ ops'[x][j] = <<"in", w>> => x = u /\ j = i
      BY <1>7
    <3>2. play[w] = Blank /\ here[u][w] # Nil /\ (kind = "in" => w # v)
      BY <1>7
    <3>3. play'[w] = Blank
      BY <1>1, <1>10, <2>3, <3>2
    <3>4. here'[u][w] # Nil
      BY <1>1, <3>2
    <3> QED BY <3>1, <3>3, <3>4
  <2> QED BY <2>3, <2>5, <2>6, <2>7, <2>8, <2>9 DEF RowsKeep, PlayInv
<1>11. CASE /\ IsOpenVisit(v)
            /\ play' = [play EXCEPT ![v] = [CheckedOut(play[v]) EXCEPT !.line = TRUE]]
            /\ lines' = [lines EXCEPT ![v] = Append(lines[v], Payable(CheckedOut(play[v])))]
            /\ UNCHANGED refused
  <2> DEFINE record == [CheckedOut(play[v]) EXCEPT !.line = TRUE]
             price == Payable(CheckedOut(play[v]))
  <2>1. /\ play[v] \in Rows /\ play[v].status # Nil /\ play[v].tariff \in Tariffs
        /\ play[v].status # "CHECKED_OUT"
    BY <1>11 DEF PlayInv, PlayTypeOK, RowsAreWhole, Blank, IsOpenVisit, Inside
  <2>2. /\ record \in Rows /\ record.status = "CHECKED_OUT" /\ record.tag = play[v].tag
        /\ record.tariff = play[v].tariff /\ record.charge = play[v].tariff
        /\ price \in Tariffs \cup {"override"}
    BY <2>1 DEF CheckedOut, Rows, Payable
  <2>3. record.status # Nil /\ record.status \notin Inside
    BY <2>2 DEF Inside
  <2> HIDE DEF record, price
  <2>4. play' = [play EXCEPT ![v] = record] /\ lines' = [lines EXCEPT ![v] = Append(lines[v], price)]
    BY <1>11 DEF record, price
  <2>5. /\ RowsKeep /\ play'[v] = record
        /\ \A w \in Visits : /\ play[w].status # Nil => play'[w].status # Nil
                             /\ play[w].status = "CHECKED_OUT" => play'[w].status = "CHECKED_OUT"
                             /\ play[w] = Blank => play'[w] = Blank
    BY <2>1, <2>2, <2>3, <2>4, RowMovesOn
  <2>6. lines[v] = <<>> /\ lines[v] \in Seq(Tariffs \cup {"override"}) /\ Len(lines[v]) = 0
    <3>1. lines[v] = <<>>
      BY <2>1 DEF PlayInv, LinesComeLast
    <3> QED BY <3>1 DEF PlayInv, PlayTypeOK
  <2>7. Append(lines[v], price) \in Seq(Tariffs \cup {"override"}) /\ Len(Append(lines[v], price)) = 1
    BY <2>2, <2>6, OpsGrow
  <2>8. /\ lines' \in [Visits -> Seq(Tariffs \cup {"override"})]
        /\ Len(lines'[v]) = 1
        /\ \A w \in Visits \ {v} : lines'[w] = lines[w]
    BY <2>4, <2>7 DEF PlayInv, PlayTypeOK
  <2>9. PlayTypeOK'
    BY <1>1, <1>3, <1>9, <2>5, <2>8 DEF RowsKeep, PlayInv, PlayTypeOK
  <2>10. ClerksReadVisits'
    BY <1>1, <2>5 DEF PlayInv, ClerksReadVisits
  <2>11. BillsArePending'
    <3>1. \A c \in Clerks, w \in Visits : WillBill(c, w)' <=> WillBill(c, w)
      BY <1>1 DEF WillBill
    <3>2. \A c \in Clerks : ~WillBill(c, v)
      BY <2>1 DEF PlayInv, BillsArePending
    <3> QED BY <2>5, <2>8, <3>1, <3>2 DEF PlayInv, BillsArePending
  <2>12. LinesComeLast'
    BY <2>2, <2>5, <2>8 DEF PlayInv, LinesComeLast
  <2>13. BilledOnce'
    <3> SUFFICES ASSUME NEW w \in Visits PROVE Len(lines'[w]) =< 1
      BY DEF BilledOnce
    <3>1. CASE w = v
      <4>1. Len(lines'[w]) = 1
        BY <2>8, <3>1
      <4> QED BY <4>1
    <3>2. CASE w # v
      BY <2>8, <3>2 DEF PlayInv, BilledOnce
    <3> QED BY <3>1, <3>2
  <2>14. CheckInsAreNew'
    <3> SUFFICES ASSUME NEW u \in Terminals, NEW i \in Nat, NEW w \in Visits,
                        i \in 1 .. Len(ops'[u]), ops'[u][i] = <<"in", w>>
                 PROVE  /\ play'[w] = Blank /\ here'[u][w] # Nil
                        /\ \A x \in Terminals, j \in Nat :
                             j \in 1 .. Len(ops'[x]) /\ ops'[x][j] = <<"in", w>> => x = u /\ j = i
      BY DEF CheckInsAreNew
    <3>1. \A x \in Terminals, j \in Nat :
             j \in 1 .. Len(ops'[x]) /\ ops'[x][j] = <<"in", w>> => x = u /\ j = i
      BY <1>7
    <3>2. play[w] = Blank /\ here[u][w] # Nil /\ (kind = "in" => w # v)
      BY <1>7
    <3>3. play'[w] = Blank
      BY <1>1, <2>5, <3>2
    <3>4. here'[u][w] # Nil
      BY <1>1, <3>2
    <3> QED BY <3>1, <3>3, <3>4
  <2> QED BY <2>5, <2>9, <2>10, <2>11, <2>12, <2>13, <2>14 DEF RowsKeep, PlayInv
<1>12. CASE UNCHANGED <<play, lines>>
  <2>1. RowsKeep
    BY <1>12, RowsStay
  <2>2. PlayTypeOK'
    BY <1>1, <1>3, <1>9, <1>12, <2>1 DEF RowsKeep, PlayInv, PlayTypeOK
  <2>3. ClerksReadVisits' /\ BillsArePending' /\ LinesComeLast' /\ BilledOnce'
    BY <1>1, <1>12 DEF PlayInv, ClerksReadVisits, BillsArePending, WillBill, LinesComeLast, BilledOnce
  <2>4. CheckInsAreNew'
    <3> SUFFICES ASSUME NEW u \in Terminals, NEW i \in Nat, NEW w \in Visits,
                        i \in 1 .. Len(ops'[u]), ops'[u][i] = <<"in", w>>
                 PROVE  /\ play'[w] = Blank /\ here'[u][w] # Nil
                        /\ \A x \in Terminals, j \in Nat :
                             j \in 1 .. Len(ops'[x]) /\ ops'[x][j] = <<"in", w>> => x = u /\ j = i
      BY DEF CheckInsAreNew
    <3>1. \A x \in Terminals, j \in Nat :
             j \in 1 .. Len(ops'[x]) /\ ops'[x][j] = <<"in", w>> => x = u /\ j = i
      BY <1>7
    <3>2. play[w] = Blank /\ here[u][w] # Nil /\ (kind = "in" => w # v)
      BY <1>7
    <3>3. play'[w] = Blank
      BY <1>1, <1>12, <3>2
    <3>4. here'[u][w] # Nil
      BY <1>1, <3>2
    <3> QED BY <3>1, <3>3, <3>4
  <2> QED BY <2>1, <2>2, <2>3, <2>4 DEF RowsKeep, PlayInv
<1> QED BY <1>8, <1>10, <1>11, <1>12

\* Together: every step keeps the invariant.
LEMMA PlayStep == PlayInv /\ [PlayNext]_playVars => PlayInv'
<1> SUFFICES ASSUME PlayInv, [PlayNext]_playVars PROVE PlayInv'
  OBVIOUS
<1>1. CASE UNCHANGED playVars
  <2>1. RowsKeep
    BY <1>1, RowsStay DEF playVars
  <2>2. PlayTypeOK' /\ ClerksReadVisits' /\ BillsArePending' /\ LinesComeLast' /\ BilledOnce'
    BY <1>1 DEF playVars, PlayInv, PlayTypeOK, ClerksReadVisits, BillsArePending, WillBill,
                LinesComeLast, BilledOnce
  <2>3. CheckInsAreNew'
    BY <1>1 DEF playVars, PlayInv, CheckInsAreNew
  <2> QED BY <2>1, <2>2, <2>3 DEF RowsKeep, PlayInv
<1> QED BY <1>1, BoardStep, ClerkStep, LocalStep, DeliverStep DEF PlayNext

\* So it always holds.
LEMMA PlayAlways == PlaySpec => []PlayInv
BY PlayStart, PlayStep, PTL DEF PlaySpec

\* Sessions, queues and clerks keep their types.
THEOREM PlayTyping == PlaySpec => []PlayTypeOK
BY PlayAlways, PTL DEF PlayInv

\* kids/services.py: however web requests and terminals that were offline come
\* together, the area is never over its capacity and a wristband is worn by one child.
THEOREM RoomStaysSafe == PlaySpec => []RoomIsSafe
BY PlayAlways, PTL DEF PlayInv

\* kids/services.py: and a visit becomes at most one order line.
THEOREM VisitsAreBilledOnce == PlaySpec => []BilledOnce
BY PlayAlways, PTL DEF PlayInv

-----------------------------------------------------------------------------
(* Prices: the blocks of a visit.                                          *)

\* What is on the price card and on the clock.
MeterTypes == card \in Cards /\ rounding \in Roundings /\ minutes \in 0 .. MaxMinutes

\* Quotients.
LEMMA Quotients ==
    /\ \A x, n \in Int : n > 0 => x \div n \in Int
    /\ \A x, n \in Int : n > 0 /\ x >= 0 => x \div n >= 0
    /\ \A x, y, n \in Int : n > 0 /\ x =< y => x \div n =< y \div n
    /\ \A x, n \in Int : n > 0 => (x \div n) * n =< x /\ x < (x \div n) * n + n
    /\ \A x, y, n \in Int : n >= 0 /\ x =< y => x * n =< y * n
    /\ \A x, y \in Int : x * y \in Int
    /\ \A x, n \in Int : x >= 0 /\ n >= 0 => x * n >= 0
<1>1. \A x, n \in Int : n > 0 => x \div n \in Int
  OBVIOUS
<1>2. \A x, n \in Int : n > 0 => (x \div n) * n =< x /\ x < (x \div n) * n + n
  OBVIOUS
<1>3. \A x, y, n \in Int : n >= 0 /\ x =< y => x * n =< y * n
  OBVIOUS
<1>4. \A x, y, n \in Int : n > 0 /\ x =< y => x \div n =< y \div n
  OBVIOUS
<1>5. \A x, n \in Int : n > 0 /\ x >= 0 => x \div n >= 0
  OBVIOUS
<1>6. \A x, n \in Int : x >= 0 /\ n >= 0 => x * n >= 0
  OBVIOUS
<1> QED BY <1>1, <1>2, <1>3, <1>4, <1>5, <1>6

\* The quotient rounded up, as the programs compute it.
LEMMA RoundedUp ==
    /\ \A a, b \in Nat : b > 0 => /\ Ceiling(a, b) \in Nat
                                  /\ \A k \in Nat : k * b < a <=> k < Ceiling(a, b)
    /\ \A a, b \in Nat : b > 0 => HalfUp(a, b) \in Nat
    /\ \A a, c, b \in Nat : b > 0 /\ a =< c =>
          Ceiling(a, b) =< Ceiling(c, b) /\ HalfUp(a, b) =< HalfUp(c, b)
<1>1. ASSUME NEW a \in Nat, NEW b \in Nat, b > 0 PROVE Ceiling(a, b) \in Nat /\ HalfUp(a, b) \in Nat
  <2>1. a + b - 1 \in Int /\ a + b - 1 >= 0 /\ 2 * a + b \in Int /\ 2 * a + b >= 0 /\ 2 * b \in Int /\ 2 * b > 0
    BY <1>1
  <2> QED BY <1>1, <2>1, Quotients DEF Ceiling, HalfUp
<1>2. ASSUME NEW a \in Nat, NEW c \in Nat, NEW b \in Nat, b > 0, a =< c
      PROVE  Ceiling(a, b) =< Ceiling(c, b) /\ HalfUp(a, b) =< HalfUp(c, b)
  <2>1. a + b - 1 =< c + b - 1 /\ 2 * a + b =< 2 * c + b /\ 2 * b > 0
    BY <1>2
  <2>2. a + b - 1 \in Int /\ c + b - 1 \in Int /\ 2 * a + b \in Int /\ 2 * c + b \in Int /\ 2 * b \in Int
    OBVIOUS
  <2> QED BY <1>2, <2>1, <2>2, Quotients DEF Ceiling, HalfUp
<1>3. ASSUME NEW a \in Nat, NEW b \in Nat, b > 0, NEW k \in Nat
      PROVE  k * b < a <=> k < Ceiling(a, b)
  <2>1. PICK q : q = Ceiling(a, b)
    OBVIOUS
  <2>2. q \in Int /\ q * b =< a + b - 1 /\ a + b - 1 < q * b + b
    <3>1. a + b - 1 \in Int
      OBVIOUS
    <3> QED BY <1>3, <2>1, <3>1, Quotients DEF Ceiling
  <2>3. k * b \in Int /\ q * b \in Int /\ (q - 1) * b = q * b - b
    BY <2>2
  <2>4. k < q => k * b =< q * b - b
    <3>1. k < q => k =< q - 1
      BY <2>2
    <3>2. q - 1 \in Int /\ k \in Int /\ b \in Int /\ b >= 0
      BY <2>2
    <3>3. k =< q - 1 => k * b =< (q - 1) * b
      BY <3>2, Quotients
    <3> QED BY <2>3, <3>1, <3>3
  <2>5. q =< k => q * b =< k * b
    <3>1. k \in Int /\ b \in Int /\ b >= 0
      OBVIOUS
    <3> QED BY <2>2, <3>1, Quotients
  <2> QED BY <2>1, <2>2, <2>3, <2>4, <2>5
<1> QED BY <1>1, <1>2, <1>3

\* They keep their types.
LEMMA MeterTyped == MeterSpec => []MeterTypes
<1>1. MeterInit => MeterTypes
  BY PricingAssumption DEF MeterInit, MeterTypes
<1>2. MeterTypes /\ [MinutePasses]_meterVars => MeterTypes'
  BY PricingAssumption DEF MeterTypes, MinutePasses, meterVars
<1> QED BY <1>1, <1>2, PTL DEF MeterSpec

\* A tariff, and what it counts.
Tariff == [mode : {"TIMED", "PACKAGE", "OPEN_DAY"}, entry_fee : Nat,
           included_minutes : Nat, package_minutes : Nat, block_minutes : Nat,
           block_rate : Nat, grace_minutes : Nat, daily_cap : Nat]

\* Longer visits overrun by no less.
LEMMA OverrunGrows ==
    ASSUME NEW c \in Tariff, NEW m \in Nat
    PROVE  /\ Covered(c) \in Nat /\ Overrun(c, m) \in Nat
           /\ \A l \in Nat : l =< m => Overrun(c, l) =< Overrun(c, m)
           /\ Overrun(c, m) > 0 => Overrun(c, m) = m - Covered(c)
           /\ \A l \in Nat : l =< m /\ Charges(c, l) => Charges(c, m)
           /\ Charges(c, m) => c.block_minutes > 0 /\ Overrun(c, m) > 0
<1>1. Covered(c) \in Nat
  BY DEF Covered, Tariff
<1>2. c.grace_minutes \in Nat /\ c.block_minutes \in Nat
  BY DEF Tariff
<1>3. \A l \in Nat : Overrun(c, l) = IF l - Covered(c) < 0 THEN 0 ELSE l - Covered(c)
  BY DEF Overrun, AtLeast
<1>4. \A l \in Nat : Overrun(c, l) \in Nat
  BY <1>1, <1>3
<1>5. \A l \in Nat : l =< m => Overrun(c, l) =< Overrun(c, m)
  BY <1>1, <1>3
<1>6. Overrun(c, m) > 0 => Overrun(c, m) = m - Covered(c)
  BY <1>1, <1>3
<1>7. \A l \in Nat : l =< m /\ Charges(c, l) => Charges(c, m)
  BY <1>2, <1>4, <1>5 DEF Charges
<1>8. Charges(c, m) => c.block_minutes > 0 /\ Overrun(c, m) > 0
  BY <1>2, <1>4 DEF Charges
<1> QED BY <1>1, <1>4, <1>5, <1>6, <1>7, <1>8

\* Longer visits have no fewer blocks, and a visit that is charged has one.
LEMMA ExtraGrows ==
    ASSUME NEW c \in Tariff, NEW r, NEW m \in Nat
    PROVE  /\ Extra(c, m, r) \in Nat
           /\ \A l \in Nat : l =< m => Extra(c, l, r) =< Extra(c, m, r)
           /\ Charges(c, m) /\ r \notin {"up_to_block", "exact_minutes"} => Extra(c, m, r) >= c.block_rate
<1>0. c.block_minutes \in Nat /\ c.block_rate \in Nat
  BY DEF Tariff
<1>1. ASSUME NEW n \in Nat, Charges(c, n)
      PROVE  /\ WholeBlocks(c, n, r) \in Nat
             /\ r # "up_to_block" => WholeBlocks(c, n, r) >= 1
             /\ HalfUp(Overrun(c, n) * c.block_rate, c.block_minutes) \in Nat
  <2>1. Overrun(c, n) \in Nat /\ c.block_minutes > 0
    BY <1>1, OverrunGrows
  <2>2. Overrun(c, n) * c.block_rate \in Nat
    BY <1>0, <2>1, Quotients
  <2>3. Ceiling(Overrun(c, n), c.block_minutes) \in Nat /\ HalfUp(Overrun(c, n), c.block_minutes) \in Nat
    BY <1>0, <2>1, RoundedUp
  <2>4. HalfUp(Overrun(c, n) * c.block_rate, c.block_minutes) \in Nat
    BY <1>0, <2>1, <2>2, RoundedUp
  <2> QED BY <2>3, <2>4 DEF WholeBlocks, AtLeast
<1>2. ASSUME NEW n \in Nat PROVE Extra(c, n, r) \in Nat
  <2>1. CASE ~Charges(c, n)
    BY <2>1 DEF Extra
  <2>2. CASE Charges(c, n)
    <3>1. WholeBlocks(c, n, r) * c.block_rate \in Nat
      BY <1>0, <1>1, <2>2, Quotients
    <3> QED BY <1>1, <2>2, <3>1 DEF Extra
  <2> QED BY <2>1, <2>2
<1>3. ASSUME NEW l \in Nat, l =< m PROVE Extra(c, l, r) =< Extra(c, m, r)
  <2>1. CASE ~Charges(c, l)
    BY <1>2, <2>1 DEF Extra
  <2>2. CASE Charges(c, l)
    <3>1. Charges(c, m) /\ c.block_minutes > 0
      BY <1>3, <2>2, OverrunGrows
    <3>2. Overrun(c, l) \in Nat /\ Overrun(c, m) \in Nat /\ Overrun(c, l) =< Overrun(c, m)
      BY <1>3, OverrunGrows
    <3>3. WholeBlocks(c, l, r) =< WholeBlocks(c, m, r)
      <4>1. /\ Ceiling(Overrun(c, l), c.block_minutes) =< Ceiling(Overrun(c, m), c.block_minutes)
            /\ HalfUp(Overrun(c, l), c.block_minutes) =< HalfUp(Overrun(c, m), c.block_minutes)
        BY <1>0, <3>1, <3>2, RoundedUp
      <4>2. HalfUp(Overrun(c, l), c.block_minutes) \in Nat /\ HalfUp(Overrun(c, m), c.block_minutes) \in Nat
        BY <1>0, <3>1, <3>2, RoundedUp
      <4> QED BY <4>1, <4>2 DEF WholeBlocks, AtLeast
    <3>4. WholeBlocks(c, l, r) * c.block_rate =< WholeBlocks(c, m, r) * c.block_rate
      BY <1>0, <1>1, <2>2, <3>1, <3>3, Quotients
    <3>5. HalfUp(Overrun(c, l) * c.block_rate, c.block_minutes)
            =< HalfUp(Overrun(c, m) * c.block_rate, c.block_minutes)
      <4>1. /\ Overrun(c, l) * c.block_rate \in Nat /\ Overrun(c, m) * c.block_rate \in Nat
            /\ Overrun(c, l) * c.block_rate =< Overrun(c, m) * c.block_rate
        BY <1>0, <3>2, Quotients
      <4> QED BY <1>0, <3>1, <4>1, RoundedUp
    <3> QED BY <2>2, <3>1, <3>4, <3>5 DEF Extra
  <2> QED BY <2>1, <2>2
<1>4. ASSUME Charges(c, m), r \notin {"up_to_block", "exact_minutes"} PROVE Extra(c, m, r) >= c.block_rate
  <2>1. 1 * c.block_rate =< WholeBlocks(c, m, r) * c.block_rate
    BY <1>0, <1>1, <1>4, Quotients
  <2>2. WholeBlocks(c, m, r) * c.block_rate \in Int
    BY <1>0, <1>1, <1>4
  <2> QED BY <1>0, <1>4, <2>1, <2>2 DEF Extra
<1> QED BY <1>2, <1>3, <1>4

\* The blocks that began are those the quotient counts.
LEMMA BlocksAreCounted ==
    ASSUME MeterTypes, card \in Tariff, Charges(card, minutes)
    PROVE  BlocksBegun = Ceiling(Overrun(card, minutes), card.block_minutes)
<1>1. /\ minutes \in Nat /\ minutes =< MaxMinutes /\ MaxMinutes \in Nat
      /\ Covered(card) \in Nat /\ card.block_minutes \in Nat /\ card.block_minutes > 0
      /\ Overrun(card, minutes) = minutes - Covered(card) /\ Overrun(card, minutes) \in Nat
  <2>1. minutes \in Nat /\ minutes =< MaxMinutes /\ MaxMinutes \in Nat
    BY PricingAssumption DEF MeterTypes
  <2>2. card.block_minutes \in Nat
    BY DEF Tariff
  <2> QED BY <2>1, <2>2, OverrunGrows
<1>2. PICK over, block, q : /\ over = Overrun(card, minutes) /\ block = card.block_minutes
                            /\ q = Ceiling(over, block)
  OBVIOUS
<1>3. q \in Nat /\ \A k \in Nat : k * block < over <=> k < q
  BY <1>1, <1>2, RoundedUp
<1>4. ASSUME NEW k \in Nat, k < q PROVE k =< MaxMinutes
  <2>1. k * block < over
    BY <1>3, <1>4
  <2>2. 1 * k =< block * k
    BY <1>1, <1>2, Quotients
  <2>3. k * block \in Int /\ block * k = k * block /\ over =< MaxMinutes /\ over \in Int
    BY <1>1, <1>2
  <2> QED BY <1>1, <2>1, <2>2, <2>3
<1>5. \A k \in Nat : Covered(card) + k * block < minutes <=> k < q
  <2> TAKE k \in Nat
  <2>1. k * block \in Int
    BY <1>1, <1>2
  <2>2. Covered(card) + k * block < minutes <=> k * block < over
    BY <1>1, <1>2, <2>1
  <2> QED BY <1>3, <2>2
<1>6. {k \in 0 .. MaxMinutes : Covered(card) + k * card.block_minutes < minutes} = 0 .. q - 1
  <2>1. \A k : k \in 0 .. MaxMinutes /\ Covered(card) + k * block < minutes <=> k \in 0 .. q - 1
    BY <1>1, <1>3, <1>4, <1>5
  <2> QED BY <1>2, <2>1
<1>7. Cardinality(0 .. q - 1) = q
  BY <1>3, FS_Interval
<1> QED BY <1>2, <1>6, <1>7 DEF BlocksBegun

\* So every visit is charged as its price card says.
LEMMA BlocksCharged == MeterTypes => BlocksAreCharged
<1> SUFFICES ASSUME MeterTypes PROVE BlocksAreCharged
  OBVIOUS
<1>1. card \in Tariff /\ rounding \in {"up_to_block", "nearest_block", "exact_minutes"}
  BY PricingAssumption DEF MeterTypes, Tariff
<1>2. minutes \in Nat
  BY PricingAssumption DEF MeterTypes
<1>3. /\ card.entry_fee \in Nat /\ card.block_rate \in Nat /\ card.daily_cap \in Nat
      /\ card.block_minutes \in Nat
  BY <1>1 DEF Tariff
<1>4. Extra(card, minutes, rounding) \in Nat
  BY <1>1, <1>2, ExtraGrows
<1> DEFINE Cut(sum) == IF Capped(card, sum) THEN card.daily_cap ELSE sum
<1>5. \A x, y \in Int : x =< y => Cut(x) =< Cut(y)
  BY <1>3 DEF Capped
<1>6. \A n : Charge(card, n, rounding) = Cut(card.entry_fee + Extra(card, n, rounding))
  BY DEF Charge
<1> HIDE DEF Cut
<1>7. ASSUME rounding = "up_to_block"
      PROVE  Quote = Cut(card.entry_fee
                         + (IF Charges(card, minutes) THEN BlocksBegun ELSE 0) * card.block_rate)
  <2>1. Extra(card, minutes, rounding)
          = (IF Charges(card, minutes) THEN BlocksBegun ELSE 0) * card.block_rate
    <3>1. CASE Charges(card, minutes)
      BY <1>1, <1>7, <3>1, BlocksAreCounted DEF Extra, WholeBlocks
    <3>2. CASE ~Charges(card, minutes)
      <4>1. 0 * card.block_rate = 0
        BY <1>3
      <4> QED BY <3>2, <4>1 DEF Extra
    <3> QED BY <3>1, <3>2
  <2> QED BY <1>6, <2>1 DEF Quote
<1>8. Quote >= Cut(card.entry_fee
                   + (IF Charges(card, minutes) /\ rounding = "nearest_block" THEN 1 ELSE 0)
                     * card.block_rate)
  <2>1. PICK least : least = (IF Charges(card, minutes) /\ rounding = "nearest_block" THEN 1 ELSE 0)
                             * card.block_rate
    OBVIOUS
  <2>2. least \in Nat /\ least =< Extra(card, minutes, rounding)
    <3>1. CASE Charges(card, minutes) /\ rounding = "nearest_block"
      <4>1. least = card.block_rate
        BY <1>3, <2>1, <3>1
      <4>2. Extra(card, minutes, rounding) >= card.block_rate
        BY <1>1, <1>2, <3>1, ExtraGrows
      <4> QED BY <1>3, <1>4, <4>1, <4>2
    <3>2. CASE ~(Charges(card, minutes) /\ rounding = "nearest_block")
      <4>1. least = 0
        BY <1>3, <2>1, <3>2
      <4> QED BY <1>4, <4>1
    <3> QED BY <3>1, <3>2
  <2>3. PICK x, y : x = card.entry_fee + least /\ y = card.entry_fee + Extra(card, minutes, rounding)
    OBVIOUS
  <2>4. x \in Int /\ y \in Int /\ x =< y
    BY <1>3, <1>4, <2>2, <2>3
  <2>5. Cut(x) =< Cut(y)
    BY <1>5, <2>4
  <2>6. Quote = Cut(y)
    BY <1>6, <2>3 DEF Quote
  <2> QED BY <2>1, <2>3, <2>5, <2>6
<1>9. ASSUME minutes > 0 PROVE Quote >= Charge(card, minutes - 1, rounding)
  <2>1. minutes - 1 \in Nat /\ minutes - 1 =< minutes
    BY <1>2, <1>9
  <2>2. PICK m : m = minutes - 1
    OBVIOUS
  <2>3. Extra(card, m, rounding) \in Nat /\ Extra(card, m, rounding) =< Extra(card, minutes, rounding)
    BY <1>1, <1>2, <2>1, <2>2, ExtraGrows
  <2>4. PICK x, y : /\ x = card.entry_fee + Extra(card, m, rounding)
                    /\ y = card.entry_fee + Extra(card, minutes, rounding)
    OBVIOUS
  <2>5. x \in Int /\ y \in Int /\ x =< y
    BY <1>3, <1>4, <2>3, <2>4
  <2>6. Cut(x) =< Cut(y)
    BY <1>5, <2>5
  <2>7. Quote = Cut(y) /\ Charge(card, m, rounding) = Cut(x)
    BY <1>6, <2>4 DEF Quote
  <2> QED BY <2>2, <2>6, <2>7
<1> QED BY <1>7, <1>8, <1>9 DEF BlocksAreCharged, Cut

\* play/pricing.py: for every price card, rounding and length of a visit, whatever the grace, the block and the cap, the blocks that began are charged, one at least, and a longer visit costs no less.
THEOREM BlocksAreChargedHolds == MeterSpec => []BlocksAreCharged
BY MeterTyped, BlocksCharged, PTL

-----------------------------------------------------------------------------
(* All of them.                                                            *)

\* The components share no state: what one may do alone it does beside the others.
LEMMA EachBehaves ==
    MCSpec => /\ PlaySpec /\ TillSpec /\ TillDrawerSpec
              /\ LicenceSpec /\ AlertsSpec /\ BackupsSpec
<1>1. MCInit => /\ PlayInit /\ TillInit /\ TillDrawerInit
                /\ LicenceInit /\ AlertsInit /\ BackupsInit
  BY DEF MCInit
<1>2. [MCNext]_mcVars => [PlayNext]_playVars
  BY DEF MCNext, mcVars
<1>3. [MCNext]_mcVars => [TillNext]_tillVars
  BY DEF MCNext, mcVars
<1>4. [MCNext]_mcVars => [TillDrawerNext]_tillDrawerVars
  BY DEF MCNext, mcVars
<1>5. [MCNext]_mcVars => [LicenceNext]_licenceVars
  BY DEF MCNext, mcVars
<1>6. [MCNext]_mcVars => [AlertsNext]_alertVars
  BY DEF MCNext, mcVars
<1>7. [MCNext]_mcVars => [BackupsNext]_backupVars
  BY DEF MCNext, mcVars
<1> QED BY <1>1, <1>2, <1>3, <1>4, <1>5, <1>6, <1>7, PTL
        DEF MCSpec, PlaySpec, TillSpec, TillDrawerSpec, LicenceSpec, AlertsSpec, BackupsSpec

\* Whatever happens beside the counter, sessions, events, drawers, tokens, sweeps
\* and runs keep the shape the programs give them.
THEOREM TerminalsTyping == MCSpec => []TypesOK
<1>1. PlayTypeOK /\ TillTypeOK /\ TillDrawerTypeOK
        /\ LicenceTypeOK /\ AlertsTypeOK /\ BackupsTypeOK => TypesOK
  BY DEF TypesOK
<1> QED BY <1>1, EachBehaves, PlayTyping, TillTyping, TillDrawerTyping, PlanAndTokensAreHeld,
           ToldOnceHolds, SurvivorsReachHolds, PTL
=============================================================================

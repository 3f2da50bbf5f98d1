------------------------ MODULE PendingMultisigProofs ------------------------
(***************************************************************************)
(* A pending multisig request is never lost and never finalized below its  *)
(* threshold, for any number of calls, participants, configurations and    *)
(* signature shares; and a participant is shown, and signs, what the       *)
(* transaction behind the hash does, whatever the channel did to the       *)
(* request.                                                                *)
(***************************************************************************)
EXTENDS MultisigParticipant, TLAPS

\* A leaf that takes the provers longer than their five seconds may take thirty.
USE SMTT(30), ZenonT(30)

RequestRecord == [generation : Nat, hash : Hash \cup {NoHash},
                  configuration : Configuration \cup {NoConfiguration}]

Share == [version : {Version}, signing_hash : Hash, signer_id : Nat,
          signature : [key : Key, message : Hash, canonical : {TRUE}],
          text : {"canonical"}]

CallRecord == [pc : Location, request : RequestRecord, shares : Seq(Share),
               outcome : Outcome]

TypeOK ==
  /\ request \in RequestRecord
  /\ next_generation \in Nat
  /\ stored \in Configuration \cup {NoConfiguration}
  /\ preparing \in Call \cup {NoCall, Other}
  /\ submitting \in BOOLEAN
  /\ call \in [Call -> CallRecord]
  /\ issued \subseteq Nat \X Hash
  /\ shares \subseteq Share

\* The slot is not submitting while somebody prepares.
Guarded == preparing # NoCall => ~submitting

\* A stored request has a generation that was allocated, and a configuration.
StoreFaithful ==
  request # NoRequest =>
    /\ request.generation \in 1 .. next_generation
    /\ request.hash \in Hash
    /\ request.configuration \in Configuration

\* What a call has established: a finalization that took a request has verified
\* its shares against the configuration stored with it, and holds the guard.
CallFaithful(c) ==
  /\ call[c].pc \in {"building", "storing"} =>
       call[c].request.configuration \in Configuration
  /\ call[c].pc = "storing" => call[c].request.hash \in Hash
  /\ call[c].pc \in {"finalizing", "committing", "setupBuilding"} => preparing = c
  /\ call[c].pc = "committing" =>
       /\ call[c].request.configuration \in Configuration
       /\ BuildVerified(call[c].request.hash, call[c].request.configuration,
                        call[c].shares)

IInv ==
  /\ TypeOK
  /\ Guarded
  /\ StoreFaithful
  /\ \A c \in Call : CallFaithful(c)
  /\ RequestNotLost
  /\ ThresholdMet

\* Shares that pass the verification are signatures of different participants:
\* ids are positions, and a configuration lists every key once.
LEMMA VerifiedShares ==
  ASSUME NEW hash, NEW f \in Configuration, NEW s \in Seq(Share),
         BuildVerified(hash, f, s)
  PROVE  /\ Len(s) = f.threshold
         /\ \A i \in DOMAIN s :
              /\ s[i].signature.message = hash
              /\ s[i].signature.key \in Range(f.participants)
         /\ \A i, j \in DOMAIN s :
              s[i].signature.key = s[j].signature.key => i = j
<1>1. /\ f.participants \in Seq(Key)
      /\ \A i, j \in DOMAIN f.participants :
           f.participants[i] = f.participants[j] => i = j
  BY ConstantsAssumption, Zenon
<1>2. ASSUME NEW i \in DOMAIN s
      PROVE  /\ s[i].signer_id \in Nat
             /\ s[i].signer_id + 1 \in DOMAIN f.participants
             /\ s[i].signature.message = hash
             /\ s[i].signature.key = f.participants[s[i].signer_id + 1]
  <2>1. s[i].signer_id \in Nat
    <3>1. s[i] \in Share
      OBVIOUS
    <3>. QED BY <3>1, Zenon DEF Share
  <2>2. VerifySignature(hash, f, s[i])
    BY Zenon DEF BuildVerified
  <2>. QED BY <1>1, <2>1, <2>2 DEF VerifySignature, Verify
<1>3. ASSUME NEW i \in DOMAIN s, NEW j \in DOMAIN s,
             s[i].signature.key = s[j].signature.key
      PROVE  i = j
  <2>1. s[i].signer_id + 1 = s[j].signer_id + 1
    BY <1>1, <1>2, <1>3
  <2>2. s[i].signer_id = s[j].signer_id
    BY <1>2, <2>1
  <2>. QED BY <2>2, Zenon DEF BuildVerified
<1>4. \A i \in DOMAIN s : s[i].signature.key \in Range(f.participants)
  BY <1>2, Zenon DEF Range
<1>. QED BY <1>2, <1>3, <1>4 DEF BuildVerified

\* The two ways in which a call is updated.
LEMMA GotoType ==
  ASSUME TypeOK, NEW c \in Call, NEW pc \in Location, NEW r \in RequestRecord,
         NEW s \in Seq(Share), Goto(c, pc, r, s)
  PROVE  /\ call' \in [Call -> CallRecord]
         /\ \A d \in Call \ {c} : call'[d] = call[d]
         /\ call'[c].pc = pc /\ call'[c].request = r /\ call'[c].shares = s
<1>1. [pc |-> pc, request |-> r, shares |-> s, outcome |-> "none"] \in CallRecord
  BY Zenon DEF CallRecord, Outcome
<1>. QED BY <1>1, Zenon DEF TypeOK, Goto

LEMMA ReturnType ==
  ASSUME TypeOK, NEW c \in Call, NEW out \in Outcome, Return(c, out)
  PROVE  /\ call' \in [Call -> CallRecord]
         /\ \A d \in Call \ {c} : call'[d] = call[d]
         /\ call'[c].pc = "idle"
<1>1. NoRequest \in RequestRecord /\ <<>> \in Seq(Share) /\ "idle" \in Location
  BY DEF NoRequest, None, RequestRecord, Location
<1>2. [pc |-> "idle", request |-> NoRequest, shares |-> <<>>, outcome |-> out]
        \in CallRecord
  BY <1>1, Zenon DEF CallRecord
<1>. QED BY <1>2, Zenon DEF TypeOK, Return

LEMMA NoRequestType ==
  NoRequest \in RequestRecord /\ <<>> \in Seq(Share)
BY DEF NoRequest, None, RequestRecord

LEMMA InitInv == Init => IInv
<1>. SUFFICES ASSUME Init PROVE IInv
  OBVIOUS
<1>1. \A c \in Call : call[c] \in CallRecord /\ call[c].pc = "idle"
  BY NoRequestType, Zenon DEF Init, CallRecord, Location, Outcome
<1>2. TypeOK
  BY <1>1, NoRequestType, Zenon DEF Init, TypeOK
<1>3. Guarded /\ StoreFaithful /\ \A c \in Call : CallFaithful(c)
  BY <1>1, Zenon DEF Init, Guarded, StoreFaithful, CallFaithful
<1>4. RequestNotLost /\ ThresholdMet
  BY DEF Init, RequestNotLost, ThresholdMet
<1>. QED BY <1>2, <1>3, <1>4 DEF IInv

\* A step of a call that reads only, and keeps to the first points of a call.
LEMMA ReadingStep ==
  ASSUME IInv, NEW c \in Call, Unchanged,
         call' \in [Call -> CallRecord],
         \A d \in Call \ {c} : call'[d] = call[d],
         ~At(c, "committing"),
         CallFaithful(c)'
  PROVE  IInv'
<1>1. /\ UNCHANGED <<request, next_generation, stored, preparing, submitting, slot>>
      /\ UNCHANGED <<issued, shares, cancelled, finalized>>
  BY Zenon DEF Unchanged, prepared, history
<1>2. TypeOK'
  BY <1>1, Zenon DEF IInv, TypeOK
<1>3. Guarded' /\ StoreFaithful'
  BY <1>1, Zenon DEF IInv, Guarded, StoreFaithful
<1>4. \A d \in Call : CallFaithful(d)'
  BY <1>1, Zenon DEF IInv, CallFaithful
<1>5. RequestNotLost'
  BY <1>1 DEF IInv, RequestNotLost, At
<1>6. ThresholdMet'
  BY <1>1, Zenon DEF IInv, ThresholdMet
<1>. QED BY <1>2, <1>3, <1>4, <1>5, <1>6 DEF IInv

\* Calls that return, or go on to a point where they hold nothing.
LEMMA Plain ==
  ASSUME IInv, NEW c \in Call, Unchanged, ~At(c, "committing"),
         \/ \E out \in Outcome : Return(c, out)
         \/ \E pc \in {"readingBalance", "estimating", "checking", "reading",
                        "setupReading", "setupBeginning"} :
              Goto(c, pc, NoRequest, <<>>)
  PROVE  IInv'
<1>1. CASE \E out \in Outcome : Return(c, out)
  <2>1. /\ call' \in [Call -> CallRecord]
        /\ \A d \in Call \ {c} : call'[d] = call[d]
        /\ call'[c].pc = "idle"
    BY <1>1, ReturnType, Zenon DEF IInv
  <2>2. CallFaithful(c)'
    BY <2>1, Zenon DEF CallFaithful
  <2>. QED BY <2>1, <2>2, ReadingStep
<1>2. ASSUME NEW pc \in {"readingBalance", "estimating", "checking", "reading",
                         "setupReading", "setupBeginning"},
             Goto(c, pc, NoRequest, <<>>)
      PROVE  IInv'
  <2>1. pc \in Location
    BY Zenon DEF Location
  <2>2. /\ call' \in [Call -> CallRecord]
        /\ \A d \in Call \ {c} : call'[d] = call[d]
        /\ call'[c].pc = pc
    BY <1>2, <2>1, GotoType, NoRequestType, Zenon DEF IInv
  <2>3. CallFaithful(c)'
    BY <2>2, Zenon DEF CallFaithful
  <2>. QED BY <2>2, <2>3, ReadingStep
<1>. QED BY <1>1, <1>2

LEMMA OutcomeErrors ==
  ASSUME NEW g, NEW h, NEW passes
  PROVE  /\ ExpectedError(g, h) \in Outcome
         /\ ValidateError(g, h, passes) \in Outcome
         /\ InsertError \in Outcome
BY Zenon DEF ExpectedError, ValidateError, InsertError, Outcome

LEMMA StartReads ==
  ASSUME IInv, NEW c \in Call,
         \/ CreateTransfers(c) \/ CreateTransferAll(c) \/ CreateBurn(c)
         \/ CreateBurnAll(c) \/ InitDelete(c) \/ GetState(c)
         \/ \E in \in SetupInput : BeginSetup(c, in)
         \/ \E a : AddressValid(c, a)
         \/ \E g, h, share : InspectShare(c, g, h, share)
  PROVE  IInv'
<1>1. {"invalid", "failed", "none", "ok"} \subseteq Outcome
  BY Zenon DEF Outcome
<1>2. ASSUME NEW pc \in {"estimating", "readingBalance"}, BeginCreate(c, pc)
      PROVE  IInv'
  BY <1>1, <1>2, Plain DEF BeginCreate, At
<1>3. ASSUME NEW g, NEW h, NEW share, InspectShare(c, g, h, share)
      PROVE  IInv'
  <2>. DEFINE out == IF ~ParseShare(share, h) THEN "invalid"
                     ELSE ValidateError(g, h, VerifySignature(h,
                                          request.configuration, share))
  <2>1. out \in Outcome
    BY <1>1, OutcomeErrors
  <2>2. Return(c, out) /\ Unchanged /\ At(c, "idle")
    BY <1>3, Zenon DEF InspectShare
  <2>. HIDE DEF out
  <2>. QED BY <2>1, <2>2, Plain DEF At
<1>4. ASSUME GetState(c) PROVE IInv'
  BY <1>1, <1>4, Plain DEF GetState, At
<1>5. ASSUME NEW in \in SetupInput, BeginSetup(c, in) PROVE IInv'
  BY <1>1, <1>5, Plain DEF BeginSetup, At
<1>6. ASSUME NEW a, AddressValid(c, a) PROVE IInv'
  BY <1>1, <1>6, Plain DEF AddressValid, At
<1>. QED BY <1>2, <1>3, <1>4, <1>5, <1>6
         DEF CreateTransfers, CreateTransferAll, CreateBurn, CreateBurnAll, InitDelete

LEMMA ContinueReads ==
  ASSUME IInv, NEW c \in Call,
         ReadBalance(c) \/ EstimateFee(c) \/ CheckPending(c) \/ SetupReads(c)
  PROVE  IInv'
<1>1. {"failed", "AlreadyPending", "AlreadyConfigured"} \subseteq Outcome
  BY Zenon DEF Outcome
<1>. QED BY <1>1, Plain DEF ReadBalance, EstimateFee, CheckPending, SetupReads, At

\* The configuration and the hash travel with the call.
LEMMA ReadConfigurationInv ==
  ASSUME IInv, NEW c \in Call, ReadConfiguration(c)
  PROVE  IInv'
<1>1. CASE Return(c, "failed") \/ Return(c, "NotFound")
  <2>1. {"failed", "NotFound"} \subseteq Outcome
    BY Zenon DEF Outcome
  <2>. QED BY <1>1, <2>1, Plain DEF ReadConfiguration, At
<1>2. CASE stored # NoConfiguration
             /\ Goto(c, "building", Request(None, NoHash, stored), <<>>)
  <2>. DEFINE read == Request(None, NoHash, stored)
  <2>1. /\ read \in RequestRecord /\ "building" \in Location
        /\ read.configuration = stored
    BY Zenon DEF Request, RequestRecord, None, Location, IInv, TypeOK
  <2>2. Goto(c, "building", read, <<>>) /\ TypeOK
    BY <1>2, Zenon DEF IInv
  <2>. HIDE DEF read
  <2>3. /\ call' \in [Call -> CallRecord]
        /\ \A d \in Call \ {c} : call'[d] = call[d]
        /\ call'[c].pc = "building" /\ call'[c].request = read
    BY <2>1, <2>2, GotoType, NoRequestType, Zenon
  <2>4. CallFaithful(c)'
    BY <1>2, <2>1, <2>3 DEF CallFaithful, IInv, TypeOK
  <2>. QED BY <2>3, <2>4, ReadingStep DEF ReadConfiguration, At
<1>. QED BY <1>1, <1>2, Zenon DEF ReadConfiguration

LEMMA BuildUnsignedInv ==
  ASSUME IInv, NEW c \in Call, BuildUnsigned(c)
  PROVE  IInv'
<1>1. CASE Return(c, "failed")
  <2>1. "failed" \in Outcome
    BY Zenon DEF Outcome
  <2>. QED BY <1>1, <2>1, Plain DEF BuildUnsigned, At
<1>2. ASSUME NEW h \in Hash,
             Goto(c, "storing", Request(None, h, call[c].request.configuration), <<>>)
      PROVE  IInv'
  <2>. DEFINE built == Request(None, h, call[c].request.configuration)
  <2>1. call[c].request.configuration \in Configuration
    BY Zenon DEF BuildUnsigned, At, IInv, CallFaithful
  <2>2. /\ built \in RequestRecord /\ "storing" \in Location
        /\ built.configuration = call[c].request.configuration
        /\ built.hash = h
    BY <2>1, Zenon DEF Request, RequestRecord, None, Location
  <2>3. Goto(c, "storing", built, <<>>) /\ TypeOK
    BY <1>2, Zenon DEF IInv
  <2>. HIDE DEF built
  <2>4. /\ call' \in [Call -> CallRecord]
        /\ \A d \in Call \ {c} : call'[d] = call[d]
        /\ call'[c].pc = "storing" /\ call'[c].request = built
    BY <2>2, <2>3, GotoType, NoRequestType, Zenon
  <2>5. CallFaithful(c)'
    BY <2>1, <2>2, <2>4 DEF CallFaithful
  <2>. QED BY <2>4, <2>5, ReadingStep DEF BuildUnsigned, At
<1>. QED BY <1>1, <1>2 DEF BuildUnsigned

\* The insertion: an older request is not replaced, so its generation stays.
LEMMA StorePendingInv ==
  ASSUME IInv, NEW c \in Call, StorePending(c)
  PROVE  IInv'
<1>1. {"failed", "ok"} \subseteq Outcome
  BY Zenon DEF Outcome
<1>2. CASE \E out \in Outcome : Return(c, out) /\ UNCHANGED <<request, next_generation, issued>>
  BY <1>2, Plain DEF StorePending, At, Unchanged, history
<1>3. CASE /\ InsertError = "ok"
           /\ next_generation' = next_generation + 1
           /\ request' = Request(next_generation + 1, call[c].request.hash,
                                 call[c].request.configuration)
           /\ issued' = issued \cup {<<next_generation + 1, call[c].request.hash>>}
           /\ Return(c, "ok")
  <2>1. /\ call' \in [Call -> CallRecord]
        /\ \A d \in Call \ {c} : call'[d] = call[d]
        /\ call'[c].pc = "idle"
    BY <1>1, <1>3, ReturnType DEF IInv
  <2>2. /\ UNCHANGED <<stored, preparing, submitting, slot>>
        /\ UNCHANGED <<shares, cancelled, finalized>>
        /\ call[c].pc = "storing"
    BY Zenon DEF StorePending, prepared, At
  <2>3. call[c].request.configuration \in Configuration /\ call[c].request.hash \in Hash
    BY <2>2, Zenon DEF IInv, CallFaithful
  <2>4. request = NoRequest /\ next_generation \in Nat
    BY <1>3, Zenon DEF InsertError, IInv, TypeOK
  <2>5. request' \in RequestRecord
    BY <1>3, <2>3, <2>4 DEF Request, RequestRecord
  <2>6. TypeOK'
    BY <1>3, <2>1, <2>2, <2>3, <2>4, <2>5 DEF IInv, TypeOK
  <2>7. Guarded' /\ StoreFaithful'
    BY <1>3, <2>2, <2>3, <2>4 DEF IInv, Guarded, StoreFaithful, Request
  <2>8. \A d \in Call : CallFaithful(d)'
    BY <2>1, <2>2, Zenon DEF IInv, CallFaithful
  <2>9. RequestNotLost'
    <3>1. request.generation = 0 /\ request'.generation = next_generation + 1
      BY <1>3, <2>4 DEF NoRequest, None, Request
    <3>. SUFFICES ASSUME NEW g \in 1 .. next_generation
                  PROVE  \/ g \in cancelled'
                         \/ \E f \in finalized' : f.generation = g
                         \/ \E d \in Call : /\ At(d, "committing")'
                                            /\ call'[d].request.generation = g
                                            /\ preparing' = d /\ ~submitting'
      BY <1>3, <2>4, <3>1 DEF RequestNotLost, At
    <3>. QED BY <2>1, <2>2, <3>1 DEF IInv, RequestNotLost, At
  <2>10. ThresholdMet'
    BY <2>2, Zenon DEF IInv, ThresholdMet
  <2>. QED BY <2>6, <2>7, <2>8, <2>9, <2>10 DEF IInv
<1>. QED BY <1>1, <1>2, <1>3, OutcomeErrors DEF StorePending

LEMMA CancelPendingInv ==
  ASSUME IInv, NEW c \in Call, NEW g, NEW h, CancelPending(c, g, h)
  PROVE  IInv'
<1>0. Return(c, ExpectedError(g, h)) /\ ExpectedError(g, h) \in Outcome
  BY OutcomeErrors, Zenon DEF CancelPending
<1>1. CASE ExpectedError(g, h) # "ok"
  BY <1>0, <1>1, Plain DEF CancelPending, At, Unchanged, history
<1>2. CASE ExpectedError(g, h) = "ok"
  <2>1. /\ call' \in [Call -> CallRecord]
        /\ \A d \in Call \ {c} : call'[d] = call[d]
        /\ call'[c].pc = "idle"
    BY <1>0, ReturnType DEF IInv
  <2>2. /\ UNCHANGED <<next_generation, stored, preparing, submitting, slot>>
        /\ UNCHANGED <<issued, shares, finalized>>
        /\ request' = NoRequest /\ cancelled' = cancelled \cup {g}
        /\ request.generation = g
        /\ call[c].pc = "idle"
    BY <1>2, Zenon DEF CancelPending, prepared, At, ExpectedError
  <2>3. TypeOK'
    BY <2>1, <2>2, NoRequestType DEF IInv, TypeOK
  <2>4. Guarded' /\ StoreFaithful'
    BY <2>2, Zenon DEF IInv, Guarded, StoreFaithful
  <2>5. \A d \in Call : CallFaithful(d)'
    BY <2>1, <2>2, Zenon DEF IInv, CallFaithful
  <2>6. RequestNotLost'
    BY <2>1, <2>2 DEF IInv, RequestNotLost, At
  <2>7. ThresholdMet'
    BY <2>2, Zenon DEF IInv, ThresholdMet
  <2>. QED BY <2>3, <2>4, <2>5, <2>6, <2>7 DEF IInv
<1>. QED BY <1>1, <1>2, Zenon

\* Taking and dropping the preparation guard, with nothing in the store moved.
LEMMA GuardStep ==
  ASSUME IInv, NEW c \in Call, ~At(c, "committing"),
         UNCHANGED <<request, next_generation, stored, submitting, history>>,
         call' \in [Call -> CallRecord],
         \A d \in Call \ {c} : call'[d] = call[d],
         CallFaithful(c)',
         \/ preparing' = c /\ SlotFree
         \/ preparing' = Abandoned(c)
  PROVE  IInv'
<1>1. /\ UNCHANGED <<request, next_generation, stored, submitting>>
      /\ UNCHANGED <<issued, shares, cancelled, finalized>>
  BY Zenon DEF history
<1>2. NoCall \notin Call
  BY ConstantsAssumption, Zenon
<1>3. TypeOK'
  BY <1>1, Zenon DEF IInv, TypeOK, Abandoned
<1>4. Guarded' /\ StoreFaithful'
  BY <1>1 DEF IInv, Guarded, StoreFaithful, SlotFree, Abandoned
<1>5. \A d \in Call \ {c} : preparing = d => preparing' = d
  BY <1>2, Zenon DEF SlotFree, Abandoned
<1>6. \A d \in Call : CallFaithful(d)'
  BY <1>5, Zenon DEF IInv, CallFaithful
<1>7. RequestNotLost'
  BY <1>1, <1>5 DEF IInv, RequestNotLost, At
<1>8. ThresholdMet'
  BY <1>1, Zenon DEF IInv, ThresholdMet
<1>. QED BY <1>3, <1>4, <1>6, <1>7, <1>8 DEF IInv

LEMMA BeginFinalizeInv ==
  ASSUME IInv, NEW c \in Call, NEW p \in issued,
         NEW s \in Presented,
         BeginFinalize(c, p[1], p[2], s)
  PROVE  IInv'
<1>1. {"invalid", "SlotBusy"} \subseteq Outcome
  BY Zenon DEF Outcome
<1>2. CASE \E out \in Outcome : Return(c, out) /\ UNCHANGED preparing
  BY <1>2, Plain, Zenon DEF BeginFinalize, At, Unchanged, prepared
<1>3. CASE /\ SlotFree /\ BeginGuard(c)
           /\ Goto(c, "finalizing", Request(p[1], p[2], NoConfiguration), s)
  <2>1. p[1] \in Nat /\ p[2] \in Hash
    BY Zenon DEF IInv, TypeOK
  <2>2. Request(p[1], p[2], NoConfiguration) \in RequestRecord
    BY <2>1, Zenon DEF Request, RequestRecord
  <2>3. s \in Seq(Share)
    <3>1. PICK m \in 0 .. MaxShares : s \in [1 .. m -> shares]
      BY ConstantsAssumption, Zenon DEF Presented
    <3>2. s \in [1 .. m -> Share] /\ m \in Nat
      BY <3>1 DEF IInv, TypeOK
    <3>. QED BY <3>2
  <2>4. /\ call' \in [Call -> CallRecord]
        /\ \A d \in Call \ {c} : call'[d] = call[d]
        /\ call'[c].pc = "finalizing"
    BY <1>3, <2>2, <2>3, GotoType DEF IInv, Location
  <2>5. preparing' = c
    BY <1>3, Zenon DEF BeginGuard
  <2>6. CallFaithful(c)'
    BY <2>4, <2>5, Zenon DEF CallFaithful
  <2>. QED BY <1>3, <2>4, <2>5, <2>6, GuardStep DEF BeginFinalize, At
<1>. QED BY <1>1, <1>2, <1>3 DEF BeginFinalize

LEMMA SetupSteps ==
  ASSUME IInv, NEW c \in Call, SetupBegins(c) \/ SetupEnds(c)
  PROVE  IInv'
<1>1. {"SlotBusy", "failed", "ok"} \subseteq Outcome
  BY Zenon DEF Outcome
<1>2. ASSUME NEW out \in Outcome, Return(c, out)
      PROVE  /\ call' \in [Call -> CallRecord]
             /\ \A d \in Call \ {c} : call'[d] = call[d]
             /\ CallFaithful(c)'
  BY <1>2, ReturnType, Zenon DEF IInv, CallFaithful
<1>3. CASE SetupBegins(c)
  <2>1. CASE Return(c, "SlotBusy") /\ UNCHANGED preparing
    BY <1>1, <1>3, <2>1, Plain DEF SetupBegins, At, Unchanged, prepared
  <2>2. CASE SlotFree /\ BeginGuard(c) /\ Goto(c, "setupBuilding", NoRequest, <<>>)
    <3>1. /\ call' \in [Call -> CallRecord]
          /\ \A d \in Call \ {c} : call'[d] = call[d]
          /\ call'[c].pc = "setupBuilding"
      BY <2>2, GotoType, NoRequestType, Zenon DEF IInv, Location
    <3>2. preparing' = c
      BY <2>2, Zenon DEF BeginGuard
    <3>3. CallFaithful(c)'
      BY <3>1, <3>2, Zenon DEF CallFaithful
    <3>. QED BY <1>3, <2>2, <3>1, <3>2, <3>3, GuardStep DEF SetupBegins, At
  <2>. QED BY <1>3, <2>1, <2>2 DEF SetupBegins
<1>4. CASE SetupEnds(c)
  <2>1. \E out \in Outcome : Return(c, out)
    BY <1>1, <1>4 DEF SetupEnds
  <2>2. /\ UNCHANGED <<request, next_generation, stored, submitting, history>>
        /\ preparing' = Abandoned(c) /\ ~At(c, "committing")
    BY <1>4, Zenon DEF SetupEnds, At
  <2>. QED BY <1>2, <2>1, <2>2, GuardStep
<1>. QED BY <1>3, <1>4

\* Taking a request: only one that passed the verification, and into the hands
\* of the call that holds the guard.
LEMMA TakePendingInv ==
  ASSUME IInv, NEW c \in Call, TakePending(c)
  PROVE  IInv'
<1>. DEFINE g == call[c].request.generation
            h == call[c].request.hash
            s == call[c].shares
            passes == BuildVerified(h, request.configuration, s)
            error == ValidateError(g, h, passes)
<1>1. /\ call[c].pc = "finalizing"
      /\ TakeValidated(g, h, passes)
      /\ UNCHANGED <<next_generation, stored, submitting, slot, history>>
  BY Zenon DEF TakePending, At
<1>2. CASE error # "ok"
  <2>1. request' = request /\ Return(c, error) /\ preparing' = Abandoned(c)
    BY <1>2, Zenon DEF TakePending, TakeValidated
  <2>2. error \in Outcome
    BY OutcomeErrors, Zenon
  <2>. HIDE DEF error
  <2>3. /\ call' \in [Call -> CallRecord]
        /\ \A d \in Call \ {c} : call'[d] = call[d]
        /\ call'[c].pc = "idle"
    BY <2>1, <2>2, ReturnType DEF IInv
  <2>4. CallFaithful(c)'
    BY <2>3, Zenon DEF CallFaithful
  <2>. QED BY <1>1, <2>1, <2>3, <2>4, GuardStep DEF At
<1>3. CASE error = "ok"
  <2>1. /\ request' = NoRequest /\ UNCHANGED preparing
        /\ Goto(c, "committing", request, s)
    BY <1>3, Zenon DEF TakePending, TakeValidated
  <2>2. /\ request # NoRequest /\ request.generation = g /\ request.hash = h
        /\ passes
    BY <1>3, Zenon DEF ValidateError, ExpectedError
  <2>3. /\ UNCHANGED <<next_generation, stored, submitting, slot>>
        /\ UNCHANGED <<issued, shares, cancelled, finalized>>
    BY <1>1, Zenon DEF history
  <2>4. /\ request \in RequestRecord /\ s \in Seq(Share)
        /\ request.configuration \in Configuration
    BY <2>2, Zenon DEF IInv, TypeOK, CallRecord, StoreFaithful
  <2>5. BuildVerified(request.hash, request.configuration, s)
    BY <2>2, Zenon
  <2>. HIDE DEF s, passes, error, g, h
  <2>6. /\ call' \in [Call -> CallRecord]
        /\ \A d \in Call \ {c} : call'[d] = call[d]
        /\ call'[c].pc = "committing" /\ call'[c].request = request
        /\ call'[c].shares = s
    BY <2>1, <2>4, GotoType DEF IInv, Location
  <2>7. preparing = c /\ ~submitting
    BY <1>1, ConstantsAssumption DEF IInv, CallFaithful, Guarded
  <2>8. TypeOK'
    BY <2>1, <2>3, <2>6, NoRequestType DEF IInv, TypeOK
  <2>9. Guarded' /\ StoreFaithful'
    BY <2>1, <2>3 DEF IInv, Guarded, StoreFaithful
  <2>10. CallFaithful(c)'
    BY <2>1, <2>4, <2>5, <2>6, <2>7 DEF CallFaithful
  <2>11. \A d \in Call \ {c} : CallFaithful(d)'
    BY <2>1, <2>6 DEF IInv, CallFaithful
  <2>12. RequestNotLost'
    BY <1>1, <2>1, <2>3, <2>6, <2>7 DEF IInv, RequestNotLost, At
  <2>13. ThresholdMet'
    BY <2>3, Zenon DEF IInv, ThresholdMet
  <2>. QED BY <2>8, <2>9, <2>10, <2>11, <2>12, <2>13 DEF IInv
<1>. QED BY <1>2, <1>3

\* The commit cannot be refused: the guard is still this call's, and while it
\* is held nothing is submitted.
LEMMA CommitFinalizedInv ==
  ASSUME IInv, NEW c \in Call, CommitFinalized(c)
  PROVE  IInv'
<1>. DEFINE r == call[c].request
            entry == [generation |-> r.generation, hash |-> r.hash,
                      configuration |-> r.configuration, shares |-> call[c].shares]
<1>1. call[c].pc = "committing" /\ preparing = c /\ ~submitting
  BY ConstantsAssumption, Zenon DEF CommitFinalized, At, IInv, CallFaithful, Guarded
<1>2. /\ UNCHANGED <<request, next_generation, stored, submitting, issued, shares,
                      cancelled>>
      /\ preparing' = NoCall
      /\ finalized' = finalized \cup {entry}
      /\ Return(c, "ok")
  BY <1>1, Zenon DEF CommitFinalized
<1>3. /\ call' \in [Call -> CallRecord]
      /\ \A d \in Call \ {c} : call'[d] = call[d]
      /\ call'[c].pc = "idle"
  BY <1>2, ReturnType DEF IInv, Outcome
<1>4. TypeOK'
  BY <1>2, <1>3 DEF IInv, TypeOK
<1>5. Guarded' /\ StoreFaithful'
  BY <1>2, Zenon DEF IInv, Guarded, StoreFaithful
<1>6. \A d \in Call : CallFaithful(d)'
  BY <1>1, <1>3 DEF IInv, CallFaithful
<1>7. RequestNotLost'
  <2>1. entry.generation = r.generation
    OBVIOUS
  <2>. HIDE DEF entry
  <2>. QED BY <1>1, <1>2, <1>3, <2>1 DEF IInv, RequestNotLost, At
<1>8. ThresholdMet'
  <2>1. /\ r.configuration \in Configuration /\ call[c].shares \in Seq(Share)
        /\ BuildVerified(r.hash, r.configuration, call[c].shares)
    BY <1>1, Zenon DEF IInv, CallFaithful, TypeOK, CallRecord
  <2>2. /\ Len(call[c].shares) = r.configuration.threshold
        /\ \A i \in DOMAIN call[c].shares :
             /\ call[c].shares[i].signature.message = r.hash
             /\ call[c].shares[i].signature.key \in Range(r.configuration.participants)
        /\ \A i, j \in DOMAIN call[c].shares :
             call[c].shares[i].signature.key = call[c].shares[j].signature.key => i = j
    BY <2>1, VerifiedShares, Zenon
  <2>3. /\ entry.hash = r.hash /\ entry.configuration = r.configuration
        /\ entry.shares = call[c].shares
    OBVIOUS
  <2>. HIDE DEF entry
  <2>. QED BY <1>2, <2>2, <2>3, Zenon DEF IInv, ThresholdMet
<1>. QED BY <1>4, <1>5, <1>6, <1>7, <1>8 DEF IInv

LEMMA EnvironmentStep ==
  ASSUME IInv, OtherPreparation \/ Submission \/ StoredChanges
  PROVE  IInv'
<1>1. /\ UNCHANGED <<request, next_generation, call>>
      /\ UNCHANGED <<issued, shares, cancelled, finalized>>
  BY Zenon DEF OtherPreparation, Submission, StoredChanges, history
<1>2. Call \cap {NoCall, Other} = {}
  BY ConstantsAssumption, Zenon
<1>3. \A d \in Call : preparing = d => preparing' = d /\ submitting' = submitting
  BY <1>2, Zenon DEF OtherPreparation, Submission, StoredChanges, SlotFree, prepared,
              IInv, Guarded
<1>4. TypeOK'
  BY <1>1, Zenon DEF IInv, TypeOK, OtherPreparation, Submission, StoredChanges, prepared
<1>5. Guarded'
  BY Zenon DEF IInv, Guarded, OtherPreparation, Submission, StoredChanges, prepared,
     SlotFree
<1>6. StoreFaithful' /\ ThresholdMet'
  BY <1>1, Zenon DEF IInv, StoreFaithful, ThresholdMet
<1>7. \A d \in Call : CallFaithful(d)'
  BY <1>1, <1>3, Zenon DEF IInv, CallFaithful
<1>8. RequestNotLost'
  BY <1>1, <1>3, Zenon DEF IInv, RequestNotLost, At
<1>. QED BY <1>4, <1>5, <1>6, <1>7, <1>8 DEF IInv

LEMMA ParticipantSignsInv ==
  ASSUME IInv, NEW k \in Key, NEW p \in issued, NEW f \in Configuration,
         ParticipantSigns(k, p[2], f)
  PROVE  IInv'
<1>1. PICK i \in DOMAIN f.participants :
        shares' = shares \cup {CreateShare(p[2], i - 1, Sign(k, p[2]))}
  BY Zenon DEF ParticipantSigns
<1>2. /\ UNCHANGED <<request, next_generation, stored, preparing, submitting, slot>>
      /\ UNCHANGED <<call, issued, cancelled, finalized>>
  BY Zenon DEF ParticipantSigns, prepared
<1>3. i - 1 \in Nat
  <2>1. f.participants \in Seq(Key)
    BY ConstantsAssumption, Zenon
  <2>. QED BY <2>1
<1>4. p[2] \in Hash
  BY Zenon DEF IInv, TypeOK
<1>5. CreateShare(p[2], i - 1, Sign(k, p[2])) \in Share
  BY <1>3, <1>4 DEF CreateShare, Sign, Share
<1>6. TypeOK'
  BY <1>1, <1>2, <1>5 DEF IInv, TypeOK
<1>7. Guarded' /\ StoreFaithful' /\ ThresholdMet'
  BY <1>2, Zenon DEF IInv, Guarded, StoreFaithful, ThresholdMet
<1>8. \A d \in Call : CallFaithful(d)'
  BY <1>2, Zenon DEF IInv, CallFaithful
<1>9. RequestNotLost'
  BY <1>2, Zenon DEF IInv, RequestNotLost, At
<1>. QED BY <1>6, <1>7, <1>8, <1>9 DEF IInv

LEMMA NextInv == IInv /\ [Next]_vars => IInv'
<1>. SUFFICES ASSUME IInv, [Next]_vars PROVE IInv'
  OBVIOUS
<1>1. ASSUME NEW c \in Call, Start(c) PROVE IInv'
  BY <1>1, StartReads, CancelPendingInv, BeginFinalizeInv DEF Start
<1>2. ASSUME NEW c \in Call, Continue(c) PROVE IInv'
  BY <1>2, ContinueReads, ReadConfigurationInv, BuildUnsignedInv, StorePendingInv,
     TakePendingInv, CommitFinalizedInv, SetupSteps DEF Continue
<1>3. ASSUME NEW k \in Key, NEW p \in issued, NEW f \in Configuration,
             ParticipantSigns(k, p[2], f)
      PROVE  IInv'
  BY <1>3, ParticipantSignsInv
<1>4. CASE UNCHANGED vars
  BY <1>4, Zenon DEF vars, IInv, TypeOK, Guarded, StoreFaithful, CallFaithful,
              RequestNotLost, ThresholdMet, At
<1>. QED BY <1>1, <1>2, <1>3, <1>4, EnvironmentStep DEF Next

LEMMA Invariance == Spec => []IInv
<1>. QED BY InitInv, NextInv, PTL DEF Spec

\* Every request that PendingMultisigStore accepted is still pending, cancelled,
\* finalized, or held by a finalization that cannot fail any more.
THEOREM RequestsAreNotLost == Spec => []RequestNotLost
<1>1. IInv => RequestNotLost
  BY Zenon DEF IInv
<1>. QED BY <1>1, Invariance, PTL

\* What finalize_multisig_transaction commits carries the threshold's signatures
\* of its hash, by different participants of the configuration it was built for.
THEOREM FinalizedMeetThreshold == Spec => []ThresholdMet
<1>1. IInv => ThresholdMet
  BY Zenon DEF IInv
<1>. QED BY <1>1, Invariance, PTL

\* Finalization neither loses a pending request nor commits one that its
\* participants have not signed.
THEOREM FinalizationIsSound == Spec => []FinalizationSound
<1>1. IInv => FinalizationSound
  BY Zenon DEF IInv, FinalizationSound
<1>. QED BY <1>1, Invariance, PTL

-----------------------------------------------------------------------------
(* The participant                                                         *)

IsSequence(s) == \E n \in Nat : Len(s) = n /\ DOMAIN s = 1..n

\* A transaction as it was built, and as a request shows it.
DataShape(data) == data.type = "Transfers" => IsSequence(data.transfers)

TransactionShape(t) ==
  /\ t.type = "Transfers" => IsSequence(t.transfers)
  /\ t.type = "DeleteMultisig" => t = [type |-> "DeleteMultisig"]

\* A request under way, whatever the channel did to it.
Shaped(e) ==
  /\ {"payload", "text", "source_signature"} \subseteq DOMAIN e
  /\ {"version", "network", "unsigned", "transaction"} \subseteq DOMAIN e.payload
  /\ {"source", "data", "multisig", "encoding"} \subseteq DOMAIN e.payload.unsigned
  /\ {"key", "message", "canonical"} \subseteq DOMAIN e.source_signature
  /\ DataShape(e.payload.unsigned.data)
  /\ TransactionShape(e.payload.transaction)

LEMMA MappedSequence ==
  ASSUME NEW s, s \in Seq(Range(s)), NEW u, DOMAIN u = DOMAIN s
  PROVE  IsSequence(u)
<1>1. DOMAIN s = 1 .. Len(s) /\ Len(s) \in Nat
  BY SMT
<1>2. Len(u) = Len(s)
  BY <1>1, SMT
<1> QED
  BY <1>1, <1>2, Zenon DEF IsSequence

LEMMA BuiltShape ==
  ASSUME NEW d \in Declared
  PROVE  DataShape(Built(d)) /\ Built(d).type = d.type
<1>1. CASE d.type = "Transfers"
  <2> DEFINE ts == [i \in DOMAIN d.transfers |->
                [amount |-> d.transfers[i].amount,
                 asset |-> d.transfers[i].asset,
                 destination |-> d.transfers[i].destination.key,
                 extra |-> d.transfers[i].extra \/ d.transfers[i].integrated]]
  <2>1. Built(d) = [type |-> "Transfers", transfers |-> ts]
    BY <1>1, Zenon DEF Built
  <2>2. DOMAIN ts = DOMAIN d.transfers
    BY Zenon
  <2>3. d.transfers \in Seq(Range(d.transfers))
    BY <1>1, ParticipantAssumption, Zenon
  <2> HIDE DEF ts
  <2> DEFINE s == d.transfers
  <2>35. s \in Seq(Range(s)) /\ DOMAIN ts = DOMAIN s
    BY <2>2, <2>3, Zenon
  <2> HIDE DEF s
  <2>4. IsSequence(ts)
    BY <2>35, MappedSequence, Zenon
  <2>5. Built(d).type = "Transfers" /\ Built(d).transfers = ts
    <3>1. [type |-> "Transfers", transfers |-> ts].transfers = ts
      BY Zenon
    <3>2. [type |-> "Transfers", transfers |-> ts].type = "Transfers"
      BY Zenon
    <3> QED
      BY <2>1, <3>1, <3>2, Zenon
  <2> QED
    BY <1>1, <2>4, <2>5, Zenon DEF DataShape
<1>2. CASE d.type # "Transfers"
  BY <1>2, Zenon DEF Built, DataShape
<1> QED
  BY <1>1, <1>2, Zenon

LEMMA RequestShape ==
  ASSUME NEW d \in Declared, NEW a, DataShape(a), NEW n, NEW k
  PROVE  TransactionShape(RequestTransaction(d, a, n, k))
<1> DEFINE t == RequestTransaction(d, a, n, k)
<1>0. "Transfers" # "Burn" /\ "Transfers" # "DeleteMultisig" /\ "Burn" # "DeleteMultisig"
  BY Zenon
<1>1. CASE a.type = "Transfers"
  <2> DEFINE ts == [i \in DOMAIN a.transfers |->
            [amount |-> d.transfers[i].amount,
             asset |-> a.transfers[i].asset,
             destination |-> AddressOf(a.transfers[i].destination, n),
             extra |-> a.transfers[i].extra,
             proof |-> [key |-> k, canonical |-> TRUE,
                        amount |-> d.transfers[i].amount]]]
  <2>1. t = [type |-> "Transfers", transfers |-> ts]
    BY <1>0, <1>1, Zenon DEF RequestTransaction
  <2>2. DOMAIN ts = DOMAIN a.transfers
    BY Zenon
  <2> HIDE DEF ts, t
  <2>3. IsSequence(ts)
    <3>1. PICK m \in Nat : DOMAIN a.transfers = 1..m
      BY <1>1, Zenon DEF DataShape, IsSequence
    <3>2. Len(ts) = m
      BY <2>2, <3>1, SMT
    <3> QED
      BY <2>2, <3>1, <3>2, Zenon DEF IsSequence
  <2>4. t.type = "Transfers" /\ t.transfers = ts
    BY <2>1, Zenon
  <2>5. TransactionShape(t)
    BY <1>0, <2>3, <2>4, Zenon DEF TransactionShape
  <2> QED
    BY <2>5, Zenon DEF t
<1>2. CASE a.type = "Burn"
  <2>1. t = a
    BY <1>0, <1>2, Zenon DEF RequestTransaction
  <2> QED
    BY <1>0, <1>2, <2>1, Zenon DEF TransactionShape
<1>3. CASE a.type # "Transfers" /\ a.type # "Burn"
  <2>1. t = [type |-> "DeleteMultisig"]
    BY <1>3, Zenon DEF RequestTransaction
  <2> HIDE DEF t
  <2>2. t.type = "DeleteMultisig"
    BY <2>1, Zenon
  <2>3. TransactionShape(t)
    BY <1>0, <2>1, <2>2, Zenon DEF TransactionShape
  <2> QED
    BY <2>3, Zenon DEF t
<1> QED
  BY <1>1, <1>2, <1>3, Zenon

\* The channel may damage everything but who signed what.
LEMMA AlteredKeeps ==
  ASSUME NEW e, Shaped(e), NEW x \in Altered(e)
  PROVE  /\ Shaped(x)
         /\ x.source_signature.key = e.source_signature.key
         /\ x.source_signature.message = e.source_signature.message
<1> DEFINE p == e.payload
           u == p.unsigned
           g == e.source_signature
<1>1. /\ {"payload", "text", "source_signature"} \subseteq DOMAIN e
      /\ {"version", "network", "unsigned", "transaction"} \subseteq DOMAIN p
      /\ {"source", "data", "multisig", "encoding"} \subseteq DOMAIN u
      /\ {"key", "message", "canonical"} \subseteq DOMAIN g
      /\ DataShape(u.data) /\ TransactionShape(p.transaction)
  BY Zenon DEF Shaped
<1> HIDE DEF p, u, g
<1>2. ASSUME NEW q, {"version", "network", "unsigned", "transaction"} \subseteq DOMAIN q,
             {"source", "data", "multisig", "encoding"} \subseteq DOMAIN q.unsigned,
             DataShape(q.unsigned.data), TransactionShape(q.transaction),
             x = [e EXCEPT !.payload = q]
      PROVE  /\ Shaped(x)
             /\ x.source_signature.key = e.source_signature.key
             /\ x.source_signature.message = e.source_signature.message
  <2>1. DOMAIN x = DOMAIN e /\ x.payload = q /\ x.source_signature = e.source_signature
    BY <1>1, <1>2, SMT
  <2> QED
    BY <1>1, <1>2, <2>1, Zenon DEF Shaped, g
<1>3. ASSUME NEW v, {"source", "data", "multisig", "encoding"} \subseteq DOMAIN v,
             DataShape(v.data), x = [e EXCEPT !.payload = [p EXCEPT !.unsigned = v]]
      PROVE  /\ Shaped(x)
             /\ x.source_signature.key = e.source_signature.key
             /\ x.source_signature.message = e.source_signature.message
  <2> DEFINE q == [p EXCEPT !.unsigned = v]
  <2>1. DOMAIN q = DOMAIN p /\ q.unsigned = v /\ q.transaction = p.transaction
    BY <1>1, SMT
  <2>2. x = [e EXCEPT !.payload = q]
    BY <1>3, Zenon
  <2> HIDE DEF q
  <2> QED
    BY <1>1, <1>2, <1>3, <2>1, <2>2, Zenon
<1>4. CASE \E t \in {"padded", "reordered", "oversized"} : x = [e EXCEPT !.text = t]
  <2>1. DOMAIN x = DOMAIN e /\ x.payload = e.payload /\ x.source_signature = e.source_signature
    BY <1>1, <1>4, SMT
  <2> QED
    BY <1>1, <2>1, Zenon DEF Shaped, p, u, g
<1>5. CASE x = [e EXCEPT !.payload.version = 2]
  <2> DEFINE q == [p EXCEPT !.version = 2]
  <2>1. DOMAIN q = DOMAIN p /\ q.unsigned = p.unsigned /\ q.transaction = p.transaction
    BY <1>1, SMT
  <2>2. x = [e EXCEPT !.payload = q]
    BY <1>5, Zenon DEF p
  <2> HIDE DEF q
  <2> QED
    BY <1>1, <1>2, <2>1, <2>2, Zenon DEF u
<1>6. CASE \E n \in Network : x = [e EXCEPT !.payload.network = n]
  <2>1. PICK n \in Network : x = [e EXCEPT !.payload.network = n]
    BY <1>6, Zenon
  <2> DEFINE q == [p EXCEPT !.network = n]
  <2>2. DOMAIN q = DOMAIN p /\ q.unsigned = p.unsigned /\ q.transaction = p.transaction
    BY <1>1, SMT
  <2>3. x = [e EXCEPT !.payload = q]
    BY <2>1, Zenon DEF p
  <2> HIDE DEF q
  <2> QED
    BY <1>1, <1>2, <2>2, <2>3, Zenon DEF u
<1>7. CASE x = [e EXCEPT !.payload.unsigned.multisig = TRUE]
  <2> DEFINE v == [u EXCEPT !.multisig = TRUE]
  <2>1. DOMAIN v = DOMAIN u /\ v.data = u.data
    BY <1>1, SMT
  <2>2. x = [e EXCEPT !.payload = [p EXCEPT !.unsigned = v]]
    BY <1>7, Zenon DEF p, u
  <2> HIDE DEF v
  <2> QED
    BY <1>1, <1>3, <2>1, <2>2, Zenon
<1>8. CASE \E c \in {"other", "oversized", "invalid"} :
             x = [e EXCEPT !.payload.unsigned.encoding = c]
  <2>1. PICK c \in {"other", "oversized", "invalid"} :
             x = [e EXCEPT !.payload.unsigned.encoding = c]
    BY <1>8, Zenon
  <2> DEFINE v == [u EXCEPT !.encoding = c]
  <2>2. DOMAIN v = DOMAIN u /\ v.data = u.data
    BY <1>1, SMT
  <2>3. x = [e EXCEPT !.payload = [p EXCEPT !.unsigned = v]]
    BY <2>1, Zenon DEF p, u
  <2> HIDE DEF v
  <2> QED
    BY <1>1, <1>3, <2>2, <2>3, Zenon
<1>9. CASE \E k \in Wallet, d \in Declared :
             x = [e EXCEPT !.payload.unsigned = Unsigned(k, d)]
  <2>1. PICK k \in Wallet, d \in Declared :
             x = [e EXCEPT !.payload.unsigned = Unsigned(k, d)]
    BY <1>9, Zenon
  <2> DEFINE v == Unsigned(k, d)
  <2>2. {"source", "data", "multisig", "encoding"} \subseteq DOMAIN v /\ v.data = Built(d)
    BY Zenon DEF Unsigned
  <2>3. x = [e EXCEPT !.payload = [p EXCEPT !.unsigned = v]]
    BY <2>1, Zenon DEF p
  <2> HIDE DEF v
  <2> QED
    BY <1>3, <2>2, <2>3, BuiltShape, Zenon
<1>10. CASE \E d \in Declared, n \in Network :
              x = [e EXCEPT !.payload.transaction =
                     RequestTransaction(d, Built(d), n, e.payload.unsigned.source)]
  <2>1. PICK d \in Declared, n \in Network :
              x = [e EXCEPT !.payload.transaction =
                     RequestTransaction(d, Built(d), n, e.payload.unsigned.source)]
    BY <1>10, Zenon
  <2> DEFINE t == RequestTransaction(d, Built(d), n, e.payload.unsigned.source)
             q == [p EXCEPT !.transaction = t]
  <2>2. TransactionShape(t)
    BY BuiltShape, RequestShape, Zenon
  <2>3. x = [e EXCEPT !.payload = q]
    BY <2>1, Zenon DEF p
  <2> HIDE DEF t
  <2>4. DOMAIN q = DOMAIN p /\ q.unsigned = p.unsigned /\ q.transaction = t
    BY <1>1, SMT
  <2> HIDE DEF q
  <2> QED
    BY <1>1, <1>2, <2>2, <2>3, <2>4, Zenon DEF u
<1>11. CASE x = [e EXCEPT !.source_signature.canonical = FALSE]
  <2> DEFINE h == [g EXCEPT !.canonical = FALSE]
  <2>1. DOMAIN h = DOMAIN g /\ h.key = g.key /\ h.message = g.message
    BY <1>1, SMT
  <2>2. x = [e EXCEPT !.source_signature = h]
    BY <1>11, Zenon DEF g
  <2> HIDE DEF h
  <2>3. DOMAIN x = DOMAIN e /\ x.payload = e.payload /\ x.source_signature = h
    BY <1>1, <2>2, SMT
  <2> QED
    BY <1>1, <2>1, <2>3, Zenon DEF Shaped, p, u, g
<1> DEFINE A1 == {[e EXCEPT !.text = t] : t \in {"padded", "reordered", "oversized"}}
           A2 == {[e EXCEPT !.payload.version = 2]}
           A3 == {[e EXCEPT !.payload.network = n] : n \in Network}
           A4 == {[e EXCEPT !.payload.unsigned.multisig = TRUE]}
           A5 == {[e EXCEPT !.payload.unsigned.encoding = c] :
                    c \in {"other", "oversized", "invalid"}}
           A6 == {[e EXCEPT !.payload.unsigned = Unsigned(k, d)] :
                    k \in Wallet, d \in Declared}
           A7 == {[e EXCEPT !.payload.transaction =
                     RequestTransaction(d, Built(d), n, e.payload.unsigned.source)] :
                    d \in Declared, n \in Network}
           A8 == {[e EXCEPT !.source_signature.canonical = FALSE]}
<1>12. x \in A1 \cup A2 \cup A3 \cup A4 \cup A5 \cup A6 \cup A7 \cup A8
  BY DEF Altered
<1>13. CASE x \in A1
  BY <1>4, <1>13, Zenon
<1>14. CASE x \in A2
  BY <1>5, <1>14, Zenon
<1>15. CASE x \in A3
  BY <1>6, <1>15, Zenon
<1>16. CASE x \in A4
  BY <1>7, <1>16, Zenon
<1>17. CASE x \in A5
  BY <1>8, <1>17, Zenon
<1>18. CASE x \in A6
  <2>1. \E k \in Wallet, d \in Declared : x = [e EXCEPT !.payload.unsigned = Unsigned(k, d)]
    BY <1>18, SMT
  <2> QED
    BY <1>9, <2>1, Zenon
<1>19. CASE x \in A7
  <2>1. \E d \in Declared, n \in Network :
          x = [e EXCEPT !.payload.transaction =
                 RequestTransaction(d, Built(d), n, e.payload.unsigned.source)]
    BY <1>19, SMT
  <2> QED
    BY <1>10, <2>1, Zenon
<1>20. CASE x \in A8
  BY <1>11, <1>20, Zenon
<1> HIDE DEF A1, A2, A3, A4, A5, A6, A7, A8
<1> QED
  BY <1>12, <1>13, <1>14, <1>15, <1>16, <1>17, <1>18, <1>19, <1>20, Zenon

\* What passes the comparison is shown as what it does.
LEMMA PreviewDescribes ==
  ASSUME NEW t, TransactionShape(t), NEW a, DataShape(a), NEW n, NEW k,
         PreviewMatches(t, a, n, k)
  PROVE  Preview(t) = Describe(a, n)
<1>0. /\ "Transfers" # "Burn" /\ "Transfers" # "DeleteMultisig" /\ "Burn" # "DeleteMultisig"
      /\ "MultiSig" # "Transfers" /\ "MultiSig" # "Burn"
  BY Zenon
<1>1. \/ t.type = "Transfers" /\ a.type = "Transfers"
      \/ t.type = "Burn" /\ a.type = "Burn"
      \/ t.type = "DeleteMultisig" /\ a.type = "MultiSig"
  BY Zenon DEF PreviewMatches
<1>2. CASE t.type = "Transfers" /\ a.type = "Transfers"
  <2> DEFINE ts == t.transfers
             as == a.transfers
             Shows(i) == [amount |-> as[i].amount, asset |-> as[i].asset,
                          destination |-> AddressOf(as[i].destination, n),
                          extra |-> as[i].extra]
  <2>1. /\ Len(ts) = Len(as)
        /\ \A i \in DOMAIN as : TransferMatches(ts[i], as[i], n, k)
    BY <1>0, <1>2, Zenon DEF PreviewMatches
  <2>2. DOMAIN ts = DOMAIN as
    BY <1>2, <2>1, Zenon DEF TransactionShape, DataShape, IsSequence
  <2>3. Preview(t) = [type |-> "Transfers",
                      transfers |-> [i \in DOMAIN ts |-> PreviewTransfer(ts[i])]]
    BY <1>2, Zenon DEF Preview
  <2>4. Describe(a, n) = [type |-> "Transfers",
                          transfers |-> [i \in DOMAIN as |-> Shows(i)]]
    BY <1>0, <1>2, Zenon DEF Describe
  <2>5. ASSUME NEW i \in DOMAIN as
        PROVE  PreviewTransfer(ts[i]) = Shows(i)
    <3>1. TransferMatches(ts[i], as[i], n, k)
      BY <2>1, <2>5, Zenon
    <3>2. /\ ts[i].destination = AddressOf(as[i].destination, n)
          /\ ts[i].asset = as[i].asset /\ ts[i].extra = as[i].extra
          /\ ts[i].amount = as[i].amount
      BY <3>1, Zenon DEF TransferMatches, ProofVerifies
    <3> QED
      BY <3>2, Zenon DEF PreviewTransfer
  <2> HIDE DEF ts, as, Shows
  <2>6. [i \in DOMAIN ts |-> PreviewTransfer(ts[i])] = [i \in DOMAIN as |-> Shows(i)]
    BY <2>2, <2>5, Zenon
  <2> QED
    BY <2>3, <2>4, <2>6, Zenon
<1>3. CASE t.type = "Burn" /\ a.type = "Burn"
  <2>1. t = a
    BY <1>0, <1>3, Zenon DEF PreviewMatches
  <2>2. Preview(t) = t /\ Describe(a, n) = a
    BY <1>0, <1>3, Zenon DEF Preview, Describe
  <2> QED
    BY <2>1, <2>2, Zenon
<1>4. CASE t.type = "DeleteMultisig" /\ a.type = "MultiSig"
  <2>1. t = [type |-> "DeleteMultisig"]
    BY <1>4, Zenon DEF TransactionShape
  <2>2. Preview(t) = t
    BY <1>0, <1>4, Zenon DEF Preview
  <2>3. Describe(a, n) = [type |-> "DeleteMultisig"]
    BY <1>0, <1>4, Zenon DEF Describe
  <2> QED
    BY <2>1, <2>2, <2>3, Zenon
<1> QED
  BY <1>1, <1>2, <1>3, <1>4, Zenon

\* What is known of a request that was accepted.
Faithful(r, all) ==
  /\ r.transaction = Describe(r.signing_hash.data, r.network)
  /\ r.source.key = Own =>
       \E p \in all : SigningHash(p.unsigned) = r.signing_hash /\ p.network = r.network

\* The source wallet's signature is on something it attested.
Attested(e, all) ==
  e.source_signature.key = Own =>
    \E p \in all : e.source_signature.message = SigningBytes(p)

\* The inductive invariant.
ParticipantIInv ==
  /\ envelope = NoEnvelope \/ (Shaped(envelope) /\ Attested(envelope, attested))
  /\ reading = Idle \/ Faithful(reading.request, attested)
  /\ shown = Idle \/ Faithful(shown, attested)
  /\ shown # Idle => \A s \in signed : s.signature.message = shown.signing_hash

LEMMA AcceptedFaithful ==
  ASSUME NEW e, Shaped(e), NEW all, Attested(e, all), NEW n, Accepts(e, n)
  PROVE  Faithful(Parsed(e, n), all)
<1> DEFINE p == e.payload
           u == p.unsigned
           r == Parsed(e, n)
<1>1. /\ p.network = n
      /\ Verify(e.source_signature, SigningBytes(p), u.source)
      /\ PreviewMatches(p.transaction, u.data, n, u.source)
  BY Zenon DEF Accepts
<1>2. TransactionShape(p.transaction) /\ DataShape(u.data)
  BY Zenon DEF Shaped
<1>3. /\ r.signing_hash = SigningHash(u) /\ r.source = AddressOf(u.source, n)
      /\ r.network = n /\ r.transaction = Preview(p.transaction)
  BY Zenon DEF Parsed
<1>4. SigningHash(u).data = u.data /\ AddressOf(u.source, n).key = u.source
  BY Zenon DEF SigningHash, AddressOf
<1>5. r.transaction = Describe(r.signing_hash.data, r.network)
  <2>1. Preview(p.transaction) = Describe(u.data, n)
    BY <1>1, <1>2, PreviewDescribes, Zenon
  <2> HIDE DEF p, u, r
  <2> QED
    BY <1>3, <1>4, <2>1, Zenon
<1>6. ASSUME r.source.key = Own
      PROVE  \E q \in all : SigningHash(q.unsigned) = r.signing_hash /\ q.network = r.network
  <2>1. u.source = Own
    <3> HIDE DEF u, r
    <3> QED
      BY <1>3, <1>4, <1>6, Zenon
  <2>2. /\ e.source_signature.key = Own
        /\ e.source_signature.message = SigningBytes(p)
    BY <1>1, <2>1, Zenon DEF Verify
  <2>3. PICK q \in all : e.source_signature.message = SigningBytes(q)
    BY <2>2, Zenon DEF Attested
  <2>4. SigningBytes(p).payload = p /\ SigningBytes(q).payload = q
    BY Zenon DEF SigningBytes
  <2>5. p = q
    <3> HIDE DEF p
    <3> QED
      BY <2>2, <2>3, <2>4, Zenon
  <2> HIDE DEF r
  <2> QED
    BY <1>1, <1>3, <2>5, Zenon DEF u
<1> HIDE DEF r
<1> QED
  BY <1>5, <1>6, Zenon DEF Faithful, r

\* What only grows keeps what is known.
LEMMA FaithfulGrows ==
  ASSUME NEW all, NEW more, all \subseteq more
  PROVE  /\ \A r : Faithful(r, all) => Faithful(r, more)
         /\ \A e : Attested(e, all) => Attested(e, more)
  BY Zenon DEF Faithful, Attested

\* A request as a wallet composes it.
PayloadOf(k, d, f, n) ==
  [version |-> Version, network |-> n, unsigned |-> Unsigned(k, d),
   transaction |-> RequestTransaction(f, Built(f), n, k)]

EnvelopeOf(k, d, f, n) ==
  [payload |-> PayloadOf(k, d, f, n), text |-> "canonical",
   source_signature |-> Sign(k, SigningBytes(PayloadOf(k, d, f, n)))]

LEMMA ComposedShape ==
  ASSUME NEW k, NEW d \in Declared, NEW f \in Declared, NEW n
  PROVE  /\ Shaped(EnvelopeOf(k, d, f, n))
         /\ EnvelopeOf(k, d, f, n).payload = PayloadOf(k, d, f, n)
         /\ EnvelopeOf(k, d, f, n).source_signature.key = k
         /\ EnvelopeOf(k, d, f, n).source_signature.message
              = SigningBytes(PayloadOf(k, d, f, n))
<1> DEFINE q == PayloadOf(k, d, f, n)
           e == EnvelopeOf(k, d, f, n)
           g == Sign(k, SigningBytes(q))
           u == Unsigned(k, d)
           t == RequestTransaction(f, Built(f), n, k)
<1>1. /\ {"key", "message", "canonical"} \subseteq DOMAIN g
      /\ g.key = k /\ g.message = SigningBytes(q)
  BY Zenon DEF Sign
<1>2. {"source", "data", "multisig", "encoding"} \subseteq DOMAIN u /\ u.data = Built(d)
  BY Zenon DEF Unsigned
<1>3. DataShape(u.data) /\ TransactionShape(t)
  BY <1>2, BuiltShape, RequestShape, Zenon
<1> HIDE DEF g, u, t
<1>4. /\ {"version", "network", "unsigned", "transaction"} \subseteq DOMAIN q
      /\ q.unsigned = u /\ q.transaction = t
  BY Zenon DEF u, t, PayloadOf
<1>5. /\ {"payload", "text", "source_signature"} \subseteq DOMAIN e
      /\ e.payload = q /\ e.source_signature = g
  BY Zenon DEF g, EnvelopeOf
<1>6. Shaped(e)
  <2> HIDE DEF e, q
  <2> QED
    BY <1>1, <1>2, <1>3, <1>4, <1>5, Zenon DEF Shaped
<1> QED
  BY <1>1, <1>5, <1>6, Zenon

LEMMA ComposeStep ==
  ASSUME ParticipantIInv, NEW d \in Declared, NEW n \in Network, Compose(d, n)
  PROVE  ParticipantIInv'
<1> DEFINE u == Unsigned(Own, d)
           c == CreateRequest(u, d, n, Own)
           q == PayloadOf(Own, d, d, n)
           e == EnvelopeOf(Own, d, d, n)
<1>1. /\ envelope' = c /\ attested' = attested \cup {c.payload}
      /\ reading' = reading /\ shown' = shown /\ signed' = signed
  BY Zenon DEF Compose
<1>2. u.data = Built(d)
  BY Zenon DEF Unsigned
<1>3. c = e
  BY <1>2, Zenon DEF CreateRequest, PayloadOf, EnvelopeOf
<1>4. /\ Shaped(e) /\ e.payload = q
      /\ e.source_signature.message = SigningBytes(q)
  BY ComposedShape
<1> HIDE DEF c, e, q
<1>5. Attested(e, attested')
  BY <1>1, <1>3, <1>4, Zenon DEF Attested
<1>6. attested \subseteq attested'
  BY <1>1, Zenon
<1> QED
  BY <1>1, <1>3, <1>4, <1>5, <1>6, FaithfulGrows, Zenon DEF ParticipantIInv, Idle

LEMMA ComposeForeignStep ==
  ASSUME ParticipantIInv, NEW k \in Wallet \ {Own}, NEW d \in Declared, NEW f \in Declared,
         NEW n \in Network, ComposeForeign(k, d, f, n)
  PROVE  ParticipantIInv'
<1> DEFINE e == EnvelopeOf(k, d, f, n)
<1>1. /\ envelope' = e /\ attested' = attested
      /\ reading' = reading /\ shown' = shown /\ signed' = signed
  BY Zenon DEF ComposeForeign, EnvelopeOf, PayloadOf
<1>2. Shaped(e) /\ e.source_signature.key = k
  BY ComposedShape
<1> HIDE DEF e
<1>3. Attested(e, attested')
  BY <1>2, Zenon DEF Attested
<1> QED
  BY <1>1, <1>2, <1>3, Zenon DEF ParticipantIInv, Idle

LEMMA AlterStep ==
  ASSUME ParticipantIInv, Alter
  PROVE  ParticipantIInv'
<1>1. /\ envelope' \in Altered(envelope) /\ attested' = attested
      /\ reading' = reading /\ shown' = shown /\ signed' = signed
      /\ Shaped(envelope) /\ Attested(envelope, attested)
  BY Zenon DEF Alter, ParticipantIInv
<1>2. /\ Shaped(envelope')
      /\ envelope'.source_signature.key = envelope.source_signature.key
      /\ envelope'.source_signature.message = envelope.source_signature.message
  BY <1>1, AlteredKeeps, Zenon
<1>3. Attested(envelope', attested')
  BY <1>1, <1>2, Zenon DEF Attested
<1> QED
  BY <1>1, <1>2, <1>3, Zenon DEF ParticipantIInv, Idle

LEMMA BeginStep ==
  ASSUME ParticipantIInv, NEW op, NEW n, Begin(op, n)
  PROVE  ParticipantIInv'
<1> DEFINE r == Parsed(envelope, n)
<1>1. /\ reading' = [op |-> op, request |-> r] /\ envelope' = envelope
      /\ attested' = attested /\ shown' = shown /\ signed' = signed
      /\ Shaped(envelope) /\ Attested(envelope, attested) /\ Accepts(envelope, n)
  BY Zenon DEF Begin, ParticipantIInv
<1>2. Faithful(r, attested)
  BY <1>1, AcceptedFaithful, Zenon
<1> HIDE DEF r
<1>3. reading'.request = r
  BY <1>1, Zenon
<1> QED
  BY <1>1, <1>2, <1>3, Zenon DEF ParticipantIInv, Idle, NoEnvelope

LEMMA ResolvedStep ==
  ASSUME ParticipantIInv, Inspect \/ SignRequest
  PROVE  ParticipantIInv'
<1>1. /\ reading.op \in {"inspect", "sign"} /\ shown' = reading.request /\ reading' = Idle
      /\ envelope' = envelope /\ attested' = attested
  BY Zenon DEF Inspect, SignRequest
<1>2. reading # Idle
  <2>1. Idle.op = "none"
    BY Zenon DEF Idle
  <2> QED
    BY <1>1, <2>1, SMT
<1>3. Faithful(shown', attested')
  BY <1>1, <1>2, Zenon DEF ParticipantIInv
<1>4. \A s \in signed' : s.signature.message = shown'.signing_hash
  <2>1. CASE Inspect
    BY <2>1, Zenon DEF Inspect
  <2>2. CASE SignRequest
    <3> DEFINE h == reading.request.signing_hash
    <3>1. PICK id : signed' = {CreateShare(h, id, Sign(Self, h))}
      BY <2>2, Zenon DEF SignRequest
    <3>2. shown'.signing_hash = h
      BY <1>1, Zenon
    <3> HIDE DEF h
    <3>3. CreateShare(h, id, Sign(Self, h)).signature.message = h
      BY Zenon DEF CreateShare, Sign
    <3> QED
      BY <3>1, <3>2, <3>3, Zenon
  <2> QED
    BY <2>1, <2>2, Zenon
<1> QED
  BY <1>1, <1>3, <1>4, Zenon DEF ParticipantIInv, Idle, NoEnvelope

\* Every step of the source wallet, the channel, the participant and the chain
\* keeps the inductive invariant.
LEMMA ParticipantInductive ==
  ASSUME ParticipantIInv, [ParticipantNext]_participantVars
  PROVE  ParticipantIInv'
<1>1. CASE Refuse \/ ChainChanges \/ ToggleOnline \/ UNCHANGED participantVars
  <2>1. /\ envelope' = envelope /\ attested' = attested /\ shown' = shown
        /\ signed' = signed /\ (reading' = reading \/ reading' = Idle)
    BY <1>1, Zenon DEF Refuse, ChainChanges, ToggleOnline, participantVars
  <2> QED
    BY <2>1, Zenon DEF ParticipantIInv, Idle, NoEnvelope
<1> QED
  BY <1>1, ComposeStep, ComposeForeignStep, AlterStep, BeginStep, ResolvedStep, Zenon
     DEF ParticipantNext

LEMMA ParticipantInitial == ParticipantInit => ParticipantIInv
  BY Zenon DEF ParticipantInit, ParticipantIInv

LEMMA ParticipantImplies == ParticipantIInv => RequestFaithful
  BY Zenon DEF ParticipantIInv, RequestFaithful, Faithful

\* For any wallets, networks and declared transactions, and whatever the
\* channel does however often, a request that is shown or signed describes the
\* transaction behind its hash, and one attributed to the source wallet was
\* attested by it.
THEOREM ShownRequestIsFaithful == ParticipantSpec => []RequestFaithful
  BY ParticipantInductive, ParticipantInitial, ParticipantImplies, PTL DEF ParticipantSpec

=============================================================================

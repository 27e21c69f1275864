--------------------------- MODULE Services_proofs ---------------------------
(***************************************************************************)
(* The services, each with its inductive invariant, for any sets of users, *)
(* cards, modules and amounts.  A step belongs to one of them; for each    *)
(* there is a lemma for its own steps and one for everybody else's.        *)
(***************************************************************************)
EXTENDS Services, SequenceTheorems, Sums

USE ServicesAssumption

-----------------------------------------------------------------------------
(* The add-ons.                                                            *)

\* Nothing but the clock changes for them when others run.
LEMMA AddonsIdle ==
    ASSUME AddonsPart!AddonsOK, UNCHANGED addons, second' \in AddonsPart!Second
    PROVE  AddonsPart!AddonsOK'
BY DEF AddonsPart!AddonsOK, AddonsPart!TypeOK, AddonsPart!RecordAgrees,
       AddonsPart!OneLoanPerOffer, AddonsPart!Registered, AddonsPart!Module, addons

LEMMA AddonsInit == AddonsPart!Init => AddonsPart!AddonsOK
BY DEF AddonsPart!Init, AddonsPart!AddonsOK, AddonsPart!TypeOK, AddonsPart!RecordAgrees,
       AddonsPart!OneLoanPerOffer, AddonsPart!Registered, AddonsPart!Module,
       AddonsPart!Second

\* The registry's operations wait until no Execute is under way.
LEMMA RegistryKeeps ==
    ASSUME AddonsPart!AddonsOK, NEW m \in AddonsPart!Module,
           \/ AddonsPart!Register(m) \/ AddonsPart!Unregister(m)
           \/ AddonsPart!Enable(m) \/ AddonsPart!Disable(m) \/ AddonsPart!ModuleFails(m)
    PROVE  AddonsPart!AddonsOK'
<1>1. /\ UNCHANGED <<second, calls, offers, loans, records>>
      /\ \A c \in Caller : calls[c] = None
  BY DEF AddonsPart!Register, AddonsPart!Unregister, AddonsPart!Enable,
         AddonsPart!Disable, AddonsPart!ModuleFails, AddonsPart!Changes,
         AddonsPart!ReadLocked
<1>2. /\ AddonsPart!TypeOK'
      /\ \A n \in AddonsPart!Module :
           /\ info'[n] = "enabled" => status'[n] = "enabled"
           /\ info'[n] = "disabled" /\ status'[n] = "enabled" => n \in unstopped'
           /\ info'[n] = None /\ status'[n] = "enabled" => n \in unstopped'
      /\ status'[Staking] = "enabled" => pools'[Default] # None
  <2>1. CASE AddonsPart!Register(m)
    BY <2>1 DEF AddonsPart!Register, AddonsPart!Records, AddonsPart!Registered,
      AddonsPart!AddonsOK, AddonsPart!TypeOK, AddonsPart!RecordAgrees, AddonsPart!Module
  <2>2. CASE AddonsPart!Unregister(m)
    BY <2>2 DEF AddonsPart!Unregister, AddonsPart!Records, AddonsPart!Becomes,
      AddonsPart!Registered, AddonsPart!AddonsOK, AddonsPart!TypeOK,
      AddonsPart!RecordAgrees, AddonsPart!Module
  <2>3. CASE AddonsPart!Enable(m)
    BY <2>3 DEF AddonsPart!Enable, AddonsPart!Records, AddonsPart!Becomes,
      AddonsPart!Initialize, AddonsPart!Registered, AddonsPart!AddonsOK, AddonsPart!TypeOK,
      AddonsPart!RecordAgrees, AddonsPart!Module
  <2>4. CASE AddonsPart!Disable(m)
    BY <2>4 DEF AddonsPart!Disable, AddonsPart!Records, AddonsPart!Becomes,
      AddonsPart!Registered, AddonsPart!AddonsOK, AddonsPart!TypeOK,
      AddonsPart!RecordAgrees, AddonsPart!Module
  <2>5. CASE AddonsPart!ModuleFails(m)
    BY <2>5 DEF AddonsPart!ModuleFails, AddonsPart!Records, AddonsPart!Registered,
      AddonsPart!AddonsOK, AddonsPart!TypeOK, AddonsPart!RecordAgrees, AddonsPart!Module
  <2> QED  BY <2>1, <2>2, <2>3, <2>4, <2>5
<1> QED
  BY <1>1, <1>2 DEF AddonsPart!AddonsOK, AddonsPart!RecordAgrees,
    AddonsPart!OneLoanPerOffer, AddonsPart!Registered

\* What every action of a call under way shares.
CallStep(c) ==
    /\ calls' = [calls EXCEPT ![c] = None]
    /\ UNCHANGED <<second, info, status, unstopped>>

\* A call that ends leaves the registry's story as it is.
LEMMA CallsKeepRecords ==
    ASSUME AddonsPart!AddonsOK, NEW c \in Caller, CallStep(c),
           pools'[Default] = None => pools[Default] = None
    PROVE  /\ AddonsPart!RecordAgrees'
           /\ \A m \in AddonsPart!Module :
                ~AddonsPart!Registered(m)' /\ status'[m] = "enabled" => m \in unstopped'
           /\ calls' \in [Caller -> {None} \cup [module : AddonsPart!Module, action : AddonsPart!Actions]]
BY DEF CallStep, AddonsPart!AddonsOK, AddonsPart!TypeOK, AddonsPart!RecordAgrees,
       AddonsPart!Registered

\* Execute adds a call to a module that is enabled.
LEMMA ExecuteKeeps ==
    ASSUME AddonsPart!AddonsOK, NEW c \in Caller, NEW m \in AddonsPart!Module,
           NEW a \in AddonsPart!Actions, AddonsPart!Execute(c, m, a)
    PROVE  AddonsPart!AddonsOK'
<1>1. AddonsPart!TypeOK' /\ AddonsPart!RecordAgrees'
  BY DEF AddonsPart!Execute, AddonsPart!AddonsOK, AddonsPart!TypeOK,
    AddonsPart!RecordAgrees, AddonsPart!Registered, AddonsPart!registry
<1> QED
  BY <1>1 DEF AddonsPart!Execute, AddonsPart!AddonsOK, AddonsPart!OneLoanPerOffer,
    AddonsPart!Registered, AddonsPart!registry

\* A new offer has a serial number that no offer and no loan has.
LEMMA createOfferKeeps ==
    ASSUME AddonsPart!AddonsOK, NEW c \in Caller, AddonsPart!createOffer(c)
    PROVE  AddonsPart!AddonsOK'
<1>1. /\ CallStep(c) /\ records' = records + 1 /\ loans' = loans /\ pools' = pools
      /\ offers' = [offers EXCEPT ![second] = [serial |-> records, status |-> "available"]]
  BY DEF AddonsPart!createOffer, AddonsPart!Calls, AddonsPart!NewRecord,
    AddonsPart!registry, AddonsPart!generateLoanID, CallStep
<1>2. records \in Nat /\ second \in AddonsPart!Second
  BY DEF AddonsPart!AddonsOK, AddonsPart!TypeOK
<1>3. /\ AddonsPart!RecordAgrees'
      /\ \A m \in AddonsPart!Module :
           ~AddonsPart!Registered(m)' /\ status'[m] = "enabled" => m \in unstopped'
      /\ calls' \in [Caller -> {None} \cup [module : AddonsPart!Module, action : AddonsPart!Actions]]
  BY <1>1, CallsKeepRecords
<1>4. AddonsPart!TypeOK'
  BY <1>1, <1>3 DEF AddonsPart!AddonsOK, AddonsPart!TypeOK, CallStep
<1>5. \A t \in AddonsPart!Second : offers'[t] =
        IF t = second THEN [serial |-> records, status |-> "available"] ELSE offers[t]
  BY <1>1 DEF AddonsPart!AddonsOK, AddonsPart!TypeOK
<1>6. \A t \in AddonsPart!Second : offers[t] # None =>
        offers[t] \in [serial : Nat, status : {"available", "filled"}]
  BY DEF AddonsPart!AddonsOK, AddonsPart!TypeOK
<1>7. \A t \in AddonsPart!Second : loans[t] # None =>
        loans[t] \in [offer : Nat, status : {"active", "repaid"}]
  BY DEF AddonsPart!AddonsOK, AddonsPart!TypeOK
<1> QED
  BY <1>1, <1>2, <1>3, <1>4, <1>5, <1>6, <1>7 DEF AddonsPart!AddonsOK, AddonsPart!OneLoanPerOffer

\* A loan takes an offer that was in no loan, and it is not available any more.
LEMMA createLoanKeeps ==
    ASSUME AddonsPart!AddonsOK, NEW c \in Caller, NEW t \in AddonsPart!Second,
           AddonsPart!createLoan(c, t)
    PROVE  AddonsPart!AddonsOK'
<1>1. /\ CallStep(c) /\ records' = records + 1 /\ pools' = pools
      /\ offers[t] # None /\ offers[t].status = "available"
      /\ loans' = [loans EXCEPT ![second] = [offer |-> offers[t].serial, status |-> "active"]]
      /\ offers' = [offers EXCEPT ![t] = [@ EXCEPT !.status = "filled"]]
  BY DEF AddonsPart!createLoan, AddonsPart!Calls, AddonsPart!NewRecord,
    AddonsPart!registry, AddonsPart!generateLoanID, AddonsPart!Fill, CallStep
<1>2. records \in Nat /\ second \in AddonsPart!Second
  BY DEF AddonsPart!AddonsOK, AddonsPart!TypeOK
<1>3. /\ AddonsPart!RecordAgrees'
      /\ \A m \in AddonsPart!Module :
           ~AddonsPart!Registered(m)' /\ status'[m] = "enabled" => m \in unstopped'
      /\ calls' \in [Caller -> {None} \cup [module : AddonsPart!Module, action : AddonsPart!Actions]]
  BY <1>1, CallsKeepRecords
<1>4. \A u \in AddonsPart!Second : offers[u] # None =>
        offers[u] \in [serial : Nat, status : {"available", "filled"}]
  BY DEF AddonsPart!AddonsOK, AddonsPart!TypeOK
<1>5. \A u \in AddonsPart!Second : loans[u] # None =>
        loans[u] \in [offer : Nat, status : {"active", "repaid"}]
  BY DEF AddonsPart!AddonsOK, AddonsPart!TypeOK
<1> DEFINE filled == [offers[t] EXCEPT !.status = "filled"]
<1>6. /\ filled \in [serial : Nat, status : {"available", "filled"}]
      /\ filled.serial = offers[t].serial /\ filled.status = "filled"
  BY <1>1, <1>4
<1>7. \A u \in AddonsPart!Second : offers'[u] = IF u = t THEN filled ELSE offers[u]
  BY <1>1 DEF AddonsPart!AddonsOK, AddonsPart!TypeOK
<1>8. \A u \in AddonsPart!Second : loans'[u] =
        IF u = second THEN [offer |-> offers[t].serial, status |-> "active"] ELSE loans[u]
  BY <1>1 DEF AddonsPart!AddonsOK, AddonsPart!TypeOK
<1>9. AddonsPart!TypeOK'
  <2>1. offers' \in [AddonsPart!Second -> {None} \cup [serial : Nat, status : {"available", "filled"}]]
    BY <1>1, <1>6 DEF AddonsPart!AddonsOK, AddonsPart!TypeOK
  <2>2. [offer |-> offers[t].serial, status |-> "active"]
          \in [offer : Nat, status : {"active", "repaid"}]
    BY <1>1, <1>4
  <2>3. loans' \in [AddonsPart!Second -> {None} \cup [offer : Nat, status : {"active", "repaid"}]]
    BY <1>1, <2>2 DEF AddonsPart!AddonsOK, AddonsPart!TypeOK
  <2> QED  BY <1>1, <1>3, <2>1, <2>3 DEF AddonsPart!AddonsOK, AddonsPart!TypeOK, CallStep
<1> HIDE DEF filled
<1>10. AddonsPart!OneLoanPerOffer'
  BY <1>1, <1>8 DEF AddonsPart!AddonsOK, AddonsPart!OneLoanPerOffer
<1> QED
  BY <1>1, <1>2, <1>3, <1>4, <1>5, <1>6, <1>7, <1>8, <1>9, <1>10 DEF AddonsPart!AddonsOK

\* A loan is paid back, a pool is made, or a call ends without effect.
LEMMA OtherCallsKeep ==
    ASSUME AddonsPart!AddonsOK, NEW c \in Caller,
           \/ \E t \in AddonsPart!Second : AddonsPart!repayLoan(c, t)
           \/ \E p \in {Default, Custom} : AddonsPart!createPool(c, p)
           \/ AddonsPart!Returns(c)
    PROVE  AddonsPart!AddonsOK'
<1>1. CallStep(c) /\ offers' = offers /\ records' = records
  BY DEF AddonsPart!repayLoan, AddonsPart!createPool, AddonsPart!Returns,
    AddonsPart!Calls, AddonsPart!registry, CallStep
<1>2. /\ pools' \in [{Default, Custom} -> {None, "default", "custom"}]
      /\ pools'[Default] = None => pools[Default] = None
  BY DEF AddonsPart!repayLoan, AddonsPart!createPool, AddonsPart!Returns,
    AddonsPart!AddonsOK, AddonsPart!TypeOK
<1>3. /\ AddonsPart!RecordAgrees'
      /\ \A m \in AddonsPart!Module :
           ~AddonsPart!Registered(m)' /\ status'[m] = "enabled" => m \in unstopped'
      /\ calls' \in [Caller -> {None} \cup [module : AddonsPart!Module, action : AddonsPart!Actions]]
  BY <1>1, <1>2, CallsKeepRecords
<1>4. /\ loans' \in [AddonsPart!Second -> {None} \cup [offer : Nat, status : {"active", "repaid"}]]
      /\ \A u \in AddonsPart!Second : loans'[u] # None =>
           loans[u] # None /\ loans'[u].offer = loans[u].offer
  <2>1. CASE \E t \in AddonsPart!Second : AddonsPart!repayLoan(c, t)
    <3>1. PICK t \in AddonsPart!Second : AddonsPart!repayLoan(c, t)
      BY <2>1
    <3> DEFINE repaid == [loans[t] EXCEPT !.status = "repaid"]
    <3>2. /\ loans[t] # None /\ loans' = [loans EXCEPT ![t] = repaid]
      BY <3>1 DEF AddonsPart!repayLoan
    <3>3. loans[t] \in [offer : Nat, status : {"active", "repaid"}]
      BY <3>2 DEF AddonsPart!AddonsOK, AddonsPart!TypeOK
    <3>4. /\ repaid \in [offer : Nat, status : {"active", "repaid"}]
          /\ repaid.offer = loans[t].offer
      BY <3>3
    <3> HIDE DEF repaid
    <3> QED  BY <3>2, <3>4 DEF AddonsPart!AddonsOK, AddonsPart!TypeOK
  <2>2. CASE loans' = loans
    BY <2>2 DEF AddonsPart!AddonsOK, AddonsPart!TypeOK
  <2> QED  BY <2>1, <2>2 DEF AddonsPart!createPool, AddonsPart!Returns
<1>5. AddonsPart!TypeOK'
  BY <1>1, <1>2, <1>3, <1>4 DEF AddonsPart!AddonsOK, AddonsPart!TypeOK, CallStep
<1> QED
  BY <1>1, <1>3, <1>4, <1>5 DEF AddonsPart!AddonsOK, AddonsPart!OneLoanPerOffer

\* Every step of the add-ons keeps their invariant.
LEMMA AddonsKeep ==
    ASSUME AddonsPart!AddonsOK, AddonsPart!Next
    PROVE  AddonsPart!AddonsOK'
<1>1. CASE AddonsPart!Tick
  <2>1. UNCHANGED addons /\ second' \in AddonsPart!Second
    BY <1>1 DEF AddonsPart!Tick, AddonsPart!registry, addons, AddonsPart!AddonsOK,
      AddonsPart!TypeOK, AddonsPart!Second
  <2> QED  BY <2>1, AddonsIdle
<1>2. ASSUME NEW c \in Caller,
             NEW a \in {"create_offer", "create_loan", "repay_loan"},
             AddonsPart!Execute(c, Lending, a)
      PROVE  AddonsPart!AddonsOK'
  BY <1>2, ExecuteKeeps DEF AddonsPart!Module, AddonsPart!Actions
<1>3. ASSUME NEW c \in Caller, AddonsPart!Execute(c, Staking, "create_pool")
      PROVE  AddonsPart!AddonsOK'
  BY <1>3, ExecuteKeeps DEF AddonsPart!Module, AddonsPart!Actions
<1> QED
  BY <1>1, <1>2, <1>3, RegistryKeeps, createOfferKeeps, createLoanKeeps, OtherCallsKeep
  DEF AddonsPart!Next

\* A record changes in the second of its creation, or moves on.
LEMMA AddonsMoveOn ==
    ASSUME AddonsPart!AddonsOK, AddonsPart!Next, NEW t \in AddonsPart!Second \ {second}
    PROVE  /\ offers'[t] # offers[t] =>
                offers[t] # None /\ offers[t].status = "available"
                /\ offers'[t] = [offers[t] EXCEPT !.status = "filled"]
           /\ loans'[t] # loans[t] =>
                loans[t] # None /\ loans[t].status = "active"
                /\ loans'[t] = [loans[t] EXCEPT !.status = "repaid"]
<1>0. second \in AddonsPart!Second /\ DOMAIN offers = AddonsPart!Second
      /\ DOMAIN loans = AddonsPart!Second
  BY DEF AddonsPart!AddonsOK, AddonsPart!TypeOK
<1>1. ASSUME NEW c \in Caller, AddonsPart!createOffer(c)
      PROVE  offers'[t] = offers[t] /\ loans'[t] = loans[t]
  BY <1>0, <1>1 DEF AddonsPart!createOffer, AddonsPart!generateLoanID
<1>2. ASSUME NEW c \in Caller, NEW u \in AddonsPart!Second, AddonsPart!createLoan(c, u)
      PROVE  /\ loans'[t] = loans[t]
             /\ offers'[t] # offers[t] =>
                  offers[t] # None /\ offers[t].status = "available"
                  /\ offers'[t] = [offers[t] EXCEPT !.status = "filled"]
  BY <1>0, <1>2 DEF AddonsPart!createLoan, AddonsPart!generateLoanID, AddonsPart!Fill
<1>3. ASSUME NEW c \in Caller, NEW u \in AddonsPart!Second, AddonsPart!repayLoan(c, u)
      PROVE  /\ offers'[t] = offers[t]
             /\ loans'[t] # loans[t] =>
                  loans[t] # None /\ loans[t].status = "active"
                  /\ loans'[t] = [loans[t] EXCEPT !.status = "repaid"]
  BY <1>0, <1>3 DEF AddonsPart!repayLoan
<1>4. ASSUME NEW m \in AddonsPart!Module,
             \/ AddonsPart!Register(m) \/ AddonsPart!Unregister(m)
             \/ AddonsPart!Enable(m) \/ AddonsPart!Disable(m) \/ AddonsPart!ModuleFails(m)
      PROVE  offers' = offers /\ loans' = loans
  BY <1>4 DEF AddonsPart!Register, AddonsPart!Unregister, AddonsPart!Enable,
    AddonsPart!Disable, AddonsPart!ModuleFails
<1>5. AddonsPart!Tick => offers' = offers /\ loans' = loans
  BY DEF AddonsPart!Tick
<1>6. ASSUME NEW c \in Caller,
             \/ \E m \in AddonsPart!Module, a \in AddonsPart!Actions : AddonsPart!Execute(c, m, a)
             \/ \E p \in {Default, Custom} : AddonsPart!createPool(c, p)
             \/ AddonsPart!Returns(c)
      PROVE  offers' = offers /\ loans' = loans
  BY <1>6 DEF AddonsPart!Execute, AddonsPart!createPool, AddonsPart!Returns
<1> QED
  BY <1>1, <1>2, <1>3, <1>4, <1>5, <1>6
  DEF AddonsPart!Next, AddonsPart!Module, AddonsPart!Actions

-----------------------------------------------------------------------------
(* The fraud detector.                                                     *)

LEMMA FraudInit == FraudPart!Init => FraudPart!FraudOK
BY DEF FraudPart!Init, FraudPart!FraudOK, FraudPart!StrikesBounded

LEMMA FraudIdle == FraudPart!FraudOK /\ UNCHANGED fraud => FraudPart!FraudOK'
BY DEF FraudPart!FraudOK, FraudPart!StrikesBounded, fraud

\* A sender that is not blocked has a strike left, and the last one blocks it.
LEMMA FraudKeeps ==
    ASSUME FraudPart!FraudOK, FraudPart!Next
    PROVE  FraudPart!FraudOK'
<1>1. ASSUME NEW a \in Address, FraudPart!BlockAddress(a)
      PROVE  FraudPart!FraudOK'
  BY <1>1 DEF FraudPart!BlockAddress, FraudPart!FraudOK, FraudPart!StrikesBounded
<1>2. ASSUME NEW a \in Address, FraudPart!UnblockAddress(a)
      PROVE  FraudPart!FraudOK'
  BY <1>2 DEF FraudPart!UnblockAddress, FraudPart!FraudOK, FraudPart!StrikesBounded
<1>3. ASSUME NEW a \in Address, NEW to \in Address, FraudPart!CheckTransaction(a, to)
      PROVE  FraudPart!FraudOK'
  <2>1. a \notin blockedAddresses /\ unblocks' = unblocks
    BY <1>3 DEF FraudPart!CheckTransaction, FraudPart!Clear
  <2>2. /\ suspiciousActivities' = [suspiciousActivities EXCEPT ![a] = @ + 1]
        /\ blockedAddresses \subseteq blockedAddresses'
        /\ suspiciousActivities'[a] >= Threshold => a \in blockedAddresses'
    BY <1>3 DEF FraudPart!CheckTransaction, FraudPart!logSuspiciousActivity
  <2>3. \A b \in Address : suspiciousActivities[b] \in Nat /\ unblocks[b] \in Nat
    BY DEF FraudPart!FraudOK
  <2> QED  BY <2>1, <2>2, <2>3 DEF FraudPart!FraudOK, FraudPart!StrikesBounded
<1> QED  BY <1>1, <1>2, <1>3 DEF FraudPart!Next

-----------------------------------------------------------------------------
(* The exchange.                                                           *)

LEMMA ExchangeInit == ExchangePart!Init => ExchangePart!ExchangeOK
BY DEF ExchangePart!Init, ExchangePart!ExchangeOK, ExchangePart!OrdersPricedInForce,
       ExchangePart!Making, ExchangePart!Reverse, ExchangePart!Pair

LEMMA ExchangeIdle == ExchangePart!ExchangeOK /\ UNCHANGED exchange => ExchangePart!ExchangeOK'
BY DEF ExchangePart!ExchangeOK, ExchangePart!OrdersPricedInForce, ExchangePart!Making,
       ExchangePart!Made, exchange

\* A new rate joins the rates in force of every order in the making.
LEMMA SetRateKeeps ==
    ASSUME ExchangePart!ExchangeOK, NEW p \in ExchangePart!Pair, NEW r \in Rates,
           ExchangePart!SetExchangeRate(p, r)
    PROVE  ExchangePart!ExchangeOK'
<1>1. /\ order' = order
      /\ rates' = [rates EXCEPT ![p] = r, ![ExchangePart!Reverse(p)] = 0 - r]
      /\ inForce' = [u \in User |->
           IF ExchangePart!Making(u) THEN inForce[u] \cup {rates'[order[u].pair]} ELSE inForce[u]]
  BY DEF ExchangePart!SetExchangeRate
<1>2. \A q \in ExchangePart!Pair :
        /\ ExchangePart!Reverse(q) \in ExchangePart!Pair
        /\ ExchangePart!Reverse(q) # q
        /\ ExchangePart!Reverse(ExchangePart!Reverse(q)) = q
  BY DEF ExchangePart!Reverse, ExchangePart!Pair
<1>3. r \in Int /\ 0 - r \in Int /\ 0 - (0 - r) = r
  OBVIOUS
<1>4. /\ rates' \in [ExchangePart!Pair -> Int \cup {None}]
      /\ rates'[ExchangePart!Reverse(p)] = 0 - r /\ rates'[p] = r
      /\ \A q \in ExchangePart!Pair : q \notin {p, ExchangePart!Reverse(p)} => rates'[q] = rates[q]
  BY <1>1, <1>2, <1>3 DEF ExchangePart!ExchangeOK
<1>5. \A q \in ExchangePart!Pair : rates'[q] # None =>
        rates'[ExchangePart!Reverse(q)] = 0 - rates'[q]
  <2> SUFFICES ASSUME NEW q \in ExchangePart!Pair, rates'[q] # None
               PROVE  rates'[ExchangePart!Reverse(q)] = 0 - rates'[q]
    OBVIOUS
  <2>1. CASE q = p
    BY <1>4, <2>1
  <2>2. CASE q = ExchangePart!Reverse(p)
    BY <1>2, <1>3, <1>4, <2>2
  <2>3. CASE q \notin {p, ExchangePart!Reverse(p)}
    <3>1. ExchangePart!Reverse(q) \notin {p, ExchangePart!Reverse(p)}
      BY <1>2, <2>3
    <3> QED  BY <1>2, <1>4, <2>3, <3>1 DEF ExchangePart!ExchangeOK, ExchangePart!OrdersPricedInForce
  <2> QED  BY <2>1, <2>2, <2>3
<1>6. \A u \in User : /\ ExchangePart!Making(u)' <=> ExchangePart!Making(u)
                      /\ inForce[u] \subseteq inForce'[u]
                      /\ ExchangePart!Making(u) => rates'[order[u].pair] \in inForce'[u]
  <2> SUFFICES ASSUME NEW u \in User
               PROVE  /\ ExchangePart!Making(u)' <=> ExchangePart!Making(u)
                      /\ inForce[u] \subseteq inForce'[u]
                      /\ ExchangePart!Making(u) => rates'[order[u].pair] \in inForce'[u]
    OBVIOUS
  <2>1. ExchangePart!Making(u)' <=> ExchangePart!Making(u)
    BY <1>1 DEF ExchangePart!Making, ExchangePart!Made
  <2>2. inForce'[u] = IF ExchangePart!Making(u) THEN inForce[u] \cup {rates'[order[u].pair]}
                      ELSE inForce[u]
    BY <1>1, Zenon
  <2> QED  BY <2>1, <2>2
<1> QED
  BY <1>1, <1>4, <1>5, <1>6 DEF ExchangePart!ExchangeOK, ExchangePart!OrdersPricedInForce

\* What an order shows was read from a rate in force.
LEMMA OrderKeeps ==
    ASSUME ExchangePart!ExchangeOK, NEW u \in User,
           \/ \E p \in ExchangePart!Pair : ExchangePart!CalculateExchange(u, p)
           \/ ExchangePart!ReadRateAgain(u) \/ ExchangePart!CreateExchangeOrder(u)
           \/ \E s \in {"pending", "completed"} : ExchangePart!UpdateOrderStatus(u, s)
    PROVE  ExchangePart!ExchangeOK'
<1> DEFINE Shown(o, f) == {o.toAmount, o.rate} \ {None} \subseteq f
           Making(o) == o # None /\ o.at \in {"priced", "read"}
           Order == [at : {"priced", "read", "pending", "completed"}, pair : ExchangePart!Pair,
                     toAmount : Int \cup {None}, rate : Int \cup {None}]
<1>1. \A v \in User : ExchangePart!Making(v) <=> Making(order[v])
  BY DEF ExchangePart!Making, ExchangePart!Made
<1>2. rates' = rates /\ DOMAIN order' = User /\ DOMAIN inForce' = User
      /\ \A v \in User : v # u => order'[v] = order[v] /\ inForce'[v] = inForce[v]
  BY DEF ExchangePart!CalculateExchange, ExchangePart!ReadRateAgain,
    ExchangePart!CreateExchangeOrder, ExchangePart!UpdateOrderStatus, ExchangePart!ExchangeOK
<1>3. /\ order'[u] \in Order /\ Shown(order'[u], inForce'[u])
      /\ Making(order'[u]) => rates[order'[u].pair] \in inForce'[u]
  <2>1. ASSUME NEW p \in ExchangePart!Pair, ExchangePart!CalculateExchange(u, p)
        PROVE  /\ order'[u] \in Order /\ Shown(order'[u], inForce'[u])
               /\ Making(order'[u]) => rates[order'[u].pair] \in inForce'[u]
    <3>1. /\ order'[u] = [at |-> "priced", pair |-> p, toAmount |-> rates[p], rate |-> None]
          /\ inForce'[u] = {rates[p]}
      BY <2>1 DEF ExchangePart!CalculateExchange, ExchangePart!GetExchangeRate,
        ExchangePart!ExchangeOK
    <3>2. rates[p] \in Int \cup {None}
      BY DEF ExchangePart!ExchangeOK
    <3> QED  BY <3>1, <3>2
  <2>2. ASSUME order[u] # None
        PROVE  /\ order[u] \in Order /\ Shown(order[u], inForce[u])
               /\ Making(order[u]) => rates[order[u].pair] \in inForce[u]
    BY <1>1, <2>2 DEF ExchangePart!ExchangeOK, ExchangePart!OrdersPricedInForce
  <2>3. CASE ExchangePart!ReadRateAgain(u)
    <3>1. /\ Making(order[u]) /\ inForce'[u] = inForce[u]
          /\ order'[u] = [order[u] EXCEPT !.rate = rates[order[u].pair], !.at = "read"]
      BY <1>1, <2>3 DEF ExchangePart!ReadRateAgain, ExchangePart!GetExchangeRate,
        ExchangePart!ExchangeOK
    <3>2. order[u] \in Order /\ rates[order[u].pair] \in Int \cup {None}
      BY <2>2, <3>1 DEF ExchangePart!ExchangeOK
    <3>3. /\ order'[u] \in Order /\ order'[u].pair = order[u].pair
          /\ order'[u].toAmount = order[u].toAmount /\ order'[u].rate = rates[order[u].pair]
      BY <3>1, <3>2
    <3> QED  BY <2>2, <3>1, <3>3
  <2>4. ASSUME NEW at \in {"pending", "completed"}, order[u] # None,
               order' = [order EXCEPT ![u].at = at], inForce' = inForce
        PROVE  /\ order'[u] \in Order /\ Shown(order'[u], inForce'[u])
               /\ Making(order'[u]) => rates[order'[u].pair] \in inForce'[u]
    <3>1. order[u] \in Order /\ order'[u] = [order[u] EXCEPT !.at = at]
      BY <2>2, <2>4 DEF ExchangePart!ExchangeOK
    <3>2. /\ order'[u] \in Order /\ order'[u].at = at
          /\ order'[u].toAmount = order[u].toAmount /\ order'[u].rate = order[u].rate
      BY <3>1
    <3> QED  BY <2>2, <2>4, <3>2
  <2>5. ExchangePart!CreateExchangeOrder(u) =>
          order[u] # None /\ order' = [order EXCEPT ![u].at = "pending"] /\ inForce' = inForce
    BY DEF ExchangePart!CreateExchangeOrder, ExchangePart!Making
  <2>6. ASSUME NEW at \in {"pending", "completed"}, ExchangePart!UpdateOrderStatus(u, at)
        PROVE  order[u] # None /\ order' = [order EXCEPT ![u].at = at] /\ inForce' = inForce
    BY <2>6 DEF ExchangePart!UpdateOrderStatus, ExchangePart!Made
  <2> QED  BY <2>1, <2>3, <2>4, <2>5, <2>6
<1>4. \A v \in User : order'[v] # None =>
        order'[v] \in Order /\ Shown(order'[v], inForce'[v])
  BY <1>2, <1>3 DEF ExchangePart!ExchangeOK, ExchangePart!OrdersPricedInForce
<1>5. \A v \in User : ExchangePart!Making(v)' => rates'[order'[v].pair] \in inForce'[v]
  <2> SUFFICES ASSUME NEW v \in User, ExchangePart!Making(v)'
               PROVE  rates[order'[v].pair] \in inForce'[v]
    BY <1>2
  <2>1. order'[v] # None /\ order'[v].at \in {"priced", "read"}
    BY DEF ExchangePart!Making, ExchangePart!Made
  <2>2. CASE v = u
    BY <1>3, <2>1, <2>2
  <2>3. CASE v # u
    <3>1. order'[v] = order[v] /\ inForce'[v] = inForce[v]
      BY <1>2, <2>3
    <3> QED  BY <1>1, <2>1, <3>1 DEF ExchangePart!ExchangeOK
  <2> QED  BY <2>2, <2>3
<1> QED
  BY <1>2, <1>4, <1>5 DEF ExchangePart!ExchangeOK, ExchangePart!OrdersPricedInForce

LEMMA ExchangeKeeps ==
    ASSUME ExchangePart!ExchangeOK, ExchangePart!Next
    PROVE  ExchangePart!ExchangeOK'
BY SetRateKeeps, OrderKeeps DEF ExchangePart!Next

-----------------------------------------------------------------------------
(* The cards.                                                              *)

CardRecord == [Status : {"active", "blocked"}, Balance : Nat, DailySpent : Nat]

LEMMA CardsInit == CardsPart!Init => CardsPart!CardsOK
BY DEF CardsPart!Init, CardsPart!CardsOK, CardsPart!CardsBalance

LEMMA CardsIdle == CardsPart!CardsOK /\ UNCHANGED card => CardsPart!CardsOK'
BY DEF CardsPart!CardsOK, CardsPart!CardsBalance, card

\* What the books of one card say; the invariant says it of every card.
Books(r, paidIn, out, day) ==
    IF r = None THEN paidIn = 0 /\ out = 0 /\ day = 0
    ELSE /\ r.Balance = paidIn - out /\ r.Balance >= 0
         /\ day <= dailyLimit /\ day = r.DailySpent

LEMMA CardsOKMeans ==
    CardsPart!CardsOK <=>
      /\ cards \in [Card -> {None} \cup CardRecord]
      /\ {toppedUp, spent, today} \subseteq [Card -> Nat]
      /\ \A c \in Card : Books(cards[c], toppedUp[c], spent[c], today[c])
BY DEF CardsPart!CardsOK, CardsPart!CardsBalance, CardRecord, Books

\* A step on one card leaves the others alone.
LEMMA OneCardKeeps ==
    ASSUME CardsPart!CardsOK, NEW c \in Card, NEW r \in CardRecord,
           cards' = [cards EXCEPT ![c] = r],
           {toppedUp', spent', today'} \subseteq [Card -> Nat],
           \A d \in Card \ {c} :
             toppedUp'[d] = toppedUp[d] /\ spent'[d] = spent[d] /\ today'[d] = today[d],
           Books(r, toppedUp'[c], spent'[c], today'[c])
    PROVE  CardsPart!CardsOK'
<1>1. cards' \in [Card -> {None} \cup CardRecord]
  BY CardsOKMeans
<1>2. \A d \in Card : Books(cards'[d], toppedUp'[d], spent'[d], today'[d])
  <2> SUFFICES ASSUME NEW d \in Card
               PROVE  Books(cards'[d], toppedUp'[d], spent'[d], today'[d])
    OBVIOUS
  <2>1. CASE d = c
    BY <2>1, CardsOKMeans
  <2>2. CASE d # c
    <3>1. cards'[d] = cards[d] /\ Books(cards[d], toppedUp[d], spent[d], today[d])
      BY <2>2, CardsOKMeans
    <3> QED  BY <2>2, <3>1
  <2> QED  BY <2>1, <2>2
<1> QED  BY <1>1, <1>2 DEF CardsPart!CardsOK, CardsPart!CardsBalance, CardRecord, Books

LEMMA CardsKeep ==
    ASSUME CardsPart!CardsOK, CardsPart!Next
    PROVE  CardsPart!CardsOK'
<1>1. \A c \in Card : /\ toppedUp[c] \in Nat /\ spent[c] \in Nat /\ today[c] \in Nat
                      /\ cards[c] # None => cards[c] \in CardRecord
                      /\ Books(cards[c], toppedUp[c], spent[c], today[c])
  BY CardsOKMeans
<1>2. /\ cards \in [Card -> {None} \cup CardRecord]
      /\ toppedUp \in [Card -> Nat] /\ spent \in [Card -> Nat] /\ today \in [Card -> Nat]
  BY CardsOKMeans
<1>3. CASE CardsPart!ResetDailySpent
  <2>1. /\ toppedUp' = toppedUp /\ spent' = spent
        /\ \A c \in Card : today'[c] = 0
        /\ \A c \in Card : cards'[c] = IF cards[c] = None THEN None
                                       ELSE [cards[c] EXCEPT !.DailySpent = 0]
    BY <1>3 DEF CardsPart!ResetDailySpent
  <2>2. \A c \in Card : cards[c] # None =>
          /\ cards'[c] \in CardRecord /\ cards'[c] # None
          /\ cards'[c].Balance = cards[c].Balance /\ cards'[c].DailySpent = 0
    <3> SUFFICES ASSUME NEW c \in Card, cards[c] # None
                 PROVE  /\ cards'[c] \in CardRecord /\ cards'[c] # None
                        /\ cards'[c].Balance = cards[c].Balance /\ cards'[c].DailySpent = 0
      OBVIOUS
    <3> DEFINE r == [cards[c] EXCEPT !.DailySpent = 0]
    <3>1. cards[c] \in CardRecord /\ cards'[c] = r
      BY <1>1, <2>1
    <3>2. r \in CardRecord /\ r.Balance = cards[c].Balance /\ r.DailySpent = 0
      BY <3>1 DEF CardRecord
    <3>3. None \notin CardRecord
      BY DEF CardRecord
    <3> HIDE DEF r
    <3> QED  BY <3>1, <3>2, <3>3
  <2>3. /\ cards' \in [Card -> {None} \cup CardRecord]
        /\ {toppedUp', spent', today'} \subseteq [Card -> Nat]
    BY <1>2, <1>3, <2>1, <2>2 DEF CardsPart!ResetDailySpent
  <2>4. \A c \in Card : Books(cards'[c], toppedUp'[c], spent'[c], today'[c])
    <3> SUFFICES ASSUME NEW c \in Card
                 PROVE  Books(cards'[c], toppedUp'[c], spent'[c], today'[c])
      OBVIOUS
    <3>1. CASE cards[c] = None
      BY <1>1, <2>1, <3>1 DEF Books
    <3>2. CASE cards[c] # None
      <4>1. toppedUp'[c] = toppedUp[c] /\ spent'[c] = spent[c] /\ today'[c] = 0
        BY <2>1
      <4>2. cards[c].Balance = toppedUp[c] - spent[c] /\ cards[c].Balance >= 0
        BY <1>1, <3>2 DEF Books
      <4> QED  BY <2>2, <3>2, <4>1, <4>2 DEF Books
    <3> QED  BY <3>1, <3>2
  <2> QED  BY <2>3, <2>4 DEF CardsPart!CardsOK, CardsPart!CardsBalance, CardRecord, Books
<1>4. ASSUME NEW c \in Card, CardsPart!CreateCard(c) PROVE CardsPart!CardsOK'
  <2> DEFINE new == [Status |-> "active", Balance |-> 0, DailySpent |-> 0]
  <2>1. /\ cards' = [cards EXCEPT ![c] = new] /\ new \in CardRecord
        /\ new.Balance = 0 /\ new.DailySpent = 0
    BY <1>4 DEF CardsPart!CreateCard, CardRecord
  <2> HIDE DEF new
  <2>2. toppedUp[c] = 0 /\ spent[c] = 0 /\ today[c] = 0
    BY <1>1, <1>4 DEF CardsPart!CreateCard, Books
  <2>3. toppedUp' = toppedUp /\ spent' = spent /\ today' = today
    BY <1>4 DEF CardsPart!CreateCard
  <2>4. Books(new, toppedUp'[c], spent'[c], today'[c])
    BY <2>1, <2>2, <2>3 DEF Books
  <2> QED  BY <1>2, <2>1, <2>3, <2>4, OneCardKeeps
<1>5. ASSUME NEW c \in Card, NEW amount \in Amounts, CardsPart!TopUpCard(c, amount)
      PROVE  CardsPart!CardsOK'
  <2> DEFINE r == [cards[c] EXCEPT !.Balance = @ + amount]
  <2>0. cards[c] # None /\ cards[c] \in CardRecord /\ amount \in Nat
    BY <1>1, <1>5 DEF CardsPart!TopUpCard, CardsPart!Active
  <2>1. /\ cards' = [cards EXCEPT ![c] = r] /\ r \in CardRecord
        /\ r.Balance = cards[c].Balance + amount /\ r.DailySpent = cards[c].DailySpent
    BY <1>5, <2>0 DEF CardsPart!TopUpCard, CardRecord
  <2> HIDE DEF r
  <2>2. /\ toppedUp' = [toppedUp EXCEPT ![c] = toppedUp[c] + amount]
        /\ spent' = spent /\ today' = today
    BY <1>5 DEF CardsPart!TopUpCard
  <2>3. /\ {toppedUp', spent', today'} \subseteq [Card -> Nat]
        /\ toppedUp'[c] = toppedUp[c] + amount
        /\ \A d \in Card \ {c} : toppedUp'[d] = toppedUp[d]
    BY <1>2, <2>0, <2>2
  <2>4. Books(r, toppedUp'[c], spent'[c], today'[c])
    BY <1>1, <2>0, <2>1, <2>2, <2>3 DEF Books, CardRecord
  <2> QED  BY <2>1, <2>2, <2>3, <2>4, OneCardKeeps
<1>6. ASSUME NEW c \in Card, NEW amount \in Amounts, CardsPart!ProcessCardTransaction(c, amount)
      PROVE  CardsPart!CardsOK'
  <2> DEFINE b == cards[c].Balance - amount
             out == cards[c].DailySpent + amount
             r == [cards[c] EXCEPT !.Balance = b, !.DailySpent = out]
  <2>0. /\ cards[c] # None /\ cards[c] \in CardRecord /\ amount \in Nat
        /\ cards[c].DailySpent + amount <= dailyLimit /\ cards[c].Balance >= amount
    BY <1>1, <1>6 DEF CardsPart!ProcessCardTransaction, CardsPart!Active, CardsPart!Covers
  <2>1. /\ cards' = [cards EXCEPT ![c] = r] /\ r \in CardRecord
        /\ r.Balance = cards[c].Balance - amount
        /\ r.DailySpent = cards[c].DailySpent + amount
    <3>1. cards' = [cards EXCEPT ![c] = r]
      BY <1>6, Zenon DEF CardsPart!ProcessCardTransaction
    <3>2. b \in Nat /\ out \in Nat
      BY <2>0 DEF CardRecord
    <3>3. r \in CardRecord /\ r.Balance = b /\ r.DailySpent = out
      <4> DEFINE x == cards[c]
                 y == [x EXCEPT !.Balance = b]
                 z == [y EXCEPT !.DailySpent = out]
      <4>1. x \in CardRecord
        BY <2>0
      <4> HIDE DEF b, out, x
      <4>2. y \in CardRecord /\ y.Balance = b
        BY <3>2, <4>1 DEF CardRecord
      <4>3. z \in CardRecord /\ z.DailySpent = out /\ z.Balance = y.Balance
        <5> HIDE DEF y
        <5> QED  BY <3>2, <4>2 DEF CardRecord
      <4>4. [x EXCEPT !.Balance = b, !.DailySpent = out] = z
        OBVIOUS
      <4>5. r = z
        BY <4>4 DEF x
      <4> HIDE DEF y, z, r
      <4> QED  BY <4>2, <4>3, <4>5
    <3> QED  BY <3>1, <3>3
  <2> HIDE DEF r
  <2>2. /\ toppedUp' = toppedUp
        /\ spent' = [spent EXCEPT ![c] = spent[c] + amount]
        /\ today' = [today EXCEPT ![c] = today[c] + amount]
    BY <1>6 DEF CardsPart!ProcessCardTransaction
  <2>3. /\ {toppedUp', spent', today'} \subseteq [Card -> Nat]
        /\ spent'[c] = spent[c] + amount /\ today'[c] = today[c] + amount
        /\ \A d \in Card \ {c} : spent'[d] = spent[d] /\ today'[d] = today[d]
    BY <1>2, <2>0, <2>2
  <2>4. Books(r, toppedUp'[c], spent'[c], today'[c])
    BY <1>1, <2>0, <2>1, <2>2, <2>3 DEF Books, CardRecord
  <2> QED  BY <2>1, <2>2, <2>3, <2>4, OneCardKeeps
<1>7. ASSUME NEW c \in Card, NEW s \in {"active", "blocked"}, CardsPart!UpdateCardStatus(c, s)
      PROVE  CardsPart!CardsOK'
  <2> DEFINE r == [cards[c] EXCEPT !.Status = s]
  <2>0. cards[c] # None /\ cards[c] \in CardRecord
    BY <1>1, <1>7 DEF CardsPart!UpdateCardStatus
  <2>1. /\ cards' = [cards EXCEPT ![c] = r] /\ r \in CardRecord
        /\ r.Balance = cards[c].Balance /\ r.DailySpent = cards[c].DailySpent
    BY <1>7, <2>0 DEF CardsPart!UpdateCardStatus, CardRecord
  <2> HIDE DEF r
  <2>2. toppedUp' = toppedUp /\ spent' = spent /\ today' = today
    BY <1>7 DEF CardsPart!UpdateCardStatus
  <2>3. Books(r, toppedUp'[c], spent'[c], today'[c])
    BY <1>1, <2>0, <2>1, <2>2 DEF Books, CardRecord
  <2> QED  BY <1>2, <2>1, <2>2, <2>3, OneCardKeeps
<1> QED  BY <1>3, <1>4, <1>5, <1>6, <1>7 DEF CardsPart!Next

-----------------------------------------------------------------------------
(* The alerts.                                                             *)

Alert == [address : Address, id : Nat, resolved : BOOLEAN]

\* What the owner of a channel has got or will get from it.
Got(c) == received[c] \o buffer[c]

\* A delivery: alerts of the owner's address, in the order they were sent.
Delivery(got, who) ==
    /\ got \in Seq(Nat)
    /\ \A i \in 1 .. Len(got) : got[i] \in 1 .. Len(alerts) /\ alerts[got[i]].address = who
    /\ \A i, j \in 1 .. Len(got) : i < j => got[i] < got[j]

\* The two promises about a subscription and about a channel, apart.
SendsAreSafe ==
    \A a \in Address : subscribers[a] # None =>
      subscribers[a] \notin closed /\ owner[subscribers[a]] = a
ChannelOK(c) ==
    /\ Delivery(Got(c), owner[c])
    /\ owner[c] = None => c \notin closed /\ Got(c) = <<>>
AskedIsThere ==
    \A id \in asked : \E i \in 1 .. Len(alerts) : alerts[i].id = id /\ alerts[i].resolved
AlertTypes ==
    /\ second \in Nat /\ alerts \in Seq(Alert)
    /\ subscribers \in [Address -> Channel \cup {None}]
    /\ owner \in [Channel -> Address \cup {None}]
    /\ buffer \in [Channel -> Seq(Nat)] /\ received \in [Channel -> Seq(Nat)]
TwinsLinger ==
    \A i \in 1 .. Len(alerts) : alerts[i].id \in asked /\ ~alerts[i].resolved =>
      \E j \in 1 .. i - 1 : alerts[j].id = alerts[i].id /\ alerts[j].resolved

AlertsOK ==
    /\ AlertTypes /\ TwinsLinger /\ AskedIsThere /\ SendsAreSafe
    /\ \A c \in Channel : ChannelOK(c)

LEMMA AlertsOKMeans ==
    AlertsOK => AlertsPart!OnlyTwinsLinger /\ AlertsPart!SubscribersServed
<1> SUFFICES ASSUME AlertsOK
             PROVE  AlertsPart!OnlyTwinsLinger /\ AlertsPart!SubscribersServed
  OBVIOUS
<1>1. DOMAIN alerts = 1 .. Len(alerts)
  BY DEF AlertsOK, AlertTypes
<1>2. AlertsPart!OnlyTwinsLinger
  BY <1>1 DEF AlertsPart!OnlyTwinsLinger, AlertsOK, TwinsLinger
<1>3. ASSUME NEW c \in Channel
      PROVE  /\ \A i \in DOMAIN Got(c) : alerts[Got(c)[i]].address = owner[c]
             /\ \A i, j \in DOMAIN Got(c) : i < j => Got(c)[i] < Got(c)[j]
  <2>1. Got(c) \in Seq(Nat) /\ Delivery(Got(c), owner[c])
    BY DEF AlertsOK, ChannelOK, Delivery
  <2>2. DOMAIN Got(c) = 1 .. Len(Got(c))
    BY <2>1
  <2> QED  BY <2>1, <2>2 DEF Delivery
<1>4. AlertsPart!SubscribersServed
  BY <1>3, Zenon DEF AlertsPart!SubscribersServed, AlertsOK, SendsAreSafe, Got
<1> QED  BY <1>2, <1>4

LEMMA AlertsInit == AlertsPart!Init => AlertsOK
<1> SUFFICES ASSUME AlertsPart!Init PROVE AlertsOK
  OBVIOUS
<1>1. \A c \in Channel : Got(c) = <<>> /\ owner[c] = None /\ c \notin closed
  BY ConcatEmptySeq DEF AlertsPart!Init, Got
<1>2. Len(alerts) = 0 /\ AlertTypes
  BY DEF AlertsPart!Init, AlertTypes
<1>3. TwinsLinger /\ AskedIsThere /\ SendsAreSafe
  BY <1>2 DEF AlertsPart!Init, TwinsLinger, AskedIsThere, SendsAreSafe
<1>4. \A c \in Channel : ChannelOK(c)
  <2>1. \A who : Delivery(<<>>, who)
    BY DEF Delivery
  <2> QED  BY <1>1, <2>1 DEF ChannelOK
<1> QED  BY <1>2, <1>3, <1>4 DEF AlertsOK

LEMMA AlertsIdle ==
    ASSUME AlertsOK, UNCHANGED alert, second' \in Nat
    PROVE  AlertsOK'
<1>1. UNCHANGED <<alerts, subscribers, buffer, received, closed, owner, asked>>
  BY DEF alert
<1>2. AlertTypes' /\ TwinsLinger' /\ AskedIsThere' /\ SendsAreSafe'
  BY <1>1 DEF AlertsOK, AlertTypes, TwinsLinger, AskedIsThere, SendsAreSafe
<1>3. ASSUME NEW c \in Channel PROVE ChannelOK(c)'
  <2>1. Got(c)' = Got(c)
    BY <1>1 DEF Got
  <2> QED  BY <1>1, <2>1 DEF AlertsOK, ChannelOK, Delivery
<1> QED  BY <1>2, <1>3 DEF AlertsOK

LEMMA Associates ==
    ASSUME NEW x \in Seq(Nat), NEW y \in Seq(Nat), NEW z \in Seq(Nat)
    PROVE  (x \o y) \o z = x \o (y \o z)
BY ConcatAssociative, SMTT(30)

\* What is sent comes after all that was sent before.
LEMMA SentComesLast ==
    ASSUME NEW r \in Seq(Nat), NEW b \in Seq(Nat), NEW m \in Nat
    PROVE  r \o Append(b, m) = Append(r \o b, m)
<1>1. Append(b, m) = b \o <<m>>
  BY AppendIsConcat, Zenon
<1>2. <<m>> \in Seq(Nat)
  OBVIOUS
<1> DEFINE z == <<m>>
<1>3. (r \o b) \o z = r \o (b \o z)
  <2>1. z \in Seq(Nat)
    BY <1>2
  <2> HIDE DEF z
  <2> QED  BY <2>1, Associates, Zenon
<1>4. r \o b \in Seq(Nat)
  BY ConcatProperties
<1>5. Append(r \o b, m) = (r \o b) \o <<m>>
  BY <1>4, AppendIsConcat, Zenon
<1> QED  BY <1>1, <1>3, <1>5

\* What is taken from a channel was the first thing in it.
LEMMA TakenCameFirst ==
    ASSUME NEW r \in Seq(Nat), NEW b \in Seq(Nat), b # <<>>
    PROVE  /\ Append(r, Head(b)) \o Tail(b) = r \o b
           /\ Append(r, Head(b)) \in Seq(Nat) /\ Tail(b) \in Seq(Nat)
<1>1. Head(b) \in Nat /\ Tail(b) \in Seq(Nat) /\ <<Head(b)>> \o Tail(b) = b
  BY HeadTailProperties, ConcatProperties
<1>2. Append(r, Head(b)) = r \o <<Head(b)>>
  BY <1>1, AppendIsConcat, Zenon
<1>3. <<Head(b)>> \in Seq(Nat)
  BY <1>1
<1>4. (r \o <<Head(b)>>) \o Tail(b) = r \o (<<Head(b)>> \o Tail(b))
  <2> DEFINE h == <<Head(b)>>
             z == Tail(b)
  <2>1. h \in Seq(Nat) /\ z \in Seq(Nat)
    BY <1>1, <1>3
  <2> HIDE DEF h, z
  <2>2. (r \o h) \o z = r \o (h \o z)
    BY <2>1, Associates, Zenon
  <2> QED  BY <2>2 DEF h, z
<1> QED  BY <1>1, <1>2, <1>4, AppendProperties

\* An alert is offered to the channel of its address, which is open.
LEMMA SendAlertKeeps ==
    ASSUME AlertsOK, NEW a \in Address, AlertsPart!SendAlert(a)
    PROVE  AlertsOK'
<1> DEFINE new == [address |-> a, id |-> second, resolved |-> FALSE]
           n == Len(alerts)
           c == subscribers[a]
<1>1. /\ alerts' = Append(alerts, new)
      /\ buffer' = IF c # None /\ Len(buffer[c]) < Capacity
                   THEN [buffer EXCEPT ![c] = Append(@, Len(alerts'))] ELSE buffer
      /\ UNCHANGED <<second, subscribers, received, closed, owner, asked>>
  BY DEF AlertsPart!SendAlert, AlertsPart!generateAlertID
<1>2. new \in Alert /\ new.id = second /\ new.address = a /\ ~new.resolved
  BY DEF AlertsOK, AlertTypes, Alert
<1> HIDE DEF new
<1>3. /\ n \in Nat /\ alerts' \in Seq(Alert) /\ Len(alerts') = n + 1
      /\ \A i \in 1 .. n : alerts'[i] = alerts[i]
      /\ alerts'[n + 1] = new
  BY <1>1, <1>2, AppendProperties DEF AlertsOK, AlertTypes
<1>4. AskedIsThere'
  BY <1>1, <1>3 DEF AlertsOK, AskedIsThere
<1>5. TwinsLinger'
  <2> SUFFICES ASSUME NEW i \in 1 .. n + 1, alerts'[i].id \in asked, ~alerts'[i].resolved
               PROVE  \E j \in 1 .. i - 1 : alerts'[j].id = alerts'[i].id /\ alerts'[j].resolved
    BY <1>1, <1>3 DEF TwinsLinger
  <2>1. CASE i = n + 1
    <3>1. PICK j \in 1 .. n : alerts[j].id = alerts'[i].id /\ alerts[j].resolved
      BY DEF AlertsOK, AskedIsThere
    <3> QED  BY <1>3, <2>1, <3>1
  <2>2. CASE i \in 1 .. n
    <3>1. PICK j \in 1 .. i - 1 : alerts[j].id = alerts[i].id /\ alerts[j].resolved
      BY <1>3, <2>2 DEF AlertsOK, TwinsLinger
    <3> QED  BY <1>3, <2>2, <3>1
  <2> QED  BY <1>3, <2>1, <2>2
<1>6. SendsAreSafe'
  BY <1>1 DEF AlertsOK, SendsAreSafe
<1>7. AlertTypes'
  <2>1. buffer' \in [Channel -> Seq(Nat)]
    <3>1. CASE c # None /\ Len(buffer[c]) < Capacity
      <4>1. c \in Channel /\ buffer[c] \in Seq(Nat)
        BY <3>1 DEF AlertsOK, AlertTypes
      <4>2. Append(buffer[c], Len(alerts')) \in Seq(Nat)
        BY <1>3, <4>1, AppendProperties
      <4> QED  BY <1>1, <3>1, <4>2 DEF AlertsOK, AlertTypes
    <3> QED  BY <1>1, <3>1 DEF AlertsOK, AlertTypes
  <2> QED  BY <1>1, <1>3, <2>1 DEF AlertsOK, AlertTypes
<1>8. ASSUME NEW d \in Channel PROVE ChannelOK(d)'
  <2>1. Delivery(Got(d), owner[d])' /\ (owner[d] = None => Got(d)' = Got(d))
    <3>1. Delivery(Got(d), owner[d]) /\ Got(d) \in Seq(Nat)
      BY DEF AlertsOK, ChannelOK, Delivery
    <3>2. CASE buffer'[d] = buffer[d]
      <4>1. Got(d)' = Got(d) /\ owner'[d] = owner[d]
        BY <1>1, <3>2 DEF Got
      <4> QED  BY <1>3, <3>1, <4>1 DEF Delivery
    <3>3. CASE buffer'[d] # buffer[d]
      <4>1. /\ d = c /\ c # None /\ d \in Channel
            /\ buffer'[d] = Append(buffer[d], n + 1)
        BY <1>1, <1>3, <3>3 DEF AlertsOK, AlertTypes
      <4>2. owner[d] = a /\ a # None
        BY <4>1 DEF AlertsOK, SendsAreSafe
      <4>3. received[d] \in Seq(Nat) /\ buffer[d] \in Seq(Nat) /\ n + 1 \in Nat
        BY <1>3 DEF AlertsOK, AlertTypes
      <4>4. Got(d)' = Append(Got(d), n + 1)
        <5>1. Got(d)' = received[d] \o Append(buffer[d], n + 1)
          BY <1>1, <4>1 DEF Got
        <5> DEFINE r == received[d]
                   b == buffer[d]
                   x == n + 1
        <5>2. r \in Seq(Nat) /\ b \in Seq(Nat) /\ x \in Nat
          BY <4>3
        <5>3. Got(d) = r \o b /\ Got(d)' = r \o Append(b, x)
          BY <5>1 DEF Got
        <5> HIDE DEF r, b, x, Got
        <5>4. r \o Append(b, x) = Append(r \o b, x)
          BY <5>2, SentComesLast, Zenon
        <5>5. Got(d)' = Append(Got(d), x)
          BY <5>3, <5>4
        <5> QED  BY <5>5 DEF x
      <4> DEFINE g == Got(d)
                 h == Got(d)'
                 k == Len(Got(d))
      <4>5. /\ h \in Seq(Nat) /\ Len(h) = k + 1 /\ k \in Nat /\ h[k + 1] = n + 1
            /\ \A i \in 1 .. k : h[i] = g[i]
        BY <3>1, <4>3, <4>4, AppendProperties
      <4>6. \A i \in 1 .. k : g[i] \in 1 .. n /\ alerts[g[i]].address = a
        BY <3>1, <4>2 DEF Delivery
      <4>7. \A i, j \in 1 .. k : i < j => g[i] < g[j]
        BY <3>1 DEF Delivery
      <4> HIDE DEF g, h, k
      <4>8. \A i \in 1 .. Len(h) : h[i] \in 1 .. Len(alerts') /\ alerts'[h[i]].address = a
        <5> SUFFICES ASSUME NEW i \in 1 .. k + 1
                     PROVE  h[i] \in 1 .. n + 1 /\ alerts'[h[i]].address = a
          BY <1>3, <4>5
        <5>1. CASE i = k + 1
          BY <1>2, <1>3, <4>5, <5>1
        <5>2. CASE i \in 1 .. k
          <6>1. h[i] = g[i] /\ g[i] \in 1 .. n /\ alerts[g[i]].address = a
            BY <4>5, <4>6, <5>2
          <6>2. alerts'[g[i]] = alerts[g[i]]
            BY <1>3, <6>1
          <6> QED  BY <1>3, <6>1, <6>2
        <5> QED  BY <4>5, <5>1, <5>2
      <4>9. \A i, j \in 1 .. Len(h) : i < j => h[i] < h[j]
        <5> SUFFICES ASSUME NEW i \in 1 .. k + 1, NEW j \in 1 .. k + 1, i < j
                     PROVE  h[i] < h[j]
          BY <4>5
        <5>1. i \in 1 .. k
          BY <4>5
        <5>2. CASE j = k + 1
          BY <1>3, <4>5, <4>6, <5>1, <5>2
        <5>3. CASE j \in 1 .. k
          BY <4>5, <4>7, <5>1, <5>3
        <5> QED  BY <4>5, <5>2, <5>3
      <4> QED  BY <1>1, <4>2, <4>5, <4>8, <4>9 DEF Delivery, h
    <3> QED  BY <3>2, <3>3
  <2> QED  BY <1>1, <2>1 DEF AlertsOK, ChannelOK
<1> QED  BY <1>4, <1>5, <1>6, <1>7, <1>8 DEF AlertsOK

\* A channel is made for one address, and nothing has come over it.
LEMMA SubscribeKeeps ==
    ASSUME AlertsOK, NEW a \in Address, NEW c \in Channel, AlertsPart!Subscribe(a, c)
    PROVE  AlertsOK'
<1>1. /\ owner[c] = None /\ owner' = [owner EXCEPT ![c] = a]
      /\ subscribers' = [subscribers EXCEPT ![a] = c]
      /\ UNCHANGED <<second, alerts, buffer, received, closed, asked>>
  BY DEF AlertsPart!Subscribe
<1>2. c \notin closed /\ Got(c) = <<>> /\ a # None
  BY <1>1 DEF AlertsOK, ChannelOK
<1>3. AlertTypes' /\ TwinsLinger' /\ AskedIsThere'
  BY <1>1 DEF AlertsOK, AlertTypes, TwinsLinger, AskedIsThere
<1>4. SendsAreSafe'
  BY <1>1, <1>2 DEF AlertsOK, AlertTypes, SendsAreSafe
<1>5. ASSUME NEW d \in Channel PROVE ChannelOK(d)'
  <2>1. Got(d)' = Got(d)
    BY <1>1 DEF Got
  <2>2. CASE d = c
    <3>1. Delivery(<<>>, a)'
      BY DEF Delivery
    <3> QED  BY <1>1, <1>2, <2>1, <2>2, <3>1 DEF AlertsOK, AlertTypes, ChannelOK
  <2>3. CASE d # c
    <3>1. owner'[d] = owner[d]
      BY <1>1, <2>3 DEF AlertsOK, AlertTypes
    <3> QED  BY <1>1, <2>1, <3>1 DEF AlertsOK, ChannelOK, Delivery
  <2> QED  BY <2>2, <2>3
<1> QED  BY <1>3, <1>4, <1>5 DEF AlertsOK

\* The channel that is closed is nobody's subscription any more.
LEMMA UnsubscribeKeeps ==
    ASSUME AlertsOK, NEW a \in Address, AlertsPart!Unsubscribe(a)
    PROVE  AlertsOK'
<1>1. /\ subscribers[a] # None /\ closed' = closed \cup {subscribers[a]}
      /\ subscribers' = [subscribers EXCEPT ![a] = None]
      /\ UNCHANGED <<second, alerts, buffer, received, owner, asked>>
  BY DEF AlertsPart!Unsubscribe
<1>2. owner[subscribers[a]] = a /\ a # None
  BY <1>1 DEF AlertsOK, SendsAreSafe
<1>3. AlertTypes' /\ TwinsLinger' /\ AskedIsThere'
  BY <1>1 DEF AlertsOK, AlertTypes, TwinsLinger, AskedIsThere
<1>4. SendsAreSafe'
  BY <1>1, <1>2 DEF AlertsOK, AlertTypes, SendsAreSafe
<1>5. ASSUME NEW d \in Channel PROVE ChannelOK(d)'
  <2>1. Got(d)' = Got(d)
    BY <1>1 DEF Got
  <2> QED  BY <1>1, <1>2, <2>1 DEF AlertsOK, ChannelOK, Delivery
<1> QED  BY <1>3, <1>4, <1>5 DEF AlertsOK

\* What the owner of a channel takes it was going to get.
LEMMA ReceiveKeeps ==
    ASSUME AlertsOK, NEW c \in Channel, AlertsPart!Receive(c)
    PROVE  AlertsOK'
<1>1. /\ buffer[c] # <<>>
      /\ received' = [received EXCEPT ![c] = Append(@, Head(buffer[c]))]
      /\ buffer' = [buffer EXCEPT ![c] = Tail(@)]
      /\ UNCHANGED <<second, alerts, subscribers, closed, owner, asked>>
  BY DEF AlertsPart!Receive
<1>2. received[c] \in Seq(Nat) /\ buffer[c] \in Seq(Nat)
  BY DEF AlertsOK, AlertTypes
<1>3. /\ Append(received[c], Head(buffer[c])) \o Tail(buffer[c]) = Got(c)
      /\ Append(received[c], Head(buffer[c])) \in Seq(Nat) /\ Tail(buffer[c]) \in Seq(Nat)
  BY <1>1, <1>2, TakenCameFirst, Zenon DEF Got
<1>4. TwinsLinger' /\ AskedIsThere' /\ SendsAreSafe'
  BY <1>1 DEF AlertsOK, TwinsLinger, AskedIsThere, SendsAreSafe
<1>5. /\ received'[c] = Append(received[c], Head(buffer[c]))
      /\ buffer'[c] = Tail(buffer[c])
      /\ \A d \in Channel \ {c} : received'[d] = received[d] /\ buffer'[d] = buffer[d]
  BY <1>1 DEF AlertsOK, AlertTypes
<1>6. AlertTypes'
  <2> DEFINE x == Append(received[c], Head(buffer[c]))
             y == Tail(buffer[c])
  <2>1. x \in Seq(Nat) /\ y \in Seq(Nat)
    BY <1>3
  <2>2. received' = [received EXCEPT ![c] = x] /\ buffer' = [buffer EXCEPT ![c] = y]
    BY <1>1
  <2> HIDE DEF x, y
  <2> QED  BY <1>1, <2>1, <2>2 DEF AlertsOK, AlertTypes
<1>7. ASSUME NEW d \in Channel PROVE ChannelOK(d)'
  <2>1. Got(d)' = Got(d)
    <3>1. CASE d = c
      BY <1>3, <1>5, <3>1 DEF Got
    <3>2. CASE d # c
      BY <1>5, <3>2 DEF Got
    <3> QED  BY <3>1, <3>2
  <2> QED  BY <1>1, <2>1 DEF AlertsOK, ChannelOK, Delivery
<1> QED  BY <1>4, <1>6, <1>7 DEF AlertsOK

\* The alert that is marked is one that has the ID, and none before it does.
LEMMA FirstOfIsFirst ==
    ASSUME NEW found \in SUBSET Nat, found # {}
    PROVE  /\ AlertsPart!FirstOf(found) \in found
           /\ \A j \in found : AlertsPart!FirstOf(found) <= j
<1> DEFINE T == {1 .. i : i \in found}
<1>1. IsWellFoundedOn(StrictSubsetOrdering(Nat), FiniteSubsetsOf(Nat))
  BY FS_StrictSubsetOrderingWellFounded
<1>2. \A i \in found : i \in Nat /\ IsFiniteSet(1 .. i) /\ 1 .. i \in SUBSET Nat
  BY FS_Interval
<1>3. T \subseteq FiniteSubsetsOf(Nat) /\ T # {}
  BY <1>2 DEF FiniteSubsetsOf
<1>4. PICK x \in T : \A y \in T : <<y, x>> \notin StrictSubsetOrdering(Nat)
  BY <1>1, <1>3, WFMin
<1>5. PICK i \in found : x = 1 .. i
  BY <1>4
<1>6. ASSUME NEW j \in found PROVE i <= j
  <2>1. <<1 .. j, 1 .. i>> \notin StrictSubsetOrdering(Nat)
    BY <1>4, <1>5
  <2>2. i \in Nat /\ j \in Nat /\ 1 .. i \in SUBSET Nat /\ 1 .. j \in SUBSET Nat
    BY <1>2
  <2>3. ~(1 .. j \subseteq 1 .. i /\ 1 .. j # 1 .. i)
    BY <2>1, <2>2 DEF StrictSubsetOrdering
  <2>4. CASE j < i
    <3>1. 1 .. j \subseteq 1 .. i /\ i \in 1 .. i /\ i \notin 1 .. j
      BY <2>2, <2>4
    <3> QED  BY <2>3, <3>1
  <2> QED  BY <2>2, <2>4
<1>7. \E k \in found : \A j \in found : k <= j
  BY <1>6
<1> QED  BY <1>7 DEF AlertsPart!FirstOf

LEMMA ResolveAlertKeeps ==
    ASSUME AlertsOK, NEW id \in 0 .. MaxSecond, AlertsPart!ResolveAlert(id)
    PROVE  AlertsOK'
<1> DEFINE found == {i \in DOMAIN alerts : alerts[i].id = id}
           f == AlertsPart!FirstOf(found)
           n == Len(alerts)
<1>1. /\ found # {}
      /\ alerts' = [alerts EXCEPT ![f].resolved = TRUE]
      /\ asked' = asked \cup {id}
      /\ UNCHANGED <<second, subscribers, buffer, received, closed, owner>>
  BY DEF AlertsPart!ResolveAlert, AlertsPart!channels
<1>2. n \in Nat /\ DOMAIN alerts = 1 .. n /\ found \in SUBSET Nat
  BY DEF AlertsOK, AlertTypes
<1>3. f \in 1 .. n /\ alerts[f].id = id /\ \A j \in found : f <= j
  <2>1. f \in found /\ \A j \in found : f <= j
    BY <1>1, <1>2, FirstOfIsFirst
  <2> QED  BY <1>2, <2>1
<1>4. \A j \in 1 .. n : alerts[j].id = id => f <= j
  BY <1>2, <1>3
<1> HIDE DEF found, f
<1>5. \A i \in 1 .. n : alerts[i] \in Alert
  BY <1>2 DEF AlertsOK, AlertTypes
<1>6. /\ alerts' \in Seq(Alert) /\ Len(alerts') = n
      /\ \A i \in 1 .. n : /\ alerts'[i].id = alerts[i].id
                           /\ alerts'[i].address = alerts[i].address
                           /\ alerts'[i].resolved = (alerts[i].resolved \/ i = f)
  <2> DEFINE x == [alerts[f] EXCEPT !.resolved = TRUE]
  <2>1. /\ x \in Alert /\ x.id = alerts[f].id /\ x.address = alerts[f].address
        /\ x.resolved
    BY <1>3, <1>5 DEF Alert
  <2>2. alerts' = [alerts EXCEPT ![f] = x]
    BY <1>1
  <2> HIDE DEF x
  <2>3. alerts' \in Seq(Alert) /\ Len(alerts') = n
    BY <1>2, <1>3, <2>1, <2>2, ExceptSeq DEF AlertsOK, AlertTypes
  <2>4. alerts'[f] = x /\ \A i \in 1 .. n : i # f => alerts'[i] = alerts[i]
    BY <1>2, <1>3, <2>2
  <2>5. \A i \in 1 .. n : alerts[i].resolved \in BOOLEAN
    BY <1>5 DEF Alert
  <2> QED  BY <2>1, <2>3, <2>4, <2>5
<1>7. AskedIsThere'
  BY <1>1, <1>3, <1>6 DEF AlertsOK, AskedIsThere
<1>8. TwinsLinger'
  <2> SUFFICES ASSUME NEW i \in 1 .. n, alerts'[i].id \in asked', ~alerts'[i].resolved
               PROVE  \E j \in 1 .. i - 1 : alerts'[j].id = alerts'[i].id /\ alerts'[j].resolved
    BY <1>6 DEF TwinsLinger
  <2>1. CASE alerts[i].id = id
    <3>1. f <= i
      BY <1>4, <2>1
    <3>2. alerts'[i].resolved = (alerts[i].resolved \/ i = f)
      BY <1>6
    <3>3. f # i
      BY <3>2
    <3>4. f \in 1 .. i - 1
      BY <1>2, <1>3, <3>1, <3>3
    <3> QED  BY <1>3, <1>6, <2>1, <3>4
  <2>2. CASE alerts[i].id # id
    <3>1. PICK j \in 1 .. i - 1 : alerts[j].id = alerts[i].id /\ alerts[j].resolved
      BY <1>1, <1>6, <2>2 DEF AlertsOK, TwinsLinger
    <3>2. j \in 1 .. n
      BY <1>2
    <3> QED  BY <1>6, <3>1, <3>2
  <2> QED  BY <2>1, <2>2
<1>9. SendsAreSafe' /\ AlertTypes'
  BY <1>1, <1>6 DEF AlertsOK, SendsAreSafe, AlertTypes
<1>10. ASSUME NEW d \in Channel PROVE ChannelOK(d)'
  <2>1. Got(d)' = Got(d)
    BY <1>1 DEF Got
  <2>2. Delivery(Got(d), owner[d])'
    BY <1>1, <1>6, <2>1 DEF AlertsOK, ChannelOK, Delivery
  <2> QED  BY <1>1, <2>1, <2>2 DEF AlertsOK, ChannelOK
<1> QED  BY <1>7, <1>8, <1>9, <1>10 DEF AlertsOK

LEMMA AlertsKeep ==
    ASSUME AlertsOK, AlertsPart!Next
    PROVE  AlertsOK'
<1>1. CASE AlertsPart!Tick
  <2>1. second' \in Nat /\ UNCHANGED alert
    BY <1>1 DEF AlertsOK, AlertTypes, AlertsPart!Tick, AlertsPart!channels, alert
  <2> QED  BY <2>1, AlertsIdle
<1>2. ASSUME NEW a \in Address,
             AlertsPart!SendAlert(a) \/ AlertsPart!Unsubscribe(a)
               \/ \E c \in Channel : AlertsPart!Subscribe(a, c)
      PROVE  AlertsOK'
  BY <1>2, SendAlertKeeps, UnsubscribeKeeps, SubscribeKeeps
<1>3. ASSUME NEW c \in Channel, AlertsPart!Receive(c) PROVE AlertsOK'
  BY <1>3, ReceiveKeeps
<1>4. ASSUME NEW id \in 0 .. MaxSecond, AlertsPart!ResolveAlert(id) PROVE AlertsOK'
  BY <1>4, ResolveAlertKeeps
<1> QED  BY <1>1, <1>2, <1>3, <1>4 DEF AlertsPart!Next

-----------------------------------------------------------------------------
(* Merchants and their payment requests.                                   *)

Bill == [merchant : Merchants, amount : Nat]
Reading == [at : {"locked", "expiring", "encoding"}, id : Request]
Billed(q) == bill[q] # None
AllBilled == {q \in Request : Billed(q)}

MerchantTypes ==
    /\ now \in Int
    /\ TotalReceived \in [Merchants -> {None} \cup Int]
    /\ bill \in [Request -> {None} \cup Bill]
    /\ IsFiniteSet(AllBilled)
    /\ paymentRequests \in [Request -> {None} \cup MerchantPart!Requests!InvoiceRecord]
    /\ getters \in [Getter -> {MerchantPart!Requests!Out} \cup Reading]
    /\ mobilePayments \in [Merchants -> Seq(Nat)]

\* Who is about to write "expired" keeps payments out, and only a merchant
\* that is registered asks for money or gets any.
RequestsOK ==
    /\ \A q \in Request : Billed(q) <=> paymentRequests[q] # None
    /\ \A g \in Getter : getters[g] # MerchantPart!Requests!Out =>
         /\ Billed(getters[g].id)
         /\ getters[g].at = "expiring" => paymentRequests[getters[g].id].status # "paid"

MerchantsOK ==
    /\ \A q \in Request : Billed(q) => TotalReceived[bill[q].merchant] # None
    /\ \A m \in Merchants : TotalReceived[m] = None => mobilePayments[m] = <<>>

AmountOf(m) == [q \in MerchantPart!Completed(m) |-> bill[q].amount]
ByRequest(m) == Total(AmountOf(m), MerchantPart!Completed(m))
ByPhone(m) == Total(mobilePayments[m], DOMAIN mobilePayments[m])

TotalsOK ==
    \A m \in Merchants : TotalReceived[m] # None =>
        TotalReceived[m] = ByRequest(m) + ByPhone(m)

MerchantOK == MerchantTypes /\ RequestsOK /\ MerchantsOK /\ TotalsOK

\* What the sums are made of.
LEMMA SumsAreInt ==
    ASSUME MerchantTypes, NEW m \in Merchants
    PROVE  /\ IsFiniteSet(MerchantPart!Completed(m))
           /\ \A q \in MerchantPart!Completed(m) :
                /\ q \in Request /\ bill[q] \in Bill /\ bill[q].merchant = m
                /\ AmountOf(m)[q] = bill[q].amount /\ bill[q].amount \in Nat
           /\ ByRequest(m) \in Int
           /\ IsFiniteSet(DOMAIN mobilePayments[m]) /\ ByPhone(m) \in Int
           /\ mobilePayments[m] \in Seq(Nat)
<1> DEFINE C == MerchantPart!Completed(m)
<1>1. C \subseteq AllBilled
  BY DEF MerchantPart!Completed, AllBilled, Billed
<1>2. IsFiniteSet(C)
  BY <1>1, FS_Subset DEF MerchantTypes
<1>3. \A q \in C : q \in Request /\ bill[q] \in Bill /\ bill[q].merchant = m
  BY <1>1 DEF MerchantPart!Completed, AllBilled, Billed, MerchantTypes
<1>4. \A q \in C : AmountOf(m)[q] = bill[q].amount /\ bill[q].amount \in Nat
  BY <1>3 DEF AmountOf, Bill
<1>5. ByRequest(m) \in Int
  <2> HIDE DEF C
  <2>1. \A q \in C : AmountOf(m)[q] \in Int
    BY <1>4
  <2>2. Total(AmountOf(m), C) \in Int
    BY <1>2, <2>1, TotalInt
  <2> QED  BY <2>2 DEF ByRequest, C
<1>6. /\ mobilePayments[m] \in Seq(Nat) /\ Len(mobilePayments[m]) \in Nat
      /\ DOMAIN mobilePayments[m] = 1 .. Len(mobilePayments[m])
  BY DEF MerchantTypes
<1>7. IsFiniteSet(DOMAIN mobilePayments[m])
  BY <1>6, FS_Interval
<1>8. \A i \in DOMAIN mobilePayments[m] : mobilePayments[m][i] \in Int
  BY <1>6
<1>9. ByPhone(m) \in Int
  BY <1>7, <1>8, TotalInt DEF ByPhone
<1> QED  BY <1>2, <1>3, <1>4, <1>5, <1>6, <1>7, <1>9

\* The same requests are completed, for the same amounts.
LEMMA SameRequests ==
    ASSUME NEW m \in Merchants, MerchantPart!Completed(m)' = MerchantPart!Completed(m),
           \A q \in MerchantPart!Completed(m) : bill'[q] = bill[q]
    PROVE  ByRequest(m)' = ByRequest(m)
<1>1. AmountOf(m)' = AmountOf(m)
  BY DEF AmountOf
<1> QED  BY <1>1 DEF ByRequest

LEMMA SamePayments ==
    ASSUME NEW m \in Merchants, mobilePayments'[m] = mobilePayments[m]
    PROVE  ByPhone(m)' = ByPhone(m)
BY DEF ByPhone

\* A reader moves on, which is nobody's money.
LEMMA ReaderKeeps ==
    ASSUME MerchantOK, NEW g \in Getter, NEW to \in {MerchantPart!Requests!Out} \cup Reading,
           getters' = [getters EXCEPT ![g] = to],
           UNCHANGED <<now, TotalReceived, paymentRequests, bill, mobilePayments>>,
           to # MerchantPart!Requests!Out =>
             /\ Billed(to.id)
             /\ to.at = "expiring" => paymentRequests[to.id].status # "paid"
    PROVE  MerchantOK'
<1>1. /\ \A q : Billed(q)' = Billed(q)
      /\ \A m : MerchantPart!Completed(m)' = MerchantPart!Completed(m)
  BY DEF Billed, MerchantPart!Completed
<1>2. MerchantTypes' /\ RequestsOK'
  <2>1. AllBilled' = AllBilled
    BY <1>1 DEF AllBilled
  <2> QED  BY <1>1, <2>1 DEF MerchantOK, MerchantTypes, RequestsOK
<1>3. \A m \in Merchants : ByRequest(m)' = ByRequest(m) /\ ByPhone(m)' = ByPhone(m)
  BY <1>1, SameRequests, SamePayments
<1> QED  BY <1>1, <1>2, <1>3 DEF MerchantOK, MerchantsOK, TotalsOK

\* One request gets another status.
LEMMA RequestChanges ==
    ASSUME MerchantOK, NEW q \in Request, Billed(q), NEW st \in {"paid", "expired"},
           paymentRequests' = [paymentRequests EXCEPT ![q].status = st]
    PROVE  /\ paymentRequests' \in [Request -> {None} \cup MerchantPart!Requests!InvoiceRecord]
           /\ paymentRequests'[q] # None /\ paymentRequests'[q].status = st
           /\ \A r \in Request \ {q} : paymentRequests'[r] = paymentRequests[r]
<1> DEFINE x == [paymentRequests[q] EXCEPT !.status = st]
<1>1. paymentRequests[q] \in MerchantPart!Requests!InvoiceRecord
  BY DEF MerchantOK, MerchantTypes, RequestsOK
<1>2. x \in MerchantPart!Requests!InvoiceRecord /\ x.status = st
  BY <1>1 DEF MerchantPart!Requests!InvoiceRecord
<1>3. x # None
  BY <1>2 DEF MerchantPart!Requests!InvoiceRecord
<1>4. paymentRequests' = [paymentRequests EXCEPT ![q] = x]
  OBVIOUS
<1> HIDE DEF x
<1>5. paymentRequests'[q] = x /\ \A r \in Request \ {q} : paymentRequests'[r] = paymentRequests[r]
  BY <1>4 DEF MerchantOK, MerchantTypes
<1>6. paymentRequests' \in [Request -> {None} \cup MerchantPart!Requests!InvoiceRecord]
  BY <1>2, <1>4 DEF MerchantOK, MerchantTypes
<1> QED  BY <1>2, <1>3, <1>5, <1>6

LEMMA RegisterMerchantKeeps ==
    ASSUME MerchantOK, NEW m \in Merchants, MerchantPart!RegisterMerchant(m)
    PROVE  MerchantOK'
<1>1. /\ TotalReceived[m] = None /\ TotalReceived' = [TotalReceived EXCEPT ![m] = 0]
      /\ UNCHANGED <<now, paymentRequests, getters, bill, mobilePayments>>
  BY DEF MerchantPart!RegisterMerchant, MerchantPart!expiry
<1>2. /\ \A q : Billed(q)' = Billed(q)
      /\ \A n : MerchantPart!Completed(n)' = MerchantPart!Completed(n)
  BY <1>1 DEF Billed, MerchantPart!Completed
<1>3. /\ TotalReceived'[m] = 0 /\ 0 # None
      /\ \A n \in Merchants \ {m} : TotalReceived'[n] = TotalReceived[n]
  BY <1>1 DEF MerchantOK, MerchantTypes
<1>4. MerchantTypes' /\ RequestsOK' /\ MerchantsOK'
  <2>1. AllBilled' = AllBilled
    BY <1>2 DEF AllBilled
  <2>2. MerchantTypes' /\ RequestsOK'
    <3>1. TotalReceived' \in [Merchants -> {None} \cup Int]
      BY <1>1 DEF MerchantOK, MerchantTypes
    <3> QED  BY <1>1, <1>2, <2>1, <3>1 DEF MerchantOK, MerchantTypes, RequestsOK
  <2>3. \A q \in Request : Billed(q) => bill[q].merchant \in Merchants
    BY DEF MerchantOK, MerchantTypes, Billed, Bill
  <2> QED  BY <1>1, <1>2, <1>3, <2>2, <2>3 DEF MerchantOK, MerchantsOK
<1>5. \A n \in Merchants : ByRequest(n)' = ByRequest(n) /\ ByPhone(n)' = ByPhone(n)
  BY <1>1, <1>2, SameRequests, SamePayments
<1>6. ByRequest(m) = 0 /\ ByPhone(m) = 0
  <2>1. MerchantPart!Completed(m) = {}
    BY <1>1 DEF MerchantOK, MerchantsOK, MerchantPart!Completed, Billed
  <2>2. mobilePayments[m] = <<>> /\ DOMAIN mobilePayments[m] = {}
    BY <1>1 DEF MerchantOK, MerchantsOK
  <2> QED  BY <2>1, <2>2, TotalEmpty DEF ByRequest, ByPhone
<1>7. TotalsOK'
  BY <1>3, <1>5, <1>6 DEF MerchantOK, TotalsOK
<1> QED  BY <1>4, <1>7 DEF MerchantOK

LEMMA CreatePaymentRequestKeeps ==
    ASSUME MerchantOK, NEW q \in Request, NEW m \in Merchants, NEW a \in Amounts,
           MerchantPart!CreatePaymentRequest(q, m, a)
    PROVE  MerchantOK'
<1> DEFINE b == [merchant |-> m, amount |-> a]
           x == [status |-> "pending", expires |-> now + (IF 0 = 0 THEN 0 ELSE 0)]
<1>1. /\ TotalReceived[m] # None /\ paymentRequests[q] = None
      /\ bill' = [bill EXCEPT ![q] = b]
      /\ paymentRequests' = [paymentRequests EXCEPT ![q] = x]
      /\ UNCHANGED <<now, TotalReceived, getters, mobilePayments>>
  BY DEF MerchantPart!CreatePaymentRequest, MerchantPart!Requests!CreateInvoice
<1>2. b \in Bill /\ b # None /\ b.merchant = m
  <2>1. b \in Bill
    BY DEF Bill
  <2> QED  BY <2>1 DEF Bill
<1>3. x \in MerchantPart!Requests!InvoiceRecord /\ x # None /\ x.status = "pending"
  <2>1. x \in MerchantPart!Requests!InvoiceRecord
    BY DEF MerchantPart!Requests!InvoiceRecord, MerchantOK, MerchantTypes
  <2> QED  BY <2>1 DEF MerchantPart!Requests!InvoiceRecord
<1> HIDE DEF b, x
<1>4. /\ ~Billed(q) /\ bill'[q] = b /\ paymentRequests'[q] = x
      /\ \A r \in Request \ {q} : bill'[r] = bill[r] /\ paymentRequests'[r] = paymentRequests[r]
  BY <1>1 DEF MerchantOK, MerchantTypes, RequestsOK
<1>5. AllBilled' = AllBilled \cup {q}
  BY <1>2, <1>4 DEF AllBilled, Billed
<1>6. MerchantTypes'
  <2>1. IsFiniteSet(AllBilled')
    <3>1. IsFiniteSet(AllBilled)
      BY DEF MerchantOK, MerchantTypes
    <3> QED  BY <1>5, <3>1, FS_AddElement
  <2> QED  BY <1>1, <1>2, <1>3, <2>1 DEF MerchantOK, MerchantTypes
<1>7. RequestsOK' /\ MerchantsOK'
  <2>1. \A g \in Getter : getters[g] # MerchantPart!Requests!Out => getters[g].id \in Request \ {q}
    BY <1>4 DEF MerchantOK, MerchantTypes, RequestsOK, Reading
  <2>2. RequestsOK'
    BY <1>1, <1>2, <1>3, <1>4, <2>1 DEF MerchantOK, RequestsOK, Billed
  <2>3. MerchantsOK'
    BY <1>1, <1>2, <1>4 DEF MerchantOK, MerchantsOK, Billed
  <2> QED  BY <2>2, <2>3
<1>8. ASSUME NEW n \in Merchants
      PROVE  ByRequest(n)' = ByRequest(n) /\ ByPhone(n)' = ByPhone(n)
  <2>1. MerchantPart!Completed(n)' = MerchantPart!Completed(n)
    BY <1>2, <1>3, <1>4 DEF MerchantPart!Completed, Billed
  <2>2. \A r \in MerchantPart!Completed(n) : bill'[r] = bill[r]
    BY <1>4 DEF MerchantPart!Completed, Billed
  <2> QED  BY <1>1, <2>1, <2>2, SameRequests, SamePayments
<1>9. TotalsOK'
  BY <1>1, <1>8 DEF MerchantOK, TotalsOK
<1> QED  BY <1>6, <1>7, <1>9 DEF MerchantOK

\* A reader that wrote "expired" did not write over a payment.
LEMMA ExpiresKeeps ==
    ASSUME MerchantOK, NEW g \in Getter, MerchantPart!Requests!Expire(g),
           UNCHANGED <<now, TotalReceived, bill, mobilePayments>>
    PROVE  MerchantOK'
<1> DEFINE to == [getters[g] EXCEPT !.at = "encoding"]
<1>1. /\ getters' = [getters EXCEPT ![g] = to] /\ getters[g].at = "expiring"
      /\ paymentRequests' = [paymentRequests EXCEPT ![getters[g].id].status = "expired"]
  BY DEF MerchantPart!Requests!Expire, MerchantPart!Requests!Moves
<1>2. getters[g] \in Reading /\ getters[g] # MerchantPart!Requests!Out
  BY <1>1 DEF MerchantOK, MerchantTypes, MerchantPart!Requests!Out
<1>3. PICK q \in Request : q = getters[g].id
  BY <1>2 DEF Reading
<1>4. Billed(q) /\ paymentRequests[q].status # "paid"
  BY <1>1, <1>2, <1>3 DEF MerchantOK, RequestsOK
<1>5. to \in Reading /\ to.id = q /\ to.at = "encoding"
  BY <1>2, <1>3 DEF Reading
<1>6. paymentRequests' = [paymentRequests EXCEPT ![q].status = "expired"]
  BY <1>1, <1>3
<1>7. /\ paymentRequests' \in [Request -> {None} \cup MerchantPart!Requests!InvoiceRecord]
      /\ paymentRequests'[q] # None /\ paymentRequests'[q].status = "expired"
      /\ \A r \in Request \ {q} : paymentRequests'[r] = paymentRequests[r]
  BY <1>4, <1>6, RequestChanges
<1> HIDE DEF to
<1>8. /\ getters' \in [Getter -> {MerchantPart!Requests!Out} \cup Reading]
      /\ getters'[g] = to /\ \A h \in Getter \ {g} : getters'[h] = getters[h]
  BY <1>1, <1>5 DEF MerchantOK, MerchantTypes
<1>9. /\ \A r : Billed(r)' = Billed(r)
      /\ AllBilled' = AllBilled
  BY DEF AllBilled, Billed
<1>10. MerchantTypes' /\ MerchantsOK'
  BY <1>7, <1>8, <1>9 DEF MerchantOK, MerchantTypes, MerchantsOK
<1>11. RequestsOK'
  <2>1. \A r \in Request : Billed(r)' <=> paymentRequests'[r] # None
    BY <1>4, <1>7, <1>9 DEF MerchantOK, RequestsOK
  <2>2. ASSUME NEW h \in Getter, getters'[h] # MerchantPart!Requests!Out
        PROVE  /\ Billed(getters'[h].id)
               /\ getters'[h].at = "expiring" => paymentRequests'[getters'[h].id].status # "paid"
    <3>1. CASE h = g
      BY <1>4, <1>5, <1>8, <3>1
    <3>2. CASE h # g
      <4>1. /\ getters'[h] = getters[h] /\ getters[h] \in Reading
            /\ getters[h].id \in Request /\ Billed(getters[h].id)
            /\ getters[h].at = "expiring" => paymentRequests[getters[h].id].status # "paid"
        BY <1>8, <2>2, <3>2 DEF MerchantOK, MerchantTypes, RequestsOK, Reading
      <4> QED  BY <1>7, <4>1
    <3> QED  BY <3>1, <3>2
  <2> QED  BY <1>9, <2>1, <2>2 DEF RequestsOK
<1>12. ASSUME NEW n \in Merchants
       PROVE  ByRequest(n)' = ByRequest(n) /\ ByPhone(n)' = ByPhone(n)
  <2>1. MerchantPart!Completed(n)' = MerchantPart!Completed(n)
    BY <1>4, <1>7 DEF MerchantPart!Completed, Billed
  <2> QED  BY <2>1, SameRequests, SamePayments
<1>13. TotalsOK'
  BY <1>12 DEF MerchantOK, TotalsOK
<1> QED  BY <1>10, <1>11, <1>13 DEF MerchantOK

LEMMA GetPaymentRequestKeeps ==
    ASSUME MerchantOK, NEW g \in Getter, NEW q \in Request,
           MerchantPart!GetPaymentRequest(g, q)
    PROVE  MerchantOK'
<1>0. UNCHANGED <<now, TotalReceived, bill, mobilePayments>>
  BY DEF MerchantPart!GetPaymentRequest
<1>1. CASE MerchantPart!Requests!GetInvoice(g, q)
  <2> DEFINE to == [at |-> "locked", id |-> q]
  <2>1. /\ getters' = [getters EXCEPT ![g] = to] /\ paymentRequests[q] # None
        /\ UNCHANGED paymentRequests
    BY <1>1 DEF MerchantPart!Requests!GetInvoice
  <2>2. to \in Reading /\ to.id = q /\ to.at = "locked" /\ Billed(q)
    BY <2>1 DEF Reading, MerchantOK, RequestsOK
  <2> HIDE DEF to
  <2> QED  BY <1>0, <2>1, <2>2, ReaderKeeps
<1>2. CASE MerchantPart!Requests!Decide(g, now)
  <2> DEFINE i == getters[g].id
             at == IF now > paymentRequests[i].expires /\ paymentRequests[i].status = "pending"
                   THEN "expiring" ELSE "encoding"
             to == [getters[g] EXCEPT !.at = at]
  <2>1. /\ getters' = [getters EXCEPT ![g] = to] /\ getters[g].at = "locked"
        /\ UNCHANGED paymentRequests
    BY <1>2 DEF MerchantPart!Requests!Decide, MerchantPart!Requests!Moves
  <2>2. getters[g] \in Reading /\ Billed(i)
    BY <2>1 DEF MerchantOK, MerchantTypes, RequestsOK, MerchantPart!Requests!Out
  <2>3. to \in Reading /\ to.id = i
        /\ (to.at = "expiring" => paymentRequests[i].status # "paid")
    BY <2>2 DEF Reading
  <2> HIDE DEF to, i
  <2> QED  BY <1>0, <2>1, <2>2, <2>3, ReaderKeeps
<1>3. CASE MerchantPart!Requests!Expire(g)
  BY <1>0, <1>3, ExpiresKeeps
<1>4. CASE MerchantPart!Requests!Encode(g)
  BY <1>0, <1>4, ReaderKeeps DEF MerchantPart!Requests!Encode
<1> QED
  BY <1>1, <1>2, <1>3, <1>4 DEF MerchantPart!GetPaymentRequest, MerchantPart!Requests!Read

\* A request that is completed was not, and its amount is added once.
LEMMA CompletePaymentRequestKeeps ==
    ASSUME MerchantOK, NEW q \in Request, MerchantPart!CompletePaymentRequest(q)
    PROVE  MerchantOK'
<1>1. /\ \A g \in Getter : getters[g].at # "expiring"
      /\ paymentRequests[q] # None /\ paymentRequests[q].status = "pending"
      /\ paymentRequests' = [paymentRequests EXCEPT ![q].status = "paid"]
      /\ TotalReceived' = [TotalReceived EXCEPT ![bill[q].merchant] = @ + bill[q].amount]
      /\ UNCHANGED <<now, getters, bill, mobilePayments>>
  BY DEF MerchantPart!CompletePaymentRequest, MerchantPart!Requests!MarkPaid,
    MerchantPart!Requests!ReadLocked, MerchantPart!Requests!Pending
<1>2. PICK m \in Merchants, a \in Nat :
        Billed(q) /\ bill[q] \in Bill /\ m = bill[q].merchant /\ a = bill[q].amount
  <2>1. Billed(q) /\ bill[q] \in Bill
    BY <1>1 DEF MerchantOK, MerchantTypes, RequestsOK, Billed
  <2> QED  BY <2>1 DEF Bill
<1> DEFINE C == MerchantPart!Completed(m)
<1>3. TotalReceived[m] # None /\ TotalReceived[m] \in Int
  BY <1>2 DEF MerchantOK, MerchantTypes, MerchantsOK
<1>4. /\ paymentRequests' \in [Request -> {None} \cup MerchantPart!Requests!InvoiceRecord]
      /\ paymentRequests'[q] # None /\ paymentRequests'[q].status = "paid"
      /\ \A r \in Request \ {q} : paymentRequests'[r] = paymentRequests[r]
  BY <1>1, <1>2, RequestChanges
<1>5. /\ TotalReceived' \in [Merchants -> {None} \cup Int]
      /\ TotalReceived'[m] = TotalReceived[m] + a /\ TotalReceived'[m] # None
      /\ \A n \in Merchants \ {m} : TotalReceived'[n] = TotalReceived[n]
  <2>1. TotalReceived[m] + a \in Int
    BY <1>2, <1>3
  <2> QED  BY <1>1, <1>2, <2>1 DEF MerchantOK, MerchantTypes
<1>6. /\ \A r : Billed(r)' = Billed(r)
      /\ AllBilled' = AllBilled
  BY <1>1 DEF AllBilled, Billed
<1>7. MerchantTypes'
  BY <1>1, <1>4, <1>5, <1>6 DEF MerchantOK, MerchantTypes
<1>8. RequestsOK'
  BY <1>1, <1>2, <1>4, <1>6 DEF MerchantOK, RequestsOK
<1>9. MerchantsOK'
  <2>1. \A r \in Request : Billed(r) => bill[r].merchant \in Merchants
    BY DEF MerchantOK, MerchantTypes, Billed, Bill
  <2> QED  BY <1>1, <1>2, <1>3, <1>5, <1>6, <2>1 DEF MerchantOK, MerchantsOK
<1>10. ASSUME NEW n \in Merchants \ {m} PROVE ByRequest(n)' = ByRequest(n)
  <2>1. MerchantPart!Completed(n)' = MerchantPart!Completed(n)
    BY <1>1, <1>2, <1>4, <1>10 DEF MerchantPart!Completed
  <2> QED  BY <1>1, <2>1, SameRequests
<1>11. ByRequest(m)' = ByRequest(m) + a
  <2>1. C' = C \cup {q} /\ q \notin C
    BY <1>1, <1>2, <1>4 DEF MerchantPart!Completed, Billed
  <2> DEFINE f == AmountOf(m)
             g == [r \in C \cup {q} |-> bill[r].amount]
  <2>2. ByRequest(m)' = Total(g, C \cup {q})
    BY <1>1, <2>1 DEF ByRequest, AmountOf
  <2>3. /\ IsFiniteSet(C) /\ \A r \in C : f[r] = g[r] /\ g[r] \in Int
        /\ g[q] = a /\ \A r \in C \cup {q} : g[r] \in Int
    <3>1. MerchantTypes
      BY DEF MerchantOK
    <3>2. \A r \in C : f[r] = bill[r].amount /\ bill[r].amount \in Nat
      BY <1>2, <3>1, SumsAreInt
    <3> QED  BY <1>2, <3>1, <3>2, SumsAreInt
  <2> HIDE DEF C, f, g
  <2>4. Total(g, C \cup {q}) = Total(g, C) + g[q] /\ Total(g, C) = Total(f, C)
    BY <2>1, <2>3, TotalAdd, TotalSame
  <2>5. ByRequest(m) = Total(f, C)
    BY DEF ByRequest, C, f
  <2> QED  BY <2>2, <2>3, <2>4, <2>5
<1>12. \A n \in Merchants : ByPhone(n)' = ByPhone(n)
  BY <1>1, SamePayments
<1>13. TotalsOK'
  <2>1. /\ TotalReceived[m] = ByRequest(m) + ByPhone(m)
        /\ ByRequest(m) \in Int /\ ByPhone(m) \in Int
    BY <1>2, <1>3, SumsAreInt DEF MerchantOK, TotalsOK
  <2>2. TotalReceived'[m] = ByRequest(m)' + ByPhone(m)'
    BY <1>2, <1>3, <1>5, <1>11, <1>12, <2>1
  <2> QED  BY <1>5, <1>10, <1>12, <2>2 DEF MerchantOK, TotalsOK
<1> QED  BY <1>7, <1>8, <1>9, <1>13 DEF MerchantOK

LEMMA ProcessMobileMoneyPaymentKeeps ==
    ASSUME MerchantOK, NEW m \in Merchants, NEW a \in Amounts,
           MerchantPart!ProcessMobileMoneyPayment(m, a)
    PROVE  MerchantOK'
<1> DEFINE s == mobilePayments[m]
           t == Append(s, a)
<1>1. /\ TotalReceived[m] # None
      /\ mobilePayments' = [mobilePayments EXCEPT ![m] = t]
      /\ TotalReceived' = [TotalReceived EXCEPT ![m] = @ + a]
      /\ UNCHANGED <<now, paymentRequests, getters, bill>>
  BY DEF MerchantPart!ProcessMobileMoneyPayment, MerchantPart!expiry
<1>2. s \in Seq(Nat) /\ a \in Nat /\ t \in Seq(Nat) /\ TotalReceived[m] \in Int
  <2>1. s \in Seq(Nat) /\ TotalReceived[m] \in Int
    BY <1>1 DEF MerchantOK, MerchantTypes
  <2>2. a \in Nat
    OBVIOUS
  <2> HIDE DEF s
  <2>3. t \in Seq(Nat)
    BY <2>1, <2>2, AppendProperties
  <2> QED  BY <2>1, <2>2, <2>3
<1>3. /\ TotalReceived' \in [Merchants -> {None} \cup Int]
      /\ TotalReceived'[m] = TotalReceived[m] + a /\ TotalReceived'[m] # None
      /\ \A n \in Merchants \ {m} : TotalReceived'[n] = TotalReceived[n]
  <2>1. TotalReceived[m] + a \in Int
    BY <1>2
  <2> QED  BY <1>1, <2>1 DEF MerchantOK, MerchantTypes
<1>4. /\ mobilePayments' \in [Merchants -> Seq(Nat)] /\ mobilePayments'[m] = t
      /\ \A n \in Merchants \ {m} : mobilePayments'[n] = mobilePayments[n]
  <2> HIDE DEF t
  <2> QED  BY <1>1, <1>2 DEF MerchantOK, MerchantTypes
<1>5. /\ \A r : Billed(r)' = Billed(r)
      /\ AllBilled' = AllBilled
      /\ \A n : MerchantPart!Completed(n)' = MerchantPart!Completed(n)
  BY <1>1 DEF AllBilled, Billed, MerchantPart!Completed
<1> HIDE DEF s, t
<1>6. MerchantTypes'
  BY <1>1, <1>3, <1>4, <1>5 DEF MerchantOK, MerchantTypes
<1>7. RequestsOK'
  BY <1>1, <1>5 DEF MerchantOK, RequestsOK
<1>8. MerchantsOK'
  <2>1. \A r \in Request : Billed(r) => bill[r].merchant \in Merchants
    BY DEF MerchantOK, MerchantTypes, Billed, Bill
  <2> QED  BY <1>1, <1>3, <1>4, <1>5, <2>1 DEF MerchantOK, MerchantsOK
<1>9. \A n \in Merchants : ByRequest(n)' = ByRequest(n)
  BY <1>1, <1>5, SameRequests
<1>10. \A n \in Merchants \ {m} : ByPhone(n)' = ByPhone(n)
  BY <1>4, SamePayments
<1>11. ByPhone(m)' = ByPhone(m) + a
  <2> DEFINE n == Len(s)
             D == 1 .. n
  <2>1. /\ n \in Nat /\ DOMAIN s = D /\ DOMAIN t = D \cup {n + 1}
        /\ \A i \in D : t[i] = s[i] /\ s[i] \in Int
        /\ t[n + 1] = a
    BY <1>2 DEF t
  <2>2. IsFiniteSet(D) /\ n + 1 \notin D /\ \A i \in D \cup {n + 1} : t[i] \in Int
    <3>1. \A i \in D \cup {n + 1} : t[i] \in Int
      <4> HIDE DEF D, n
      <4> QED  BY <1>2, <2>1
    <3> QED  BY <2>1, <3>1, FS_Interval
  <2>3. ByPhone(m) = Total(s, D) /\ ByPhone(m)' = Total(t, D \cup {n + 1})
    BY <1>4, <2>1 DEF ByPhone, s
  <2> HIDE DEF D, n
  <2>4. Total(t, D \cup {n + 1}) = Total(t, D) + t[n + 1] /\ Total(t, D) = Total(s, D)
    BY <2>1, <2>2, TotalAdd, TotalSame
  <2> QED  BY <2>1, <2>3, <2>4
<1>12. TotalsOK'
  <2>1. /\ TotalReceived[m] = ByRequest(m) + ByPhone(m)
        /\ ByRequest(m) \in Int /\ ByPhone(m) \in Int
    BY <1>1, SumsAreInt DEF MerchantOK, TotalsOK
  <2>2. TotalReceived'[m] = ByRequest(m)' + ByPhone(m)'
    BY <1>2, <1>3, <1>9, <1>11, <2>1
  <2> QED  BY <1>3, <1>9, <1>10, <2>2 DEF MerchantOK, TotalsOK
<1> QED  BY <1>6, <1>7, <1>8, <1>12 DEF MerchantOK

\* The clock is nobody's money either.
LEMMA MerchantTicks ==
    ASSUME MerchantOK, now' \in Int,
           UNCHANGED <<TotalReceived, paymentRequests, getters, bill, mobilePayments>>
    PROVE  MerchantOK'
<1>1. /\ \A q : Billed(q)' = Billed(q)
      /\ AllBilled' = AllBilled
      /\ \A m : MerchantPart!Completed(m)' = MerchantPart!Completed(m)
  BY DEF AllBilled, Billed, MerchantPart!Completed
<1>2. \A m \in Merchants : ByRequest(m)' = ByRequest(m) /\ ByPhone(m)' = ByPhone(m)
  BY <1>1, SameRequests, SamePayments
<1> QED
  BY <1>1, <1>2 DEF MerchantOK, MerchantTypes, RequestsOK, MerchantsOK, TotalsOK

LEMMA MerchantIdle == MerchantOK /\ UNCHANGED merchant => MerchantOK'
BY MerchantTicks DEF merchant, MerchantOK, MerchantTypes

LEMMA MerchantInit == MerchantPart!Init => MerchantOK
<1> SUFFICES ASSUME MerchantPart!Init PROVE MerchantOK
  OBVIOUS
<1>1. /\ now = 0 /\ TotalReceived = [m \in Merchants |-> None]
      /\ bill = [q \in Request |-> None] /\ paymentRequests = [q \in Request |-> None]
      /\ getters = [g \in Getter |-> MerchantPart!Requests!Out]
      /\ mobilePayments = [m \in Merchants |-> <<>>]
  BY DEF MerchantPart!Init, MerchantPart!Requests!Init
<1>2. \A q \in Request : ~Billed(q)
  BY <1>1 DEF Billed
<1>3. AllBilled = {} /\ IsFiniteSet(AllBilled)
  BY <1>2, FS_EmptySet DEF AllBilled
<1> QED
  BY <1>1, <1>2, <1>3 DEF MerchantOK, MerchantTypes, RequestsOK, MerchantsOK, TotalsOK

LEMMA MerchantKeeps == MerchantOK /\ MerchantPart!Next => MerchantOK'
<1> SUFFICES ASSUME MerchantOK, MerchantPart!Next PROVE MerchantOK'
  OBVIOUS
<1>1. CASE MerchantPart!Tick
  BY <1>1, MerchantTicks DEF MerchantPart!Tick, MerchantPart!expiry, MerchantOK, MerchantTypes
<1> QED
  BY <1>1, RegisterMerchantKeeps, CreatePaymentRequestKeeps, GetPaymentRequestKeeps,
    CompletePaymentRequestKeeps, ProcessMobileMoneyPaymentKeeps DEF MerchantPart!Next

\* The property's sums, of the merchant's module, are the same.
LEMMA SumsAgree == \A f : MerchantPart!SumFunction(f) = Total(f, DOMAIN f)
<1> SUFFICES ASSUME NEW f
             PROVE  MerchantPart!SumFunction(f) = Total(f, DOMAIN f)
  OBVIOUS
<1>1. MerchantPart!SumFunction(f)
        = (CHOOSE g : Folds(f, SUBSET (DOMAIN f), g))[DOMAIN f]
  BY DEF MerchantPart!SumFunction, MerchantPart!SumFunctionOnSet,
    MerchantPart!FoldFunctionOnSet, MerchantPart!MapThenFoldSet, Folds, Pick
<1> QED  BY <1>1, TotalIsFold

LEMMA MerchantAgrees == MerchantOK => TotalsAgree
<1> SUFFICES ASSUME MerchantOK, NEW m \in Merchants, TotalReceived[m] # None
             PROVE  TotalReceived[m] =
                      MerchantPart!SumFunction(AmountOf(m))
                        + MerchantPart!SumFunction(mobilePayments[m])
  BY DEF TotalsAgree, MerchantPart!TotalsAgree, AmountOf
<1>1. DOMAIN AmountOf(m) = MerchantPart!Completed(m)
  BY DEF AmountOf
<1> QED  BY <1>1, SumsAgree DEF MerchantOK, TotalsOK, ByRequest, ByPhone

-----------------------------------------------------------------------------
(* The locks of wallet/.                                                   *)
(* A method is a sequence of steps; its callers hold a lock between its    *)
(* first steps and its last.  What is left of it says which lock that is,  *)
(* so the invariant relates the two for every thread.                      *)

USE LocksAssumption

LockStep == {"lock", "drain", "unlock", "rlock", "runlock"}
Steps ==
    {s \in [does : LocksPart!Writing \cup LockStep \cup {"reads", "peeks"},
            object : LocksPart!Object, on : Name \cup {""}] :
        s.does \in {"maintain", "restore", "check"} => s.object = "dashboard"}

\* What is left of a method whose caller holds the write lock: it writes until
\* it gives the lock back, and ends, or until it asks for a lock again.
SectionTo(s, n) ==
    /\ \A i \in 1 .. n - 1 : s[i].does \in LocksPart!Writing
    /\ \/ s[n].does = "lock"
       \/ s[n].does = "rlock" /\ n < Len(s)
       \/ s[n].does = "unlock" /\ n = Len(s)
Section(s, o) ==
    /\ \A i \in 1 .. Len(s) : s[i].object = o
    /\ \E n \in 1 .. Len(s) : SectionTo(s, n)

\* How many read locks the caller has before each step, and in the end.
LockLevel(name, d, e) ==
    \/ name = "rlock" /\ e = d + 1
    \/ name = "reads" /\ e = d
    \/ name = "runlock" /\ e = d - 1
Levels(s, f) ==
    /\ f \in [1 .. Len(s) + 1 -> Nat] /\ f[Len(s) + 1] = 0
    /\ \A i \in 1 .. Len(s) : f[i] > 0 /\ LockLevel(s[i].does, f[i], f[i + 1])
ReadsLeft(s, o, d) ==
    /\ \A i \in 1 .. Len(s) : s[i].object = o
    /\ \E f : Levels(s, f) /\ f[1] = d

\* Where a method can start.
StartsWriting(m, o) ==
    /\ Len(m) > 2 /\ m[1].does = "lock" /\ m[2].does = "drain"
    /\ Section(Tail(Tail(m)), o)
StartsReading(m, o) ==
    /\ Len(m) > 1 /\ m[1].does = "rlock" /\ ReadsLeft(Tail(m), o, 1)
StartsPeeking(m) == Len(m) = 1 /\ m[1].does = "peeks"
Starts(m, o) ==
    /\ m \in Seq(Steps)
    /\ \A i \in 1 .. Len(m) : m[i].object = o
    /\ StartsWriting(m, o) \/ StartsReading(m, o) \/ StartsPeeking(m)

-----------------------------------------------------------------------------
LEMMA StepIs ==
    ASSUME NEW n \in LocksPart!Writing \cup LockStep \cup {"reads", "peeks"},
           NEW o \in LocksPart!Object,
           n \notin {"maintain", "restore"}, n = "check" => o = "dashboard"
    PROVE  /\ LocksPart!Step(n, o) \in Steps /\ LocksPart!Step(n, o).does = n
           /\ LocksPart!Step(n, o).object = o
           /\ <<LocksPart!Step(n, o)>> \in Seq(Steps) /\ Len(<<LocksPart!Step(n, o)>>) = 1
           /\ <<LocksPart!Step(n, o)>>[1] = LocksPart!Step(n, o)
<1>1. /\ LocksPart!Step(n, o) \in Steps /\ LocksPart!Step(n, o).does = n
      /\ LocksPart!Step(n, o).object = o
  BY DEF LocksPart!Step, Steps
<1> QED  BY <1>1

LEMMA StepOnIs ==
    ASSUME NEW n \in LocksPart!Writing, NEW o \in LocksPart!Object, NEW c \in Name,
           n \in {"maintain", "restore", "check"} => o = "dashboard"
    PROVE  /\ LocksPart!StepOn(n, o, c) \in Steps /\ LocksPart!StepOn(n, o, c).does = n
           /\ LocksPart!StepOn(n, o, c).object = o
BY DEF LocksPart!StepOn, Steps

\* Two sequences in a row.
InARow(a, b, c) ==
    /\ c \in Seq(Steps) /\ Len(c) = Len(a) + Len(b)
    /\ \A i \in 1 .. Len(a) : c[i] = a[i]
    /\ \A i \in 1 .. Len(b) : c[i + Len(a)] = b[i]

LEMMA ConcatIs ==
    \A a, b \in Seq(Steps) : InARow(a, b, a \o b)
<1> SUFFICES ASSUME NEW a \in Seq(Steps), NEW b \in Seq(Steps)
             PROVE  InARow(a, b, a \o b)
  OBVIOUS
<1>1. /\ a \o b \in Seq(Steps) /\ Len(a \o b) = Len(a) + Len(b)
      /\ \A i \in 1 .. Len(a) + Len(b) :
           (a \o b)[i] = IF i <= Len(a) THEN a[i] ELSE b[i - Len(a)]
  BY ConcatProperties
<1>2. Len(a) \in Nat /\ Len(b) \in Nat
  OBVIOUS
<1> DEFINE c == a \o b
<1> HIDE DEF c
<1>3. \A i \in 1 .. Len(a) : c[i] = a[i]
  BY <1>1, <1>2 DEF c
<1>4. \A i \in 1 .. Len(b) : c[i + Len(a)] = b[i]
  <2> SUFFICES ASSUME NEW i \in 1 .. Len(b) PROVE c[i + Len(a)] = b[i]
    OBVIOUS
  <2>1. /\ i + Len(a) \in 1 .. Len(a) + Len(b) /\ ~(i + Len(a) <= Len(a))
        /\ (i + Len(a)) - Len(a) = i
    BY <1>2
  <2>2. c[i + Len(a)] = b[(i + Len(a)) - Len(a)]
    BY <1>1, <2>1 DEF c
  <2> QED  BY <2>1, <2>2
<1> QED  BY <1>1, <1>3, <1>4 DEF c, InARow

\* A body between the locks.
IsLocked(m, o, b) ==
    /\ m \in Seq(Steps) /\ Len(m) = Len(b) + 3
    /\ m[1].does = "lock" /\ m[2].does = "drain" /\ m[Len(b) + 3].does = "unlock"
    /\ \A i \in 1 .. Len(b) : m[i + 2] = b[i]
    /\ \A i \in 1 .. Len(b) + 3 : m[i].object = o
IsReading(m, o, b) ==
    /\ m \in Seq(Steps) /\ Len(m) = Len(b) + 2
    /\ m[1].does = "rlock" /\ m[Len(b) + 2].does = "runlock"
    /\ \A i \in 1 .. Len(b) : m[i + 1] = b[i]
    /\ \A i \in 1 .. Len(b) + 2 : m[i].object = o
Body(o) == {b \in Seq(Steps) : \A i \in 1 .. Len(b) : b[i].object = o}

LEMMA OneIsBody ==
    ASSUME NEW o, NEW b \in Seq(Steps), Len(b) = 1, b[1].object = o
    PROVE  b \in Body(o)
<1>1. \A i \in 1 .. Len(b) : b[i].object = o
  OBVIOUS
<1> QED  BY <1>1 DEF Body

LEMMA LockedIs ==
    ASSUME NEW o \in LocksPart!Object, NEW b \in Body(o)
    PROVE  IsLocked(LocksPart!Locked(o, b), o, b)
<1>0. b \in Seq(Steps) /\ \A i \in 1 .. Len(b) : b[i].object = o
  BY DEF Body
<1> DEFINE lo == LocksPart!Step("lock", o)
           dr == LocksPart!Step("drain", o)
           un == LocksPart!Step("unlock", o)
           a == <<lo, dr>>
           z == <<un>>
<1>1. /\ lo \in Steps /\ dr \in Steps /\ un \in Steps
      /\ lo.does = "lock" /\ dr.does = "drain" /\ un.does = "unlock"
      /\ lo.object = o /\ dr.object = o /\ un.object = o
  BY StepIs DEF LockStep
<1> HIDE DEF lo, dr, un
<1>2. /\ a \in Seq(Steps) /\ Len(a) = 2 /\ a[1] = lo /\ a[2] = dr
      /\ z \in Seq(Steps) /\ Len(z) = 1 /\ z[1] = un
  BY <1>1
<1> HIDE DEF a, z
<1> DEFINE ab == a \o b
<1>3. /\ ab \in Seq(Steps) /\ Len(ab) = Len(b) + 2 /\ ab[1] = lo /\ ab[2] = dr
      /\ \A i \in 1 .. Len(b) : ab[i + 2] = b[i]
  <2>1. InARow(a, b, ab)
    BY <1>0, <1>2, ConcatIs
  <2> HIDE DEF ab
  <2>2. Len(b) \in Nat
    BY <1>0
  <2> QED  BY <1>0, <1>2, <2>1, <2>2 DEF InARow
<1> HIDE DEF ab
<1> DEFINE m == ab \o z
<1>4. /\ m \in Seq(Steps) /\ Len(m) = Len(b) + 3 /\ m[1] = lo /\ m[2] = dr
      /\ \A i \in 1 .. Len(b) : m[i + 2] = b[i]
      /\ m[Len(b) + 3] = un
  <2> DEFINE k == Len(b) + 2
  <2>1. Len(b) \in Nat /\ k \in Nat
    BY <1>0
  <2>2. InARow(ab, z, m)
    BY <1>2, <1>3, ConcatIs
  <2> HIDE DEF m
  <2>4. /\ m \in Seq(Steps) /\ Len(m) = k + 1
        /\ \A i \in 1 .. k : m[i] = ab[i]
        /\ m[1 + k] = z[1]
    BY <1>2, <1>3, <2>1, <2>2 DEF InARow
  <2>3. \A i \in 1 .. Len(b) : m[i + 2] = b[i]
    BY <1>3, <2>1, <2>4
  <2> QED  BY <1>2, <1>3, <2>1, <2>3, <2>4
<1>5. LocksPart!Locked(o, b) = m
  BY DEF LocksPart!Locked, m, ab, a, z, lo, dr, un
<1> HIDE DEF m
<1>6. \A i \in 1 .. Len(b) + 3 : m[i].object = o
  <2> SUFFICES ASSUME NEW i \in 1 .. Len(b) + 3 PROVE m[i].object = o
    OBVIOUS
  <2>0. Len(b) \in Nat
    BY <1>0
  <2>1. i \in {1, 2, Len(b) + 3} \/ (i - 2 \in 1 .. Len(b) /\ m[(i - 2) + 2] = b[i - 2])
    BY <1>4, <2>0
  <2> QED  BY <1>0, <1>1, <1>4, <2>1
<1> QED  BY <1>1, <1>4, <1>5, <1>6 DEF IsLocked

LEMMA ReadingIs ==
    ASSUME NEW o \in LocksPart!Object, NEW b \in Body(o)
    PROVE  IsReading(LocksPart!Reading(o, b), o, b)
<1>0. b \in Seq(Steps) /\ \A i \in 1 .. Len(b) : b[i].object = o
  BY DEF Body
<1> DEFINE rl == LocksPart!Step("rlock", o)
           ru == LocksPart!Step("runlock", o)
           a == <<rl>>
           z == <<ru>>
<1>1. /\ rl \in Steps /\ ru \in Steps /\ rl.does = "rlock" /\ ru.does = "runlock"
      /\ rl.object = o /\ ru.object = o
  BY StepIs DEF LockStep
<1> HIDE DEF rl, ru
<1>2. /\ a \in Seq(Steps) /\ Len(a) = 1 /\ a[1] = rl
      /\ z \in Seq(Steps) /\ Len(z) = 1 /\ z[1] = ru
  BY <1>1
<1> HIDE DEF a, z
<1> DEFINE ab == a \o b
<1>3. /\ ab \in Seq(Steps) /\ Len(ab) = Len(b) + 1 /\ ab[1] = rl
      /\ \A i \in 1 .. Len(b) : ab[i + 1] = b[i]
  <2>1. InARow(a, b, ab)
    BY <1>0, <1>2, ConcatIs
  <2> HIDE DEF ab
  <2>2. Len(b) \in Nat
    BY <1>0
  <2> QED  BY <1>0, <1>2, <2>1, <2>2 DEF InARow
<1> HIDE DEF ab
<1> DEFINE m == ab \o z
<1>4. /\ m \in Seq(Steps) /\ Len(m) = Len(b) + 2 /\ m[1] = rl
      /\ \A i \in 1 .. Len(b) : m[i + 1] = b[i]
      /\ m[Len(b) + 2] = ru
  <2> DEFINE k == Len(b) + 1
  <2>1. Len(b) \in Nat /\ k \in Nat
    BY <1>0
  <2>2. InARow(ab, z, m)
    BY <1>2, <1>3, ConcatIs
  <2> HIDE DEF m
  <2>4. /\ m \in Seq(Steps) /\ Len(m) = k + 1
        /\ \A i \in 1 .. k : m[i] = ab[i]
        /\ m[1 + k] = z[1]
    BY <1>2, <1>3, <2>1, <2>2 DEF InARow
  <2>3. \A i \in 1 .. Len(b) : m[i + 1] = b[i]
    BY <1>3, <2>1, <2>4
  <2> QED  BY <1>2, <1>3, <2>1, <2>3, <2>4
<1>5. LocksPart!Reading(o, b) = m
  BY DEF LocksPart!Reading, m, ab, a, z, rl, ru
<1> HIDE DEF m
<1>6. \A i \in 1 .. Len(b) + 2 : m[i].object = o
  <2> SUFFICES ASSUME NEW i \in 1 .. Len(b) + 2 PROVE m[i].object = o
    OBVIOUS
  <2>0. Len(b) \in Nat
    BY <1>0
  <2>1. i \in {1, Len(b) + 2} \/ (i - 1 \in 1 .. Len(b) /\ m[(i - 1) + 1] = b[i - 1])
    BY <1>4, <2>0
  <2> QED  BY <1>0, <1>1, <1>4, <2>1
<1> QED  BY <1>1, <1>4, <1>5, <1>6 DEF IsReading

\* A body that is a section, or comes to the lock, makes a method.
LEMMA LockedStarts ==
    ASSUME NEW o \in LocksPart!Object, NEW b \in Body(o),
           NEW n \in 1 .. Len(b) + 1, \A i \in 1 .. n - 1 : b[i].does \in LocksPart!Writing,
           n <= Len(b) => b[n].does \in {"lock", "rlock"}
    PROVE  Starts(LocksPart!Locked(o, b), o)
<1> DEFINE m == LocksPart!Locked(o, b)
           s == Tail(Tail(m))
<1>1. /\ m \in Seq(Steps) /\ Len(m) = Len(b) + 3 /\ Len(b) \in Nat
      /\ m[1].does = "lock" /\ m[2].does = "drain"
      /\ \A i \in 1 .. Len(b) : m[i + 2] = b[i]
      /\ m[Len(b) + 3].does = "unlock"
      /\ \A i \in 1 .. Len(b) + 3 : m[i].object = o
  BY LockedIs DEF IsLocked, Body
<1> HIDE DEF m
<1>2. /\ s \in Seq(Steps) /\ Len(s) = Len(b) + 1
      /\ \A i \in 1 .. Len(s) : s[i] = m[i + 2]
  <2>1. m # <<>>
    BY <1>1
  <2>2. /\ Tail(m) \in Seq(Steps) /\ Len(Tail(m)) = Len(b) + 2
        /\ \A i \in 1 .. Len(b) + 2 : Tail(m)[i] = m[i + 1]
    BY <1>1, <2>1, HeadTailProperties
  <2>3. Tail(m) # <<>>
    BY <1>1, <2>2
  <2>4. /\ s \in Seq(Steps) /\ Len(s) = Len(b) + 1
        /\ \A i \in 1 .. Len(b) + 1 : s[i] = Tail(m)[i + 1]
    BY <1>1, <2>2, <2>3, HeadTailProperties
  <2> HIDE DEF s
  <2> QED  BY <1>1, <2>2, <2>4
<1> HIDE DEF s
<1>3. SectionTo(s, n)
  <2>1. \A i \in 1 .. Len(b) : s[i] = b[i]
    BY <1>1, <1>2
  <2>2. s[Len(b) + 1].does = "unlock"
    BY <1>1, <1>2
  <2>3. \A i \in 1 .. n - 1 : s[i] = b[i]
    BY <1>1, <2>1
  <2>4. CASE n <= Len(b)
    <3>1. s[n] = b[n] /\ \A i \in 1 .. n - 1 : s[i].does \in LocksPart!Writing
      BY <1>1, <2>1, <2>3, <2>4
    <3>3. n < Len(s)
      BY <1>1, <1>2, <2>4
    <3> QED  BY <2>4, <3>1, <3>3 DEF SectionTo
  <2>5. CASE n = Len(b) + 1
    BY <1>2, <2>2, <2>3, <2>5 DEF SectionTo
  <2> QED  BY <1>1, <2>4, <2>5
<1>4. Section(s, o)
  BY <1>1, <1>2, <1>3 DEF Section
<1> QED  BY <1>1, <1>4 DEF Starts, StartsWriting, m, s

LEMMA ReadingStarts ==
    ASSUME NEW o \in LocksPart!Object, NEW b \in Body(o),
           NEW f \in [1 .. Len(b) + 2 -> Nat], f[1] = 1, f[Len(b) + 1] = 1, f[Len(b) + 2] = 0,
           \A i \in 1 .. Len(b) : f[i] > 0 /\ LockLevel(b[i].does, f[i], f[i + 1])
    PROVE  Starts(LocksPart!Reading(o, b), o)
<1> DEFINE m == LocksPart!Reading(o, b)
           s == Tail(m)
<1>1. /\ m \in Seq(Steps) /\ Len(m) = Len(b) + 2 /\ Len(b) \in Nat
      /\ m[1].does = "rlock"
      /\ \A i \in 1 .. Len(b) : m[i + 1] = b[i]
      /\ m[Len(b) + 2].does = "runlock"
      /\ \A i \in 1 .. Len(b) + 2 : m[i].object = o
  BY ReadingIs DEF IsReading, Body
<1> HIDE DEF m
<1>2. /\ s \in Seq(Steps) /\ Len(s) = Len(b) + 1
      /\ \A i \in 1 .. Len(s) : s[i] = m[i + 1]
  <2>1. m # <<>>
    BY <1>1
  <2> QED  BY <1>1, <2>1, HeadTailProperties
<1> HIDE DEF s
<1>3. Levels(s, f)
  <2>1. \A i \in 1 .. Len(b) : s[i] = b[i]
    BY <1>1, <1>2
  <2>2. s[Len(b) + 1].does = "runlock"
    BY <1>1, <1>2
  <2>3. ASSUME NEW i \in 1 .. Len(s) PROVE f[i] > 0 /\ LockLevel(s[i].does, f[i], f[i + 1])
    <3>1. CASE i \in 1 .. Len(b)
      BY <2>1, <3>1
    <3>2. CASE i = Len(b) + 1
      <4>1. f[i] = 1 /\ f[i + 1] = 0
        BY <1>1, <3>2
      <4> QED  BY <2>2, <3>2, <4>1 DEF LockLevel
    <3> QED  BY <1>1, <1>2, <3>1, <3>2
  <2> QED  BY <1>1, <1>2, <2>3 DEF Levels
<1>4. ReadsLeft(s, o, 1)
  <2>1. \A i \in 1 .. Len(s) : s[i].object = o
    BY <1>1, <1>2
  <2>2. Levels(s, f) /\ f[1] = 1
    BY <1>3
  <2> QED  BY <2>1, <2>2, Zenon DEF ReadsLeft
<1> QED  BY <1>1, <1>4 DEF Starts, StartsReading, m, s

\* A body of one step.
LEMMA OneStep ==
    ASSUME NEW o \in LocksPart!Object, NEW x \in {"alert", "check", "writes"},
           x = "check" => o = "dashboard"
    PROVE  Starts(LocksPart!Locked(o, <<LocksPart!Step(x, o)>>), o)
<1> DEFINE b == <<LocksPart!Step(x, o)>>
<1>1. /\ b \in Seq(Steps) /\ Len(b) = 1 /\ b[1].does = x /\ b[1].object = o
      /\ x \in LocksPart!Writing
  BY StepIs DEF LocksPart!Writing
<1> HIDE DEF b
<1>2. \A i \in 1 .. Len(b) : b[i].object = o
  BY <1>1
<1>3. \A i \in 1 .. 1 : b[i].does \in LocksPart!Writing
  BY <1>1
<1>4. 2 \in 1 .. Len(b) + 1 /\ 2 - 1 = 1 /\ ~(2 <= Len(b))
  BY <1>1
<1>5. b \in Body(o)
  BY <1>1, <1>2 DEF Body
<1>6. \A i \in 1 .. 2 - 1 : b[i].does \in LocksPart!Writing
  BY <1>3
<1>7. Starts(LocksPart!Locked(o, b), o)
  BY <1>4, <1>5, <1>6, LockedStarts
<1> QED  BY <1>7 DEF b

LEMMA OneRead ==
    ASSUME NEW o \in LocksPart!Object
    PROVE  Starts(LocksPart!Reading(o, <<LocksPart!Step("reads", o)>>), o)
<1> DEFINE b == <<LocksPart!Step("reads", o)>>
           f == [i \in 1 .. 3 |-> IF i = 3 THEN 0 ELSE 1]
<1>1. b \in Seq(Steps) /\ Len(b) = 1 /\ b[1].does = "reads" /\ b[1].object = o
  BY StepIs
<1> HIDE DEF b
<1>2. /\ f \in [1 .. 3 -> Nat] /\ f[1] = 1 /\ f[2] = 1 /\ f[3] = 0
  OBVIOUS
<1> HIDE DEF f
<1>3. \A i \in 1 .. Len(b) : b[i].object = o /\ f[i] > 0 /\ LockLevel(b[i].does, f[i], f[i + 1])
  BY <1>1, <1>2 DEF LockLevel
<1>4. 3 = Len(b) + 2 /\ 2 = Len(b) + 1
  BY <1>1
<1> QED  BY <1>1, <1>2, <1>3, <1>4, ReadingStarts DEF b, Body

LEMMA PeekStarts ==
    ASSUME NEW o \in LocksPart!Object
    PROVE  Starts(LocksPart!ReadHandedOut(o), o)
<1> DEFINE b == <<LocksPart!Step("peeks", o)>>
<1>1. b \in Seq(Steps) /\ Len(b) = 1 /\ b[1].does = "peeks" /\ b[1].object = o
  BY StepIs
<1> HIDE DEF b
<1>2. \A i \in 1 .. Len(b) : b[i].object = o
  BY <1>1
<1> QED  BY <1>1, <1>2 DEF Starts, StartsPeeking, LocksPart!ReadHandedOut, b

LEMMA OnObjects ==
    /\ "dashboard" \in LocksPart!Object /\ "security" \in LocksPart!Object
    /\ "history" \in LocksPart!Object
BY DEF LocksPart!Object

\* The reading methods that call another.
LEMMA SummaryStarts == Starts(LocksPart!GetDashboardSummary, "dashboard")
<1> DEFINE o == "dashboard"
           rd == <<LocksPart!Step("reads", o)>>
           g == LocksPart!GetSystemStatus
           b == g \o rd
           f == [i \in 1 .. 6 |-> IF i = 6 THEN 0 ELSE IF i \in {2, 3} THEN 2 ELSE 1]
<1>1. rd \in Seq(Steps) /\ Len(rd) = 1 /\ rd[1].does = "reads" /\ rd[1].object = o
  BY StepIs, OnObjects
<1> HIDE DEF rd
<1>2. /\ g \in Seq(Steps) /\ Len(g) = 3 /\ g[1].does = "rlock" /\ g[2].does = "reads"
      /\ g[3].does = "runlock" /\ \A i \in 1 .. 3 : g[i].object = o
  <2>1. g = LocksPart!Reading(o, rd)
    BY DEF LocksPart!GetSystemStatus, rd
  <2>2. rd \in Body(o)
    BY <1>1, OneIsBody
  <2>3. IsReading(LocksPart!Reading(o, rd), o, rd)
    BY <2>2, ReadingIs, OnObjects
  <2> HIDE DEF g
  <2> QED  BY <1>1, <2>1, <2>3 DEF IsReading
<1> HIDE DEF g
<1>3. /\ b \in Seq(Steps) /\ Len(b) = 4 /\ b[1].does = "rlock" /\ b[2].does = "reads"
      /\ b[3].does = "runlock" /\ b[4].does = "reads"
      /\ \A i \in 1 .. 4 : b[i].object = o
  <2>1. InARow(g, rd, b)
    BY <1>1, <1>2, ConcatIs
  <2> HIDE DEF b
  <2>2. \A i \in 1 .. 3 : b[i] = g[i]
    BY <1>1, <1>2, <2>1 DEF InARow
  <2>3. b \in Seq(Steps) /\ Len(b) = 4 /\ b[4] = rd[1]
    BY <1>1, <1>2, <2>1 DEF InARow
  <2> QED  BY <1>1, <1>2, <2>2, <2>3
<1> HIDE DEF b
<1>4. /\ f \in [1 .. 6 -> Nat] /\ f[1] = 1 /\ f[2] = 2 /\ f[3] = 2 /\ f[4] = 1
      /\ f[5] = 1 /\ f[6] = 0
  OBVIOUS
<1> HIDE DEF f
<1>5. \A i \in 1 .. Len(b) : b[i].object = o /\ f[i] > 0 /\ LockLevel(b[i].does, f[i], f[i + 1])
  BY <1>3, <1>4 DEF LockLevel
<1>6. 6 = Len(b) + 2 /\ 5 = Len(b) + 1
  BY <1>3
<1>7. Starts(LocksPart!Reading(o, b), o)
  BY <1>3, <1>4, <1>5, <1>6, ReadingStarts, OnObjects DEF Body
<1> QED  BY <1>7 DEF LocksPart!GetDashboardSummary, b, g, rd

LEMMA FilterStarts == Starts(LocksPart!FilterTransactions, "history")
<1> DEFINE o == "history"
           rd == <<LocksPart!Step("reads", o)>>
           b == LocksPart!GetUserTransactions
           f == [i \in 1 .. 5 |-> IF i = 5 THEN 0 ELSE IF i \in {2, 3} THEN 2 ELSE 1]
<1>1. rd \in Seq(Steps) /\ Len(rd) = 1 /\ rd[1].does = "reads" /\ rd[1].object = o
  BY StepIs, OnObjects
<1> HIDE DEF rd
<1>2. /\ b \in Seq(Steps) /\ Len(b) = 3 /\ b[1].does = "rlock" /\ b[2].does = "reads"
      /\ b[3].does = "runlock" /\ \A i \in 1 .. 3 : b[i].object = o
  <2>1. b = LocksPart!Reading(o, rd)
    BY DEF LocksPart!GetUserTransactions, rd
  <2>2. rd \in Body(o)
    BY <1>1, OneIsBody
  <2>3. IsReading(LocksPart!Reading(o, rd), o, rd)
    BY <2>2, ReadingIs, OnObjects
  <2> HIDE DEF b
  <2> QED  BY <1>1, <2>1, <2>3 DEF IsReading
<1> HIDE DEF b
<1>3. /\ f \in [1 .. 5 -> Nat] /\ f[1] = 1 /\ f[2] = 2 /\ f[3] = 2 /\ f[4] = 1 /\ f[5] = 0
  OBVIOUS
<1> HIDE DEF f
<1>4. \A i \in 1 .. Len(b) : b[i].object = o /\ f[i] > 0 /\ LockLevel(b[i].does, f[i], f[i + 1])
  BY <1>2, <1>3 DEF LockLevel
<1>5. 5 = Len(b) + 2 /\ 4 = Len(b) + 1
  BY <1>2
<1>6. Starts(LocksPart!Reading(o, b), o)
  BY <1>2, <1>3, <1>4, <1>5, ReadingStarts, OnObjects DEF Body
<1> QED  BY <1>6 DEF LocksPart!FilterTransactions, b

\* The writing methods that call another.
LEMMA AddAlertIs ==
    /\ LocksPart!AddAlert \in Seq(Steps) /\ Len(LocksPart!AddAlert) = 4
    /\ LocksPart!AddAlert[1].does = "lock"
    /\ \A i \in 1 .. 4 : LocksPart!AddAlert[i].object = "dashboard"
<1> DEFINE o == "dashboard"
           x == <<LocksPart!Step("alert", o)>>
<1>1. x \in Seq(Steps) /\ Len(x) = 1 /\ x[1].object = o
  BY StepIs, OnObjects DEF LocksPart!Writing
<1>2. LocksPart!AddAlert = LocksPart!Locked(o, x)
  BY DEF LocksPart!AddAlert
<1> HIDE DEF x
<1>3. x \in Body(o)
  BY <1>1, OneIsBody
<1>4. IsLocked(LocksPart!Locked(o, x), o, x)
  BY <1>3, LockedIs, OnObjects
<1> QED  BY <1>1, <1>2, <1>4 DEF IsLocked

LEMMA ScheduleStarts ==
    ASSUME NEW c \in Name
    PROVE  Starts(LocksPart!ScheduleUpdate(c), "dashboard")
<1> DEFINE o == "dashboard"
           x == <<LocksPart!StepOn("enqueue", o, c)>>
           b == x \o LocksPart!AddAlert
<1>1. /\ x \in Seq(Steps) /\ Len(x) = 1 /\ x[1].does = "enqueue" /\ x[1].object = o
  <2>1. "enqueue" \in LocksPart!Writing
    BY DEF LocksPart!Writing
  <2>2. /\ LocksPart!StepOn("enqueue", o, c) \in Steps
        /\ LocksPart!StepOn("enqueue", o, c).does = "enqueue"
        /\ LocksPart!StepOn("enqueue", o, c).object = o
    BY <2>1, StepOnIs, OnObjects
  <2> QED  BY <2>2
<1> HIDE DEF x
<1>2. InARow(x, LocksPart!AddAlert, b)
  BY <1>1, AddAlertIs, ConcatIs
<1> HIDE DEF b
<1>3. /\ b \in Seq(Steps) /\ Len(b) = 5 /\ b[1] = x[1]
      /\ \A i \in 1 .. 4 : b[i + 1] = LocksPart!AddAlert[i]
  BY <1>1, <1>2, AddAlertIs DEF InARow
<1>4. \A i \in 1 .. Len(b) : b[i].object = o
  <2> SUFFICES ASSUME NEW i \in 1 .. 5 PROVE b[i].object = o
    BY <1>3
  <2>1. i = 1 \/ (i - 1 \in 1 .. 4 /\ b[(i - 1) + 1] = LocksPart!AddAlert[i - 1])
    BY <1>3
  <2> QED  BY <1>1, <1>3, <2>1, AddAlertIs
<1>5. /\ b[2].does = "lock" /\ 2 \in 1 .. Len(b) + 1 /\ 2 <= Len(b)
      /\ \A i \in 1 .. 2 - 1 : b[i].does \in LocksPart!Writing
  <2>1. b[2] = LocksPart!AddAlert[1]
    BY <1>3
  <2> QED  BY <1>1, <1>3, <2>1, AddAlertIs DEF LocksPart!Writing
<1>6. Starts(LocksPart!Locked(o, b), o)
  BY <1>3, <1>4, <1>5, LockedStarts, OnObjects DEF Body
<1> QED  BY <1>6 DEF LocksPart!ScheduleUpdate, b, x

LEMMA ExecuteStarts ==
    ASSUME NEW c \in Name
    PROVE  Starts(LocksPart!ExecuteUpdate(c), "dashboard")
<1> DEFINE o == "dashboard"
           x == <<LocksPart!StepOn("maintain", o, c), LocksPart!StepOn("dequeue", o, c)>>
           z == <<LocksPart!StepOn("restore", o, c)>>
           a == x \o LocksPart!AddAlert
           b == a \o z
<1>1. /\ x \in Seq(Steps) /\ Len(x) = 2 /\ x[1].does \in LocksPart!Writing
      /\ x[2].does \in LocksPart!Writing
      /\ x[1].object = o /\ x[2].object = o
      /\ z \in Seq(Steps) /\ Len(z) = 1 /\ z[1].object = o
  <2> DEFINE ma == LocksPart!StepOn("maintain", o, c)
             de == LocksPart!StepOn("dequeue", o, c)
             re == LocksPart!StepOn("restore", o, c)
  <2>1. /\ "maintain" \in LocksPart!Writing /\ "dequeue" \in LocksPart!Writing
        /\ "restore" \in LocksPart!Writing
    BY DEF LocksPart!Writing
  <2>2. /\ ma \in Steps /\ de \in Steps /\ re \in Steps
        /\ ma.does \in LocksPart!Writing /\ de.does \in LocksPart!Writing
        /\ ma.object = o /\ de.object = o /\ re.object = o
    BY <2>1, StepOnIs, OnObjects
  <2>3. x = <<ma, de>> /\ z = <<re>>
    OBVIOUS
  <2> HIDE DEF ma, de, re, x, z
  <2> QED  BY <2>2, <2>3
<1> HIDE DEF x, z
<1>2. InARow(x, LocksPart!AddAlert, a)
  BY <1>1, AddAlertIs, ConcatIs
<1> HIDE DEF a
<1>3. /\ a \in Seq(Steps) /\ Len(a) = 6 /\ a[1] = x[1] /\ a[2] = x[2]
      /\ \A i \in 1 .. 4 : a[i + 2] = LocksPart!AddAlert[i]
  BY <1>1, <1>2, AddAlertIs DEF InARow
<1>4. InARow(a, z, b)
  BY <1>1, <1>3, ConcatIs
<1> HIDE DEF b
<1>5. /\ b \in Seq(Steps) /\ Len(b) = 7 /\ b[7] = z[1]
      /\ \A i \in 1 .. 6 : b[i] = a[i]
  <2>1. b \in Seq(Steps) /\ Len(b) = 7 /\ \A i \in 1 .. 6 : b[i] = a[i]
    BY <1>1, <1>3, <1>4 DEF InARow
  <2>2. b[1 + 6] = z[1]
    BY <1>1, <1>3, <1>4 DEF InARow
  <2> QED  BY <2>1, <2>2
<1>6. \A i \in 1 .. Len(b) : b[i].object = o
  <2> SUFFICES ASSUME NEW i \in 1 .. 7 PROVE b[i].object = o
    BY <1>5
  <2>1. CASE i \in {1, 2, 7}
    BY <1>1, <1>3, <1>5, <2>1
  <2>2. CASE i - 2 \in 1 .. 4
    <3>1. b[i] = a[(i - 2) + 2]
      BY <1>5, <2>2
    <3> QED  BY <1>3, <2>2, <3>1, AddAlertIs
  <2> QED  BY <2>1, <2>2
<1>7. /\ b[3].does = "lock" /\ 3 \in 1 .. Len(b) + 1 /\ 3 <= Len(b)
      /\ \A i \in 1 .. 3 - 1 : b[i].does \in LocksPart!Writing
  <2>1. b[3] = a[1 + 2] /\ a[1 + 2] = LocksPart!AddAlert[1]
    BY <1>3, <1>5
  <2>2. b[3].does = "lock"
    BY <2>1, AddAlertIs
  <2>3. \A i \in 1 .. 2 : b[i].does \in LocksPart!Writing
    BY <1>1, <1>3, <1>5
  <2> QED  BY <1>5, <2>2, <2>3
<1>8. Starts(LocksPart!Locked(o, b), o)
  BY <1>5, <1>6, <1>7, LockedStarts, OnObjects DEF Body
<1>9. LocksPart!ExecuteUpdate(c) = LocksPart!Locked(o, b)
  BY DEF LocksPart!ExecuteUpdate, b, a, x, z
<1> QED  BY <1>8, <1>9

LEMMA BackupStarts == Starts(LocksPart!CreateBackup, "security")
<1> DEFINE o == "security"
           rd == <<LocksPart!Step("reads", o)>>
           wr == <<LocksPart!Step("writes", o)>>
           g == LocksPart!Encrypt
           b == g \o wr
<1>1. /\ rd \in Seq(Steps) /\ Len(rd) = 1 /\ rd[1].object = o
      /\ wr \in Seq(Steps) /\ Len(wr) = 1 /\ wr[1].object = o
  BY StepIs, OnObjects DEF LocksPart!Writing
<1> HIDE DEF rd, wr
<1>2. /\ g \in Seq(Steps) /\ Len(g) = 3 /\ g[1].does = "rlock"
      /\ \A i \in 1 .. 3 : g[i].object = o
  <2>1. g = LocksPart!Reading(o, rd)
    BY DEF LocksPart!Encrypt, rd
  <2>2. rd \in Body(o)
    BY <1>1, OneIsBody
  <2>3. IsReading(LocksPart!Reading(o, rd), o, rd)
    BY <2>2, ReadingIs, OnObjects
  <2> HIDE DEF g
  <2> QED  BY <1>1, <2>1, <2>3 DEF IsReading
<1> HIDE DEF g
<1>3. InARow(g, wr, b)
  BY <1>1, <1>2, ConcatIs
<1> HIDE DEF b
<1>4. /\ b \in Seq(Steps) /\ Len(b) = 4
      /\ \A i \in 1 .. 3 : b[i] = g[i]
      /\ b[4] = wr[1]
  BY <1>1, <1>2, <1>3 DEF InARow
<1>5. \A i \in 1 .. Len(b) : b[i].object = o
  BY <1>1, <1>2, <1>4
<1>6. /\ b[1].does = "rlock" /\ 1 \in 1 .. Len(b) + 1
      /\ \A i \in 1 .. 1 - 1 : b[i].does \in LocksPart!Writing
  BY <1>2, <1>4
<1>7. Starts(LocksPart!Locked(o, b), o)
  BY <1>4, <1>5, <1>6, LockedStarts, OnObjects DEF Body
<1> QED  BY <1>7 DEF LocksPart!CreateBackup, b, g, wr

LEMMA MethodsStart == \A m \in LocksPart!Method : \E o \in LocksPart!Object : Starts(m, o)
<1> SUFFICES ASSUME NEW m \in LocksPart!Method PROVE \E o \in LocksPart!Object : Starts(m, o)
  OBVIOUS
<1>1. CASE m \in LocksPart!Flat
  BY <1>1, OneStep, OneRead, OnObjects DEF LocksPart!Flat, LocksPart!AddAlert,
    LocksPart!HealthCheck, LocksPart!UpdateMetrics,
    LocksPart!GetSystemStatus, LocksPart!GetAlerts, LocksPart!Encrypt,
    LocksPart!EnableTwoFactor, LocksPart!GetUserTransactions,
    LocksPart!AddTransaction
<1>2. CASE m \in LocksPart!Nested
  BY <1>2, SummaryStarts, BackupStarts, FilterStarts, ExecuteStarts,
    OnObjects DEF LocksPart!Nested
<1>3. CASE m \in LocksPart!Schedules
  BY <1>3, ScheduleStarts, OnObjects DEF LocksPart!Schedules
<1>4. CASE m \in LocksPart!HandedOut
  BY <1>4, PeekStarts, OnObjects DEF LocksPart!HandedOut
<1> QED  BY <1>1, <1>2, <1>3, <1>4 DEF LocksPart!Method

-----------------------------------------------------------------------------
(* The steps of an update, and the methods that have none.                 *)

Quiet(s) == \A i \in 1 .. Len(s) : s[i].does \notin {"maintain", "restore"}

LEMMA QuietStep ==
    ASSUME NEW n \in LocksPart!Writing \cup LockStep \cup {"reads", "peeks"},
           NEW o \in LocksPart!Object,
           n \notin {"maintain", "restore"}, n = "check" => o = "dashboard"
    PROVE  <<LocksPart!Step(n, o)>> \in Body(o) /\ Quiet(<<LocksPart!Step(n, o)>>)
<1> DEFINE b == <<LocksPart!Step(n, o)>>
<1>1. b \in Seq(Steps) /\ Len(b) = 1 /\ b[1].does = n /\ b[1].object = o
  BY StepIs
<1> HIDE DEF b
<1>2. b \in Body(o)
  BY <1>1, OneIsBody
<1>3. Quiet(b)
  BY <1>1 DEF Quiet
<1> QED  BY <1>2, <1>3 DEF b

LEMMA QuietLocked ==
    ASSUME NEW o \in LocksPart!Object, NEW b \in Body(o), Quiet(b)
    PROVE  /\ LocksPart!Locked(o, b) \in Body(o) /\ Quiet(LocksPart!Locked(o, b))
           /\ Len(LocksPart!Locked(o, b)) = Len(b) + 3
<1> DEFINE m == LocksPart!Locked(o, b)
<1>1. IsLocked(m, o, b) /\ Len(b) \in Nat
  BY LockedIs DEF Body
<1> HIDE DEF m
<1>2. m \in Body(o)
  BY <1>1 DEF IsLocked, Body
<1>3. ASSUME NEW i \in 1 .. Len(m) PROVE m[i].does \notin {"maintain", "restore"}
  <2>1. i \in {1, 2, Len(b) + 3} \/ (i - 2 \in 1 .. Len(b) /\ m[(i - 2) + 2] = b[i - 2])
    BY <1>1 DEF IsLocked
  <2> QED  BY <1>1, <2>1 DEF IsLocked, Quiet
<1> QED  BY <1>1, <1>2, <1>3 DEF IsLocked, Quiet, m

LEMMA QuietReading ==
    ASSUME NEW o \in LocksPart!Object, NEW b \in Body(o), Quiet(b)
    PROVE  LocksPart!Reading(o, b) \in Body(o) /\ Quiet(LocksPart!Reading(o, b))
<1> DEFINE m == LocksPart!Reading(o, b)
<1>1. IsReading(m, o, b) /\ Len(b) \in Nat
  BY ReadingIs DEF Body
<1> HIDE DEF m
<1>2. m \in Body(o)
  BY <1>1 DEF IsReading, Body
<1>3. ASSUME NEW i \in 1 .. Len(m) PROVE m[i].does \notin {"maintain", "restore"}
  <2>1. i \in {1, Len(b) + 2} \/ (i - 1 \in 1 .. Len(b) /\ m[(i - 1) + 1] = b[i - 1])
    BY <1>1 DEF IsReading
  <2> QED  BY <1>1, <2>1 DEF IsReading, Quiet
<1> QED  BY <1>2, <1>3 DEF Quiet, m

LEMMA QuietConcat ==
    ASSUME NEW o \in LocksPart!Object, NEW a \in Body(o), NEW b \in Body(o), Quiet(a), Quiet(b)
    PROVE  a \o b \in Body(o) /\ Quiet(a \o b)
<1> DEFINE m == a \o b
<1>1. InARow(a, b, m) /\ Len(a) \in Nat /\ Len(b) \in Nat
  BY ConcatIs DEF Body
<1> HIDE DEF m
<1>2. ASSUME NEW i \in 1 .. Len(m)
      PROVE  m[i].object = o /\ m[i].does \notin {"maintain", "restore"}
  <2>1. \/ i \in 1 .. Len(a) /\ m[i] = a[i]
        \/ i - Len(a) \in 1 .. Len(b) /\ m[(i - Len(a)) + Len(a)] = b[i - Len(a)]
    BY <1>1 DEF InARow
  <2>2. i = (i - Len(a)) + Len(a)
    BY <1>1
  <2> QED  BY <2>1, <2>2 DEF Quiet, Body
<1> QED  BY <1>1, <1>2 DEF InARow, Quiet, Body, m

LEMMA ExecuteIs ==
    ASSUME NEW c \in Name
    PROVE  LET e == LocksPart!ExecuteUpdate(c)
           IN  /\ e \in Seq(Steps) /\ Len(e) = 10
               /\ e[1].does = "lock" /\ e[2].does = "drain"
               /\ e[3] = LocksPart!StepOn("maintain", "dashboard", c)
               /\ e[4].does = "dequeue" /\ e[5].does = "lock"
               /\ e[9] = LocksPart!StepOn("restore", "dashboard", c)
               /\ \A i \in 1 .. 10 : /\ e[i].object = "dashboard"
                                     /\ e[i].does = "maintain" => i = 3
                                     /\ e[i].does = "restore" => i = 9
<1> DEFINE o == "dashboard"
           ma == LocksPart!StepOn("maintain", o, c)
           de == LocksPart!StepOn("dequeue", o, c)
           re == LocksPart!StepOn("restore", o, c)
           al == LocksPart!AddAlert
           x == <<ma, de>>
           z == <<re>>
           a == x \o al
           b == a \o z
           e == LocksPart!Locked(o, b)
<1>1. /\ ma \in Steps /\ de \in Steps /\ re \in Steps
      /\ ma.does = "maintain" /\ de.does = "dequeue" /\ re.does = "restore"
      /\ ma.object = o /\ de.object = o /\ re.object = o
  BY StepOnIs, OnObjects DEF LocksPart!Writing
<1>2. /\ al \in Body(o) /\ Quiet(al) /\ Len(al) = 4 /\ al[1].does = "lock"
  <2> DEFINE y == <<LocksPart!Step("alert", o)>>
  <2>1. y \in Body(o) /\ Quiet(y)
    BY QuietStep, OnObjects DEF LocksPart!Writing
  <2>2. al = LocksPart!Locked(o, y)
    BY DEF LocksPart!AddAlert
  <2> HIDE DEF y, al
  <2>3. al \in Body(o) /\ Quiet(al)
    BY <2>1, <2>2, QuietLocked, OnObjects
  <2> QED  BY <2>3, AddAlertIs DEF al
<1>9. LocksPart!ExecuteUpdate(c) = e
  BY DEF LocksPart!ExecuteUpdate
<1> HIDE DEF ma, de, re, al
<1>3. x \in Seq(Steps) /\ Len(x) = 2 /\ x[1] = ma /\ x[2] = de
      /\ z \in Seq(Steps) /\ Len(z) = 1 /\ z[1] = re
  BY <1>1
<1> HIDE DEF x, z
<1>4. InARow(x, al, a)
  BY <1>2, <1>3, ConcatIs DEF Body
<1> HIDE DEF a
<1>5. /\ a \in Seq(Steps) /\ Len(a) = 6 /\ a[1] = ma /\ a[2] = de
      /\ \A i \in 1 .. 4 : a[i + 2] = al[i]
  BY <1>2, <1>3, <1>4 DEF InARow
<1>6. InARow(a, z, b)
  BY <1>3, <1>5, ConcatIs
<1> HIDE DEF b
<1>7. /\ b \in Seq(Steps) /\ Len(b) = 7 /\ b[1] = ma /\ b[2] = de /\ b[7] = re
      /\ \A i \in 3 .. 6 : b[i] = al[i - 2]
  <2>1. b \in Seq(Steps) /\ Len(b) = 7 /\ \A i \in 1 .. 6 : b[i] = a[i]
    BY <1>3, <1>5, <1>6 DEF InARow
  <2>2. b[1 + 6] = z[1]
    BY <1>3, <1>5, <1>6 DEF InARow
  <2>3. ASSUME NEW i \in 3 .. 6 PROVE b[i] = al[i - 2]
    <3>1. i - 2 \in 1 .. 4 /\ (i - 2) + 2 = i
      OBVIOUS
    <3>2. a[(i - 2) + 2] = al[i - 2]
      BY <1>5, <3>1
    <3> QED  BY <2>1, <3>1, <3>2
  <2> QED  BY <1>3, <1>5, <2>1, <2>2, <2>3
<1>8. b \in Body(o)
  <2> SUFFICES ASSUME NEW i \in 1 .. 7 PROVE b[i].object = o
    BY <1>7 DEF Body
  <2>1. i \in {1, 2, 7} \/ (i \in 3 .. 6 /\ i - 2 \in 1 .. 4)
    OBVIOUS
  <2>2. CASE i \in {1, 2, 7}
    BY <1>1, <1>7, <2>2
  <2>3. ASSUME i \in 3 .. 6, i - 2 \in 1 .. 4 PROVE b[i].object = o
    <3>1. b[i] = al[i - 2] /\ i - 2 \in 1 .. Len(al)
      BY <1>2, <1>7, <2>3
    <3> QED  BY <1>2, <3>1 DEF Body
  <2> QED  BY <2>1, <2>2, <2>3
<1>10. IsLocked(e, o, b)
  BY <1>8, LockedIs, OnObjects
<1> HIDE DEF e
<1>11. /\ e \in Seq(Steps) /\ Len(e) = 10 /\ e[1].does = "lock" /\ e[2].does = "drain"
       /\ e[10].does = "unlock" /\ \A i \in 1 .. 10 : e[i].object = o
       /\ \A i \in 1 .. 7 : e[i + 2] = b[i]
  BY <1>7, <1>10 DEF IsLocked
<1>12. e[3] = ma /\ e[4] = de /\ e[9] = re
  <2>1. e[1 + 2] = b[1] /\ e[2 + 2] = b[2] /\ e[7 + 2] = b[7]
    BY <1>11
  <2> QED  BY <1>7, <2>1
<1>13. ASSUME NEW i \in 5 .. 8 PROVE e[i] = al[i - 4] /\ i - 4 \in 1 .. 4
  <2>1. i - 2 \in 1 .. 7 /\ (i - 2) + 2 = i /\ i - 2 \in 3 .. 6 /\ (i - 2) - 2 = i - 4
    OBVIOUS
  <2>2. e[(i - 2) + 2] = b[i - 2] /\ b[i - 2] = al[(i - 2) - 2]
    BY <1>7, <1>11, <2>1
  <2> QED  BY <2>1, <2>2
<1>14. e[5].does = "lock"
  BY <1>2, <1>13
<1>15. ASSUME NEW i \in 1 .. 10
       PROVE (e[i].does = "maintain" => i = 3) /\ (e[i].does = "restore" => i = 9)
  <2>1. i \in {1, 2, 3, 4, 9, 10} \/ i \in 5 .. 8
    OBVIOUS
  <2>2. CASE i \in 5 .. 8
    BY <1>2, <1>13, <2>2 DEF Quiet
  <2> QED  BY <1>1, <1>11, <1>12, <2>1, <2>2
<1> QED  BY <1>9, <1>11, <1>12, <1>14, <1>1, <1>15 DEF ma, re

LEMMA MethodsQuiet ==
    \A m \in LocksPart!Method : Quiet(m) \/ \E c \in Name : m = LocksPart!ExecuteUpdate(c)
<1>1. \A o \in LocksPart!Object :
        /\ Quiet(LocksPart!Reading(o, <<LocksPart!Step("reads", o)>>))
        /\ LocksPart!Reading(o, <<LocksPart!Step("reads", o)>>) \in Body(o)
        /\ Quiet(LocksPart!Locked(o, <<LocksPart!Step("writes", o)>>))
        /\ <<LocksPart!Step("reads", o)>> \in Body(o) /\ Quiet(<<LocksPart!Step("reads", o)>>)
        /\ <<LocksPart!Step("writes", o)>> \in Body(o) /\ Quiet(<<LocksPart!Step("writes", o)>>)
        /\ Quiet(<<LocksPart!Step("peeks", o)>>)
  BY QuietStep, QuietLocked, QuietReading DEF LocksPart!Writing
<1>2. Quiet(LocksPart!AddAlert) /\ LocksPart!AddAlert \in Body("dashboard")
      /\ Quiet(LocksPart!HealthCheck)
  BY QuietStep, QuietLocked, OnObjects DEF LocksPart!Writing, LocksPart!AddAlert,
    LocksPart!HealthCheck
<1>3. ASSUME NEW m \in LocksPart!Flat PROVE Quiet(m)
  BY <1>1, <1>2, <1>3, OnObjects DEF LocksPart!Flat, LocksPart!UpdateMetrics,
    LocksPart!GetSystemStatus, LocksPart!GetAlerts, LocksPart!Encrypt,
    LocksPart!EnableTwoFactor, LocksPart!GetUserTransactions, LocksPart!AddTransaction
<1>4. Quiet(LocksPart!GetDashboardSummary)
  <2> DEFINE rd == <<LocksPart!Step("reads", "dashboard")>>
  <2>1. /\ rd \in Body("dashboard") /\ Quiet(rd)
        /\ LocksPart!GetSystemStatus \in Body("dashboard") /\ Quiet(LocksPart!GetSystemStatus)
    BY <1>1, OnObjects DEF LocksPart!GetSystemStatus
  <2>2. LocksPart!GetDashboardSummary
          = LocksPart!Reading("dashboard", LocksPart!GetSystemStatus \o rd)
    BY DEF LocksPart!GetDashboardSummary
  <2> HIDE DEF rd
  <2>3. /\ LocksPart!GetSystemStatus \o rd \in Body("dashboard")
        /\ Quiet(LocksPart!GetSystemStatus \o rd)
    BY <2>1, QuietConcat, OnObjects
  <2> QED  BY <2>2, <2>3, QuietReading, OnObjects
<1>5. Quiet(LocksPart!CreateBackup)
  <2> DEFINE wr == <<LocksPart!Step("writes", "security")>>
  <2>1. /\ wr \in Body("security") /\ Quiet(wr)
        /\ LocksPart!Encrypt \in Body("security") /\ Quiet(LocksPart!Encrypt)
    BY <1>1, OnObjects DEF LocksPart!Encrypt
  <2>2. LocksPart!CreateBackup = LocksPart!Locked("security", LocksPart!Encrypt \o wr)
    BY DEF LocksPart!CreateBackup
  <2> HIDE DEF wr
  <2>3. /\ LocksPart!Encrypt \o wr \in Body("security")
        /\ Quiet(LocksPart!Encrypt \o wr)
    BY <2>1, QuietConcat, OnObjects
  <2> QED  BY <2>2, <2>3, QuietLocked, OnObjects
<1>6. Quiet(LocksPart!FilterTransactions)
  BY <1>1, QuietReading, OnObjects DEF LocksPart!FilterTransactions,
    LocksPart!GetUserTransactions
<1>7. ASSUME NEW c \in Name PROVE Quiet(LocksPart!ScheduleUpdate(c))
  <2> DEFINE en == LocksPart!StepOn("enqueue", "dashboard", c)
             x == <<en>>
  <2>1. en \in Steps /\ en.does = "enqueue" /\ en.object = "dashboard"
    BY StepOnIs, OnObjects DEF LocksPart!Writing
  <2> HIDE DEF en
  <2>2. x \in Seq(Steps) /\ Len(x) = 1 /\ x[1] = en
    BY <2>1
  <2>3. LocksPart!ScheduleUpdate(c) = LocksPart!Locked("dashboard", x \o LocksPart!AddAlert)
    BY DEF LocksPart!ScheduleUpdate, en
  <2> HIDE DEF x
  <2>4. x \in Body("dashboard") /\ Quiet(x)
    BY <2>1, <2>2, OneIsBody DEF Quiet
  <2>5. /\ x \o LocksPart!AddAlert \in Body("dashboard")
        /\ Quiet(x \o LocksPart!AddAlert)
    BY <1>2, <2>4, QuietConcat, OnObjects
  <2> QED  BY <2>3, <2>5, QuietLocked, OnObjects
<1>8. ASSUME NEW m \in LocksPart!HandedOut PROVE Quiet(m)
  BY <1>1, <1>8, OnObjects DEF LocksPart!HandedOut, LocksPart!ReadHandedOut
<1> QED
  BY <1>3, <1>4, <1>5, <1>6, <1>7, <1>8
  DEF LocksPart!Method, LocksPart!Nested, LocksPart!Schedules

-----------------------------------------------------------------------------
(* The locks and what their holders have left to do.                       *)

Away(t, o) ==
    mutex[o].readers[t] = 0 /\ t \notin mutex[o].waiting /\ mutex[o].writer # t
NoReaders(o) == \A u \in Thread : mutex[o].readers[u] = 0

Draining(t, o) ==
    /\ mutex[o].writer = t /\ t \notin mutex[o].waiting
    /\ Len(todo[t]) > 0 /\ todo[t][1].does = "drain" /\ todo[t][1].object = o
    /\ Section(Tail(todo[t]), o)
InSection(t, o) ==
    /\ mutex[o].writer = t /\ t \notin mutex[o].waiting /\ NoReaders(o)
    /\ Section(todo[t], o)
\* It holds the write lock and waits for a read lock.
Stuck(t, o) ==
    /\ mutex[o].writer = t /\ t \in mutex[o].waiting /\ NoReaders(o)
    /\ Len(todo[t]) > 0
Reads(t, o) ==
    /\ mutex[o].writer # t
    /\ \E d \in Nat \ {0} :
         /\ ReadsLeft(todo[t], o, d)
         /\ mutex[o].readers[t] = IF t \in mutex[o].waiting THEN d - 1 ELSE d

Outside(t) ==
    /\ todo[t] = <<>> \/ \E o \in LocksPart!Object : Starts(todo[t], o)
    /\ \A o \in LocksPart!Object : Away(t, o)
Inside(t, o) ==
    /\ Draining(t, o) \/ InSection(t, o) \/ Stuck(t, o) \/ Reads(t, o)
    /\ \A p \in LocksPart!Object \ {o} : Away(t, p)
ThreadOK(t) == Outside(t) \/ \E o \in LocksPart!Object : Inside(t, o)

LockTypes ==
    /\ mutex \in [LocksPart!Object -> LocksPart!Locks!Mutex] /\ todo \in [Thread -> Seq(Steps)]

LocksOK == LockTypes /\ \A t \in Thread : ThreadOK(t)

\* The last n steps of an update of c.
UpdateLeft(s, c, n) ==
    /\ Len(s) = n
    /\ \A i \in 1 .. n : s[i] = LocksPart!ExecuteUpdate(c)[10 - n + i]
AtWork(s, c) == UpdateLeft(s, c, 7) \/ UpdateLeft(s, c, 6)

\* An update never comes past the lock that AddAlert asks for (258), so that
\* it has six steps left at least; and it holds the write lock from the third.
UpdateOK(t) ==
    \/ Quiet(todo[t])
    \/ \E c \in Name : \E n \in 6 .. 10 :
          UpdateLeft(todo[t], c, n) /\ (n < 9 => InSection(t, "dashboard"))
ShownOK ==
    /\ Status \in [Component -> {"healthy", "maintenance"}]
    /\ \A c \in Component : Status[c] = "maintenance" <=> \E t \in Thread : AtWork(todo[t], c)
MaintenanceOK == ShownOK /\ \A t \in Thread : UpdateOK(t)

\* What becomes of u's hold on an object when somebody else acts.
SameFor(u, o) ==
    /\ mutex'[o].readers[u] = mutex[o].readers[u]
    /\ u \in mutex'[o].waiting <=> u \in mutex[o].waiting
    /\ mutex'[o].writer = u <=> mutex[o].writer = u
    /\ mutex[o].writer = u /\ NoReaders(o) => NoReaders(o)'
Served(u, o) ==
    /\ u \in mutex[o].waiting /\ u \notin mutex'[o].waiting
    /\ mutex'[o].readers[u] = mutex[o].readers[u] + 1
    /\ mutex[o].writer # u /\ mutex'[o].writer # u

LEMMA Frame ==
    ASSUME NEW u \in Thread, ThreadOK(u), todo'[u] = todo[u],
           \A o \in LocksPart!Object : SameFor(u, o) \/ Served(u, o)
    PROVE  ThreadOK(u)'
<1>1. \A o \in LocksPart!Object : Away(u, o) => Away(u, o)'
  BY DEF Away, SameFor, Served
<1>2. ASSUME NEW o \in LocksPart!Object, Draining(u, o) PROVE Draining(u, o)'
  BY <1>2 DEF Draining, SameFor, Served
<1>3. ASSUME NEW o \in LocksPart!Object, InSection(u, o) PROVE InSection(u, o)'
  BY <1>3 DEF InSection, SameFor, Served
<1>4. ASSUME NEW o \in LocksPart!Object, Stuck(u, o) PROVE Stuck(u, o)'
  BY <1>4 DEF Stuck, SameFor, Served
<1>5. ASSUME NEW o \in LocksPart!Object, Reads(u, o) PROVE Reads(u, o)'
  <2>1. PICK d \in Nat \ {0} :
          /\ ReadsLeft(todo[u], o, d)
          /\ mutex[o].readers[u] = IF u \in mutex[o].waiting THEN d - 1 ELSE d
    BY <1>5 DEF Reads
  <2>2. mutex'[o].readers[u] = IF u \in mutex'[o].waiting THEN d - 1 ELSE d
    BY <2>1 DEF SameFor, Served
  <2>3. mutex'[o].writer # u
    BY <1>5 DEF Reads, SameFor, Served
  <2> QED  BY <2>1, <2>2, <2>3 DEF Reads
<1> QED  BY <1>1, <1>2, <1>3, <1>4, <1>5 DEF ThreadOK, Outside, Inside

\* What the first step left tells.
LEMMA SectionFirst ==
    ASSUME NEW s \in Seq(Steps), NEW o, Section(s, o)
    PROVE  /\ Len(s) > 0 /\ s[1].object = o
           /\ s[1].does \in LocksPart!Writing \cup {"lock", "rlock", "unlock"}
           /\ s[1].does \in LocksPart!Writing => Section(Tail(s), o)
           /\ s[1].does = "rlock" => Len(s) > 1
           /\ s[1].does = "unlock" => Len(s) = 1
<1>1. PICK n \in 1 .. Len(s) : SectionTo(s, n)
  BY DEF Section
<1>2. Len(s) \in Nat /\ n \in Nat /\ 1 <= n /\ n <= Len(s)
  OBVIOUS
<1>3. s # <<>> /\ Len(s) > 0 /\ s[1].object = o
  BY <1>2 DEF Section
<1> DEFINE z == Tail(s)
<1>4. /\ z \in Seq(Steps) /\ Len(z) = Len(s) - 1
      /\ \A i \in 1 .. Len(s) - 1 : z[i] = s[i + 1]
  BY <1>3, HeadTailProperties
<1> HIDE DEF z
<1>5. CASE n = 1
  <2>1. s[1].does \in {"lock", "rlock", "unlock"}
    BY <1>1, <1>5 DEF SectionTo
  <2>2. s[1].does \notin LocksPart!Writing
    BY <2>1 DEF LocksPart!Writing
  <2> QED  BY <1>1, <1>2, <1>3, <1>5, <2>1, <2>2 DEF SectionTo
<1>6. CASE n > 1
  <2> DEFINE k == n - 1
  <2>1. s[1].does \in LocksPart!Writing
    BY <1>1, <1>2, <1>6 DEF SectionTo
  <2>2. k \in 1 .. Len(z) /\ z[k] = s[n] /\ (n = Len(s) <=> k = Len(z))
        /\ (n < Len(s) <=> k < Len(z))
    BY <1>2, <1>4, <1>6
  <2>3. \A i \in 1 .. k - 1 : z[i] = s[i + 1] /\ i + 1 \in 1 .. n - 1
    BY <1>2, <1>4, <1>6
  <2>4. \A i \in 1 .. k - 1 : z[i].does \in LocksPart!Writing
    BY <1>1, <2>3 DEF SectionTo
  <2>5. SectionTo(z, k)
    BY <1>1, <2>2, <2>4 DEF SectionTo
  <2>6. \A i \in 1 .. Len(z) : z[i].object = o
    BY <1>2, <1>4 DEF Section
  <2>7. Section(z, o)
    BY <2>2, <2>5, <2>6 DEF Section
  <2>9. s[1].does \notin {"rlock", "unlock"}
    BY <2>1 DEF LocksPart!Writing
  <2> QED  BY <1>3, <2>1, <2>7, <2>9 DEF z
<1> QED  BY <1>2, <1>5, <1>6

LEMMA ReadsFirst ==
    ASSUME NEW s \in Seq(Steps), NEW o, NEW d \in Nat \ {0}, ReadsLeft(s, o, d)
    PROVE  /\ Len(s) > 0 /\ s[1].object = o
           /\ s[1].does \in {"rlock", "reads", "runlock"}
           /\ s[1].does = "rlock" => ReadsLeft(Tail(s), o, d + 1)
           /\ s[1].does = "reads" => ReadsLeft(Tail(s), o, d)
           /\ s[1].does = "runlock" =>
                IF d = 1 THEN Tail(s) = <<>> ELSE ReadsLeft(Tail(s), o, d - 1)
<1>1. PICK f : Levels(s, f) /\ f[1] = d
  BY DEF ReadsLeft
<1>2. Len(s) \in Nat /\ Len(s) # 0
  BY <1>1 DEF Levels
<1>3. s # <<>> /\ Len(s) > 0 /\ s[1].object = o
  BY <1>2 DEF ReadsLeft
<1> DEFINE z == Tail(s)
           g == [i \in 1 .. Len(s) |-> f[i + 1]]
<1>4. /\ z \in Seq(Steps) /\ Len(z) = Len(s) - 1
      /\ \A i \in 1 .. Len(s) - 1 : z[i] = s[i + 1]
  BY <1>3, HeadTailProperties
<1> HIDE DEF z
<1>5. f[2] \in Nat /\ LockLevel(s[1].does, d, f[2])
  BY <1>1, <1>2 DEF Levels
<1>6. g[1] = f[2] /\ Levels(z, g)
  <2>1. g \in [1 .. Len(z) + 1 -> Nat] /\ g[Len(z) + 1] = 0
    <3>1. Len(z) + 1 = Len(s) /\ Len(s) \in 1 .. Len(s)
      BY <1>2, <1>4
    <3>2. \A i \in 1 .. Len(s) : f[i + 1] \in Nat
      BY <1>1, <1>2 DEF Levels
    <3>3. f[Len(s) + 1] = 0
      BY <1>1 DEF Levels
    <3> QED  BY <3>1, <3>2, <3>3
  <2>2. ASSUME NEW i \in 1 .. Len(z) PROVE g[i] > 0 /\ LockLevel(z[i].does, g[i], g[i + 1])
    <3>1. i + 1 \in 1 .. Len(s) /\ i \in 1 .. Len(s) /\ z[i] = s[i + 1]
      BY <1>2, <1>4
    <3>2. f[i + 1] > 0 /\ LockLevel(s[i + 1].does, f[i + 1], f[(i + 1) + 1])
      BY <1>1, <3>1 DEF Levels
    <3> QED  BY <3>1, <3>2
  <2>3. g[1] = f[2]
    BY <1>2
  <2> HIDE DEF g
  <2> QED  BY <2>1, <2>2, <2>3 DEF Levels
<1> HIDE DEF g
<1>7. \A i \in 1 .. Len(z) : z[i].object = o
  BY <1>2, <1>4 DEF ReadsLeft
<1>8. ReadsLeft(z, o, f[2])
  BY <1>6, <1>7 DEF ReadsLeft
<1>9. s[1].does = "runlock" /\ d = 1 => z = <<>>
  <2> SUFFICES ASSUME s[1].does = "runlock", d = 1 PROVE Len(z) = 0
    BY <1>4
  <2>1. f[2] = 0
    BY <1>5 DEF LockLevel
  <2>2. Len(z) \in Nat /\ (Len(z) > 0 => g[1] > 0)
    BY <1>4, <1>6 DEF Levels
  <2> QED  BY <1>6, <2>1, <2>2
<1> QED  BY <1>3, <1>5, <1>8, <1>9 DEF LockLevel, z

\* What a thread that takes a step can be at.
LEMMA WhoActs ==
    ASSUME LockTypes, NEW t \in Thread, ThreadOK(t), ~LocksPart!Idle(t), ~LocksPart!Waits(t)
    PROVE  LET o == LocksPart!Object1(t)
               does == todo[t][1].does
           IN  /\ o \in LocksPart!Object /\ todo[t] \in Seq(Steps) /\ todo[t] # <<>>
               /\ Len(todo[t]) > 0
               /\ t \notin mutex[o].waiting
               /\ \A p \in LocksPart!Object \ {o} : Away(t, p)
               /\ \/ Away(t, o) /\ does = "lock" /\ StartsWriting(todo[t], o)
                                /\ \A i \in 1 .. Len(todo[t]) : todo[t][i].object = o
                  \/ Away(t, o) /\ does = "rlock" /\ StartsReading(todo[t], o)
                  \/ Away(t, o) /\ does = "peeks" /\ StartsPeeking(todo[t])
                  \/ Draining(t, o) /\ does = "drain"
                  \/ /\ InSection(t, o)
                     /\ does \in LocksPart!Writing \cup {"lock", "rlock", "unlock"}
                  \/ Reads(t, o) /\ does \in {"rlock", "reads", "runlock"}
                                /\ mutex[o].readers[t] > 0
<1> DEFINE s == todo[t]
<1>1. s \in Seq(Steps) /\ s # <<>> /\ Len(s) \in Nat /\ Len(s) > 0 /\ s[1] \in Steps
  BY DEF LockTypes, LocksPart!Idle
<1>2. /\ LocksPart!Object1(t) \in LocksPart!Object
      /\ \A o \in LocksPart!Object : t \notin mutex[o].waiting
  BY <1>1 DEF LocksPart!Object1, Steps, LocksPart!Waits
<1>3. CASE Outside(t)
  <2>1. PICK o \in LocksPart!Object : Starts(s, o)
    BY <1>1, <1>3 DEF Outside
  <2>2. LocksPart!Object1(t) = o /\ \A p \in LocksPart!Object : Away(t, p)
    BY <1>1, <1>3, <2>1 DEF Outside, Starts, LocksPart!Object1
  <2> QED  BY <1>1, <1>2, <2>1, <2>2 DEF Starts, StartsWriting, StartsReading, StartsPeeking
<1>4. ASSUME NEW o \in LocksPart!Object, Inside(t, o)
      PROVE  /\ LocksPart!Object1(t) = o
             /\ \/ Draining(t, o) /\ s[1].does = "drain"
                \/ /\ InSection(t, o)
                   /\ s[1].does \in LocksPart!Writing \cup {"lock", "rlock", "unlock"}
                \/ Reads(t, o) /\ s[1].does \in {"rlock", "reads", "runlock"}
                              /\ mutex[o].readers[t] > 0
  <2>1. CASE Draining(t, o)
    BY <2>1 DEF Draining, LocksPart!Object1
  <2>2. CASE InSection(t, o)
    BY <1>1, <2>2, SectionFirst DEF InSection, LocksPart!Object1
  <2>3. CASE Stuck(t, o)
    BY <1>2, <2>3 DEF Stuck
  <2>4. CASE Reads(t, o)
    <3>1. PICK d \in Nat \ {0} : ReadsLeft(s, o, d) /\ mutex[o].readers[t] = d
      BY <1>2, <2>4 DEF Reads
    <3> QED  BY <1>1, <2>4, <3>1, ReadsFirst DEF LocksPart!Object1
  <2> QED  BY <1>4, <2>1, <2>2, <2>3, <2>4 DEF Inside
<1>5. CASE \E o \in LocksPart!Object : Inside(t, o)
  <2>1. PICK o \in LocksPart!Object : Inside(t, o)
    BY <1>5
  <2>2. LocksPart!Object1(t) = o /\ \A p \in LocksPart!Object \ {o} : Away(t, p)
    BY <1>4, <2>1 DEF Inside
  <2> QED  BY <1>1, <1>2, <1>4, <2>1, <2>2
<1> QED  BY <1>3, <1>5 DEF ThreadOK

\* What is left to show of a step of thread t.
LEMMA StepKeeps ==
    ASSUME LocksOK, NEW t \in Thread, LockTypes', ThreadOK(t)',
           \A u \in Thread \ {t} :
             todo'[u] = todo[u] /\ \A o \in LocksPart!Object : SameFor(u, o) \/ Served(u, o)
    PROVE  LocksOK'
<1>1. ASSUME NEW u \in Thread PROVE ThreadOK(u)'
  <2>1. CASE u = t
    BY <2>1
  <2>2. CASE u # t
    BY <2>2, Frame DEF LocksOK
  <2> QED  BY <2>1, <2>2
<1> QED  BY <1>1 DEF LocksOK

\* What is left of an update, and its next step.
LEMMA AtWorkIs ==
    ASSUME NEW s \in Seq(Steps), NEW c \in Name, NEW d \in Name, NEW n \in 5 .. 10,
           UpdateLeft(s, c, n)
    PROVE  AtWork(s, d) <=> n \in {6, 7} /\ c = d
<1> DEFINE e == LocksPart!ExecuteUpdate(c)
           f == LocksPart!ExecuteUpdate(d)
           re(x) == LocksPart!StepOn("restore", "dashboard", x)
<1>1. e[9] = re(c) /\ f[9] = re(d)
  BY ExecuteIs
<1>2. re(c) = re(d) => c = d
  <2>1. re(c).on = c /\ re(d).on = d
    BY DEF LocksPart!StepOn
  <2> QED  BY <2>1
<1> HIDE DEF re
<1>3. Len(s) = n /\ \A i \in 1 .. n : s[i] = e[10 - n + i]
  BY DEF UpdateLeft
<1>4. ASSUME NEW k \in {6, 7}, UpdateLeft(s, d, k) PROVE n = k /\ c = d
  <2>1. n = k /\ \A i \in 1 .. k : s[i] = f[10 - k + i]
    BY <1>3, <1>4 DEF UpdateLeft
  <2>2. k - 1 \in 1 .. k /\ 10 - k + (k - 1) = 9
    OBVIOUS
  <2>3. s[k - 1] = f[9] /\ s[k - 1] = e[9]
    BY <1>3, <2>1, <2>2
  <2> QED  BY <1>1, <1>2, <2>1, <2>3
<1> QED  BY <1>4 DEF AtWork

LEMMA UpdateFirst ==
    ASSUME NEW s \in Seq(Steps), NEW c \in Name, NEW n \in 6 .. 10, UpdateLeft(s, c, n)
    PROVE  /\ s # <<>> /\ s[1].object = "dashboard"
           /\ n \in {10, 6} => s[1].does = "lock"
           /\ n = 9 => s[1].does = "drain"
           /\ n = 8 => s[1] = LocksPart!StepOn("maintain", "dashboard", c)
           /\ n = 7 => s[1].does = "dequeue"
           /\ s[1].does = "maintain" => n = 8
           /\ s[1].does # "restore"
           /\ UpdateLeft(Tail(s), c, n - 1)
<1> DEFINE e == LocksPart!ExecuteUpdate(c)
           z == Tail(s)
<1>1. Len(s) = n /\ (\A i \in 1 .. n : s[i] = e[10 - n + i]) /\ s # <<>>
  BY DEF UpdateLeft
<1>2. s[1] = e[11 - n] /\ 11 - n \in 1 .. 5
  <2>1. 10 - n + 1 = 11 - n /\ 1 \in 1 .. n
    OBVIOUS
  <2> QED  BY <1>1, <2>1
<1>3. \A i \in 1 .. 10 : /\ e[i].object = "dashboard"
                         /\ e[i].does = "maintain" => i = 3
                         /\ e[i].does = "restore" => i = 9
  BY ExecuteIs
<1>4. /\ e[1].does = "lock" /\ e[2].does = "drain" /\ e[4].does = "dequeue"
      /\ e[3] = LocksPart!StepOn("maintain", "dashboard", c) /\ e[5].does = "lock"
  BY ExecuteIs
<1> HIDE DEF e
<1>5. /\ z \in Seq(Steps) /\ Len(z) = n - 1
      /\ \A i \in 1 .. n - 1 : z[i] = s[i + 1]
  BY <1>1, HeadTailProperties
<1> HIDE DEF z
<1>6. ASSUME NEW i \in 1 .. n - 1 PROVE z[i] = e[10 - (n - 1) + i]
  <2>1. i + 1 \in 1 .. n /\ 10 - n + (i + 1) = 10 - (n - 1) + i
    OBVIOUS
  <2>2. z[i] = s[i + 1] /\ s[i + 1] = e[10 - n + (i + 1)]
    BY <1>1, <1>5, <2>1
  <2> QED  BY <2>1, <2>2
<1>7. UpdateLeft(z, c, n - 1)
  BY <1>5, <1>6 DEF UpdateLeft, e
<1>8. /\ s[1].object = "dashboard" /\ s[1].does # "restore"
      /\ s[1].does = "maintain" => n = 8
  <2> DEFINE j == 11 - n
  <2>1. s[1] = e[j] /\ j \in 1 .. 10 /\ j # 9 /\ (j = 3 => n = 8)
    BY <1>2
  <2> HIDE DEF j
  <2>2. /\ e[j].object = "dashboard"
        /\ e[j].does = "maintain" => j = 3
        /\ e[j].does = "restore" => j = 9
    BY <1>3, <2>1
  <2> QED  BY <2>1, <2>2
<1>9. /\ n \in {10, 6} => s[1].does = "lock"
      /\ n = 9 => s[1].does = "drain"
      /\ n = 8 => s[1] = LocksPart!StepOn("maintain", "dashboard", c)
      /\ n = 7 => s[1].does = "dequeue"
  BY <1>2, <1>4
<1> QED  BY <1>1, <1>7, <1>8, <1>9 DEF z

LEMMA QuietOnes ==
    ASSUME NEW s \in Seq(Steps), Quiet(s)
    PROVE  /\ \A c \in Name : ~AtWork(s, c)
           /\ s # <<>> => Quiet(Tail(s)) /\ s[1].does \notin {"maintain", "restore"}
<1>1. ASSUME NEW c \in Name, NEW k \in {6, 7}, UpdateLeft(s, c, k) PROVE FALSE
  <2>1. k - 1 \in 1 .. k /\ 10 - k + (k - 1) = 9 /\ Len(s) = k
    BY <1>1 DEF UpdateLeft
  <2>2. s[k - 1] = LocksPart!StepOn("restore", "dashboard", c)
    BY <1>1, <2>1, ExecuteIs DEF UpdateLeft
  <2> QED  BY <2>1, <2>2 DEF Quiet, LocksPart!StepOn
<1>2. ASSUME s # <<>> PROVE Quiet(Tail(s)) /\ s[1].does \notin {"maintain", "restore"}
  <2> DEFINE z == Tail(s)
  <2>1. /\ Len(s) \in Nat /\ Len(s) > 0 /\ Len(z) = Len(s) - 1
        /\ \A i \in 1 .. Len(s) - 1 : z[i] = s[i + 1]
    BY <1>2, HeadTailProperties
  <2> HIDE DEF z
  <2> QED  BY <2>1 DEF Quiet, z
<1> QED  BY <1>1, <1>2 DEF AtWork

\* A step of thread t, if it is not at a lock that it holds and keeps the write
\* lock while it writes.
LEMMA UpdateMovesOn ==
    ASSUME NEW t \in Thread, todo[t] \in Seq(Steps), todo[t] # <<>>,
           todo'[t] = Tail(todo[t]), UpdateOK(t),
           todo[t][1].does = "lock" => ~InSection(t, "dashboard"),
           todo[t][1].does = "drain" /\ todo[t][1].object = "dashboard" =>
             InSection(t, "dashboard")',
           todo[t][1].does \in LocksPart!Writing /\ InSection(t, "dashboard") =>
             InSection(t, "dashboard")'
    PROVE  /\ UpdateOK(t)'
           /\ todo[t][1].does # "restore"
           /\ todo[t][1].does = "maintain" =>
                \E d \in Name : todo[t][1] = LocksPart!StepOn("maintain", "dashboard", d)
           /\ \A c \in Name :
                AtWork(todo'[t], c) <=>
                  AtWork(todo[t], c) \/ todo[t][1] = LocksPart!StepOn("maintain", "dashboard", c)
<1> DEFINE s == todo[t]
           ma(x) == LocksPart!StepOn("maintain", "dashboard", x)
<1>0. \A x \in Name : ma(x).does = "maintain" /\ ma(x).on = x
  BY DEF LocksPart!StepOn
<1>1. CASE Quiet(s)
  <2>1. Quiet(Tail(s)) /\ s[1].does \notin {"maintain", "restore"}
    BY <1>1, QuietOnes
  <2>2. Tail(s) \in Seq(Steps)
    BY HeadTailProperties
  <2>3. \A c \in Name : ~AtWork(s, c) /\ ~AtWork(Tail(s), c)
    BY <1>1, <2>1, <2>2, QuietOnes
  <2>4. UpdateOK(t)'
    BY <2>1 DEF UpdateOK
  <2> HIDE DEF ma
  <2>5. \A c \in Name : s[1] # ma(c)
    BY <1>0, <2>1
  <2> QED  BY <2>1, <2>3, <2>4, <2>5 DEF ma
<1>2. ASSUME NEW d \in Name, NEW n \in 6 .. 10, UpdateLeft(s, d, n),
             n < 9 => InSection(t, "dashboard")
      PROVE  /\ UpdateOK(t)' /\ s[1].does # "restore"
             /\ s[1].does = "maintain" => s[1] = ma(d)
             /\ \A c \in Name : AtWork(Tail(s), c) <=> AtWork(s, c) \/ s[1] = ma(c)
  <2>1. /\ s[1].object = "dashboard"
        /\ n \in {10, 6} => s[1].does = "lock"
        /\ n = 9 => s[1].does = "drain"
        /\ n = 8 => s[1] = ma(d)
        /\ n = 7 => s[1].does = "dequeue"
        /\ s[1].does = "maintain" => n = 8
        /\ s[1].does # "restore"
        /\ UpdateLeft(Tail(s), d, n - 1)
    BY <1>2, UpdateFirst
  <2> HIDE DEF ma
  <2>2. n # 6
    BY <1>2, <2>1
  <2>3. n < 10 => InSection(t, "dashboard")'
    <3>1. CASE n = 9
      BY <2>1, <3>1
    <3>2. CASE n \in {7, 8}
      BY <1>0, <1>2, <2>1, <3>2 DEF LocksPart!Writing
    <3> QED  BY <2>2, <3>1, <3>2
  <2>4. UpdateOK(t)'
    <3>1. n - 1 \in 6 .. 10 /\ (n - 1 < 9 => n < 10)
      BY <2>2
    <3> QED  BY <2>1, <2>3, <3>1 DEF UpdateOK
  <2>5. Tail(s) \in Seq(Steps)
    BY HeadTailProperties
  <2>6. ASSUME NEW c \in Name PROVE AtWork(Tail(s), c) <=> AtWork(s, c) \/ s[1] = ma(c)
    <3>1. AtWork(s, c) <=> n \in {6, 7} /\ d = c
      BY <1>2, AtWorkIs
    <3>2. AtWork(Tail(s), c) <=> n - 1 \in {6, 7} /\ d = c
      <4> DEFINE z == Tail(s)
                 m == n - 1
      <4>1. m \in 5 .. 10 /\ z \in Seq(Steps) /\ UpdateLeft(z, d, m)
        BY <2>1, <2>5
      <4> HIDE DEF z, m
      <4>2. AtWork(z, c) <=> m \in {6, 7} /\ d = c
        BY <4>1, AtWorkIs
      <4> QED  BY <4>2 DEF z, m
    <3>3. s[1] = ma(c) <=> n = 8 /\ d = c
      BY <1>0, <2>1
    <3> QED  BY <2>2, <3>1, <3>2, <3>3
  <2> QED  BY <2>1, <2>4, <2>6
<1>3. CASE ~Quiet(s)
  <2>1. PICK d \in Name, n \in 6 .. 10 :
          UpdateLeft(s, d, n) /\ (n < 9 => InSection(t, "dashboard"))
    BY <1>3 DEF UpdateOK
  <2> HIDE DEF ma
  <2>2. /\ UpdateOK(t)' /\ s[1].does # "restore"
        /\ s[1].does = "maintain" => s[1] = ma(d)
        /\ \A c \in Name : AtWork(Tail(s), c) <=> AtWork(s, c) \/ s[1] = ma(c)
    BY <1>2, <2>1
  <2> QED  BY <2>2 DEF ma
<1> QED  BY <1>1, <1>3

\* The others keep what they have.
LEMMA OthersUpdate ==
    ASSUME MaintenanceOK, NEW t \in Thread,
           \A u \in Thread \ {t} :
             todo'[u] = todo[u] /\ \A o \in LocksPart!Object : SameFor(u, o) \/ Served(u, o)
    PROVE  /\ \A u \in Thread \ {t} : UpdateOK(u)'
           /\ \A u \in Thread \ {t}, c \in Component : AtWork(todo'[u], c) <=> AtWork(todo[u], c)
<1>1. ASSUME NEW u \in Thread \ {t} PROVE UpdateOK(u)'
  <2>1. InSection(u, "dashboard") => InSection(u, "dashboard")'
    BY <1>1, OnObjects DEF InSection, SameFor, Served
  <2>2. UpdateOK(u) /\ todo'[u] = todo[u]
    BY <1>1 DEF MaintenanceOK
  <2> QED  BY <2>1, <2>2 DEF UpdateOK
<1> QED  BY <1>1

\* A step that leaves the components alone.
LEMMA MaintenanceKept ==
    ASSUME LocksOK, MaintenanceOK, Status' = Status, NEW t \in Thread,
           todo[t] # <<>>, todo'[t] = Tail(todo[t]), todo[t][1].does # "maintain",
           todo[t][1].does = "lock" => ~InSection(t, "dashboard"),
           todo[t][1].does = "drain" /\ todo[t][1].object = "dashboard" =>
             InSection(t, "dashboard")',
           todo[t][1].does \in LocksPart!Writing /\ InSection(t, "dashboard") =>
             InSection(t, "dashboard")',
           \A u \in Thread \ {t} :
             todo'[u] = todo[u] /\ \A o \in LocksPart!Object : SameFor(u, o) \/ Served(u, o)
    PROVE  MaintenanceOK'
<1>1. /\ \A u \in Thread \ {t} : UpdateOK(u)'
      /\ \A u \in Thread \ {t}, c \in Component : AtWork(todo'[u], c) <=> AtWork(todo[u], c)
  BY OthersUpdate
<1>2. todo[t] \in Seq(Steps) /\ UpdateOK(t)
  BY DEF LocksOK, LockTypes, MaintenanceOK
<1>3. /\ UpdateOK(t)'
      /\ \A c \in Name :
           AtWork(todo'[t], c) <=>
             AtWork(todo[t], c) \/ todo[t][1] = LocksPart!StepOn("maintain", "dashboard", c)
  BY <1>2, UpdateMovesOn
<1>4. \A c \in Name : todo[t][1] # LocksPart!StepOn("maintain", "dashboard", c)
  BY DEF LocksPart!StepOn
<1>5. \A u \in Thread, c \in Component : AtWork(todo'[u], c) <=> AtWork(todo[u], c)
  BY <1>1, <1>3, <1>4
<1>6. ShownOK'
  BY <1>5 DEF MaintenanceOK, ShownOK
<1> QED  BY <1>1, <1>3, <1>6 DEF MaintenanceOK

-----------------------------------------------------------------------------
(* What the lock's operations leave.                                       *)

\* m is k but for what thread t has of it.
OthersSame(k, m, t) ==
    /\ m.writer = k.writer
    /\ \A u \in Thread \ {t} :
          m.readers[u] = k.readers[u] /\ (u \in m.waiting <=> u \in k.waiting)

LEMMA RLockIs ==
    ASSUME NEW k \in LocksPart!Locks!Mutex, NEW t \in Thread, t \notin k.waiting
    PROVE  LET m == LocksPart!Locks!RLock(k, t)
           IN  /\ m \in LocksPart!Locks!Mutex /\ OthersSame(k, m, t)
               /\ k.writer = NoThread => m.readers[t] = k.readers[t] + 1 /\ t \notin m.waiting
               /\ k.writer # NoThread => m.readers[t] = k.readers[t] /\ t \in m.waiting
BY DEF LocksPart!Locks!RLock, LocksPart!Locks!Mutex, OthersSame

LEMMA RUnlockIs ==
    ASSUME NEW k \in LocksPart!Locks!Mutex, NEW t \in Thread, k.readers[t] > 0
    PROVE  LET m == LocksPart!Locks!RUnlock(k, t)
           IN  /\ m \in LocksPart!Locks!Mutex /\ OthersSame(k, m, t)
               /\ m.readers[t] = k.readers[t] - 1 /\ m.waiting = k.waiting
BY DEF LocksPart!Locks!RUnlock, LocksPart!Locks!Mutex, OthersSame

LEMMA LockIs ==
    ASSUME NEW k \in LocksPart!Locks!Mutex, NEW t \in Thread
    PROVE  LET m == LocksPart!Locks!Lock(k, t)
           IN  /\ m \in LocksPart!Locks!Mutex /\ m.writer = t
               /\ m.readers = k.readers /\ m.waiting = k.waiting
BY DEF LocksPart!Locks!Lock, LocksPart!Locks!Mutex

LEMMA UnlockIs ==
    ASSUME NEW k \in LocksPart!Locks!Mutex
    PROVE  LET m == LocksPart!Locks!Unlock(k)
           IN  /\ m \in LocksPart!Locks!Mutex /\ m.writer = NoThread /\ m.waiting = {}
               /\ \A u \in Thread :
                    m.readers[u] = IF u \in k.waiting THEN k.readers[u] + 1 ELSE k.readers[u]
BY DEF LocksPart!Locks!Unlock, LocksPart!Locks!Mutex

LEMMA MutexFields ==
    ASSUME NEW k \in LocksPart!Locks!Mutex
    PROVE  /\ k.readers \in [Thread -> Nat] /\ k.waiting \subseteq Thread
           /\ k.writer \in Thread \cup {NoThread}
BY DEF LocksPart!Locks!Mutex

\* What a step changes of the locks and of what threads have left.
Moves(t, m) ==
    /\ mutex' = [mutex EXCEPT ![LocksPart!Object1(t)] = m]
    /\ LocksPart!Continue(t)

LEMMA MovesTypes ==
    ASSUME LockTypes, NEW t \in Thread, todo[t] \in Seq(Steps), todo[t] # <<>>,
           LocksPart!Object1(t) \in LocksPart!Object, NEW m \in LocksPart!Locks!Mutex,
    Moves(t, m)
    PROVE  /\ LockTypes' /\ mutex'[LocksPart!Object1(t)] = m
           /\ \A o \in LocksPart!Object \ {LocksPart!Object1(t)} : mutex'[o] = mutex[o]
           /\ todo'[t] = Tail(todo[t]) /\ \A u \in Thread \ {t} : todo'[u] = todo[u]
<1>1. Tail(todo[t]) \in Seq(Steps)
  BY HeadTailProperties
<1> QED  BY <1>1 DEF Moves, LocksPart!Continue, LockTypes

LEMMA AwayElsewhere ==
    ASSUME NEW t \in Thread, NEW o \in LocksPart!Object,
           \A p \in LocksPart!Object \ {o} : mutex'[p] = mutex[p] /\ Away(t, p)
    PROVE  \A p \in LocksPart!Object \ {o} : Away(t, p)'
BY DEF Away

\* The others, if only what t has changes.
LEMMA OthersKeep ==
    ASSUME LockTypes, LockTypes', NEW t \in Thread, NEW o \in LocksPart!Object,
           OthersSame(mutex[o], mutex'[o], t),
           \A p \in LocksPart!Object \ {o} : mutex'[p] = mutex[p],
           mutex'[o].readers[t] <= mutex[o].readers[t] \/ mutex[o].writer \notin Thread \ {t}
    PROVE  \A u \in Thread \ {t} : \A p \in LocksPart!Object : SameFor(u, p)
<1> SUFFICES ASSUME NEW u \in Thread \ {t}, NEW p \in LocksPart!Object PROVE SameFor(u, p)
  OBVIOUS
<1>1. CASE p # o
  BY <1>1 DEF SameFor, NoReaders
<1>2. CASE p = o
  <2>1. ASSUME mutex[o].writer = u, NoReaders(o) PROVE NoReaders(o)'
    <3>1. /\ mutex[o].readers[t] = 0 /\ mutex'[o].readers[t] <= mutex[o].readers[t]
          /\ \A v \in Thread \ {t} : mutex'[o].readers[v] = mutex[o].readers[v]
      BY <2>1 DEF OthersSame, NoReaders
    <3>2. mutex'[o].readers \in [Thread -> Nat]
      BY MutexFields DEF LockTypes
    <3> QED  BY <2>1, <3>1, <3>2 DEF NoReaders
  <2> QED  BY <1>2, <2>1 DEF SameFor, OthersSame
<1> QED  BY <1>1, <1>2

-----------------------------------------------------------------------------
(* The steps.                                                              *)

LEMMA RLockKeeps ==
    ASSUME LocksOK, MaintenanceOK, NEW t \in Thread, LocksPart!RLock(t)
    PROVE  LocksOK' /\ MaintenanceOK'
<1>0. PICK o : o = LocksPart!Object1(t)
  OBVIOUS
<1> DEFINE s == todo[t]
           k == mutex[o]
           m == LocksPart!Locks!RLock(k, t)
<1>1. /\ ~LocksPart!Idle(t) /\ ~LocksPart!Waits(t) /\ s[1].does = "rlock" /\ Moves(t, m)
      /\ Status' = Status
  BY <1>0 DEF LocksPart!RLock, LocksPart!At, Moves, LocksPart!dataVars
<1>2. /\ LockTypes /\ ThreadOK(t) /\ o \in LocksPart!Object /\ s \in Seq(Steps)
      /\ s # <<>> /\ Len(s) > 0
      /\ t \notin k.waiting
      /\ \A p \in LocksPart!Object \ {o} : Away(t, p)
      /\ \/ Away(t, o) /\ StartsReading(s, o)
         \/ InSection(t, o)
         \/ Reads(t, o)
  BY <1>0, <1>1, WhoActs DEF LocksOK, Draining, LocksPart!Writing
<1> DEFINE n == mutex'[o]
<1>3. k \in LocksPart!Locks!Mutex /\ m \in LocksPart!Locks!Mutex
  BY <1>2, RLockIs DEF LockTypes
<1>4. /\ LockTypes' /\ n = m /\ \A p \in LocksPart!Object \ {o} : mutex'[p] = mutex[p]
      /\ todo'[t] = Tail(s) /\ \A u \in Thread \ {t} : todo'[u] = todo[u]
  BY <1>0, <1>1, <1>2, <1>3, MovesTypes
<1>5. /\ OthersSame(k, n, t)
      /\ k.writer = NoThread => n.readers[t] = k.readers[t] + 1 /\ t \notin n.waiting
      /\ k.writer # NoThread => n.readers[t] = k.readers[t] /\ t \in n.waiting
      /\ k.readers[t] \in Nat
  BY <1>2, <1>3, <1>4, RLockIs, MutexFields
<1> HIDE DEF m, n
<1>6. \A u \in Thread \ {t} : \A p \in LocksPart!Object : SameFor(u, p)
  BY <1>2, <1>4, <1>5, OthersKeep DEF n
<1>7. \A p \in LocksPart!Object \ {o} : Away(t, p)'
  BY <1>2, <1>4, AwayElsewhere
<1>8. Inside(t, o)'
  <2>1. CASE Away(t, o) /\ StartsReading(s, o)
    <3>1. ReadsLeft(Tail(s), o, 1)
      BY <2>1 DEF StartsReading
    <3>2. n.readers[t] = (IF t \in n.waiting THEN 0 ELSE 1) /\ n.writer # t
      BY <1>5, <2>1 DEF Away, OthersSame
    <3>3. Reads(t, o)'
      <4>1. 1 \in Nat \ {0} /\ 1 - 1 = 0
        OBVIOUS
      <4> QED  BY <1>4, <3>1, <3>2, <4>1 DEF Reads, n
    <3> QED  BY <1>7, <3>3 DEF Inside
  <2>2. CASE InSection(t, o)
    <3>1. Len(s) > 1 /\ k.writer = t
      BY <1>1, <1>2, <2>2, SectionFirst DEF InSection
    <3>2. n.writer = t /\ t \in n.waiting /\ n.readers[t] = k.readers[t]
      BY <1>5, <3>1 DEF OthersSame
    <3>3. NoReaders(o)'
      BY <1>5, <2>2, <3>2 DEF InSection, NoReaders, OthersSame, n
    <3>4. Len(Tail(s)) > 0
      BY <1>2, <3>1, HeadTailProperties
    <3>5. Stuck(t, o)'
      BY <1>4, <3>2, <3>3, <3>4 DEF Stuck, n
    <3> QED  BY <1>7, <3>5 DEF Inside
  <2>3. CASE Reads(t, o)
    <3>1. PICK d \in Nat \ {0} : ReadsLeft(s, o, d) /\ k.readers[t] = d /\ k.writer # t
      BY <1>2, <2>3 DEF Reads
    <3>2. ReadsLeft(Tail(s), o, d + 1) /\ d + 1 \in Nat \ {0} /\ (d + 1) - 1 = d
      BY <1>1, <1>2, <3>1, ReadsFirst
    <3>3. n.readers[t] = (IF t \in n.waiting THEN (d + 1) - 1 ELSE d + 1) /\ n.writer # t
      BY <1>5, <3>1, <3>2 DEF OthersSame
    <3>4. Reads(t, o)'
      BY <1>4, <3>2, <3>3 DEF Reads, n
    <3> QED  BY <1>7, <3>4 DEF Inside
  <2> QED  BY <1>2, <2>1, <2>2, <2>3
<1>9. LocksOK'
  BY <1>2, <1>4, <1>6, <1>8, StepKeeps DEF ThreadOK
<1>10. s[1].does \notin LocksPart!Writing \cup {"lock", "drain", "maintain"}
  BY <1>1 DEF LocksPart!Writing
<1> QED  BY <1>1, <1>2, <1>4, <1>6, <1>9, <1>10, MaintenanceKept

LEMMA RUnlockKeeps ==
    ASSUME LocksOK, MaintenanceOK, NEW t \in Thread, LocksPart!RUnlock(t)
    PROVE  LocksOK' /\ MaintenanceOK'
<1>0. PICK o : o = LocksPart!Object1(t)
  OBVIOUS
<1> DEFINE s == todo[t]
           k == mutex[o]
           m == LocksPart!Locks!RUnlock(k, t)
<1>1. /\ ~LocksPart!Idle(t) /\ ~LocksPart!Waits(t) /\ s[1].does = "runlock"
      /\ Moves(t, m) /\ Status' = Status
  BY <1>0 DEF LocksPart!RUnlock, LocksPart!At, Moves, LocksPart!dataVars
<1>2. /\ LockTypes /\ ThreadOK(t) /\ o \in LocksPart!Object /\ s \in Seq(Steps)
      /\ s # <<>> /\ Len(s) > 0
      /\ t \notin k.waiting /\ k.readers[t] > 0
      /\ \A p \in LocksPart!Object \ {o} : Away(t, p)
      /\ Reads(t, o)
  BY <1>0, <1>1, WhoActs DEF LocksOK, LocksPart!Writing
<1> DEFINE n == mutex'[o]
<1>3. k \in LocksPart!Locks!Mutex /\ m \in LocksPart!Locks!Mutex
  BY <1>2, RUnlockIs DEF LockTypes
<1>4. /\ LockTypes' /\ n = m /\ \A p \in LocksPart!Object \ {o} : mutex'[p] = mutex[p]
      /\ todo'[t] = Tail(s) /\ \A u \in Thread \ {t} : todo'[u] = todo[u]
  BY <1>0, <1>1, <1>2, <1>3, MovesTypes
<1>5. /\ OthersSame(k, n, t)
      /\ n.readers[t] = k.readers[t] - 1 /\ t \notin n.waiting
      /\ k.readers[t] \in Nat
  BY <1>2, <1>3, <1>4, RUnlockIs, MutexFields
<1> HIDE DEF m, n
<1>6. \A u \in Thread \ {t} : \A p \in LocksPart!Object : SameFor(u, p)
  <2>1. n.readers[t] <= k.readers[t]
    BY <1>5
  <2> QED  BY <1>2, <1>4, <1>5, <2>1, OthersKeep DEF n
<1>7. \A p \in LocksPart!Object \ {o} : Away(t, p)'
  BY <1>2, <1>4, AwayElsewhere
<1>8. PICK d \in Nat \ {0} : ReadsLeft(s, o, d) /\ k.readers[t] = d /\ k.writer # t
  BY <1>2 DEF Reads
<1>9. IF d = 1 THEN Tail(s) = <<>> ELSE ReadsLeft(Tail(s), o, d - 1)
  BY <1>1, <1>2, <1>8, ReadsFirst
<1>10. n.readers[t] = d - 1 /\ n.writer # t
  BY <1>5, <1>8 DEF OthersSame
<1>11. ThreadOK(t)'
  <2>1. CASE d = 1
    <3>1. Away(t, o)'
      BY <1>5, <1>10, <2>1 DEF Away, n
    <3>2. \A p \in LocksPart!Object : Away(t, p)'
      BY <1>7, <3>1
    <3> QED  BY <1>4, <1>9, <2>1, <3>2 DEF ThreadOK, Outside
  <2>2. CASE d # 1
    <3>1. d - 1 \in Nat \ {0}
      BY <2>2
    <3>2. Reads(t, o)'
      BY <1>4, <1>5, <1>9, <1>10, <2>2, <3>1 DEF Reads, n
    <3> QED  BY <1>2, <1>7, <3>2 DEF ThreadOK, Inside
  <2> QED  BY <2>1, <2>2
<1>12. LocksOK'
  BY <1>2, <1>4, <1>6, <1>11, StepKeeps
<1>13. s[1].does \notin LocksPart!Writing \cup {"lock", "drain", "maintain"}
  BY <1>1 DEF LocksPart!Writing
<1> QED  BY <1>1, <1>2, <1>4, <1>6, <1>12, <1>13, MaintenanceKept

LEMMA LockKeeps ==
    ASSUME LocksOK, MaintenanceOK, NEW t \in Thread, LocksPart!Lock(t)
    PROVE  LocksOK' /\ MaintenanceOK'
<1>0. PICK o : o = LocksPart!Object1(t)
  OBVIOUS
<1> DEFINE s == todo[t]
           k == mutex[o]
           m == LocksPart!Locks!Lock(k, t)
<1>1. /\ ~LocksPart!Idle(t) /\ ~LocksPart!Waits(t) /\ s[1].does = "lock" /\ Moves(t, m)
      /\ Status' = Status
      /\ k.writer = NoThread
  BY <1>0 DEF LocksPart!Lock, LocksPart!At, Moves, LocksPart!dataVars, LocksPart!Locks!CanLock
<1>2. /\ LockTypes /\ ThreadOK(t) /\ o \in LocksPart!Object /\ s \in Seq(Steps)
      /\ s # <<>> /\ Len(s) > 0
      /\ t \notin k.waiting
      /\ \A p \in LocksPart!Object \ {o} : Away(t, p)
      /\ Away(t, o) /\ StartsWriting(s, o)
      /\ \A i \in 1 .. Len(s) : s[i].object = o
  BY <1>0, <1>1, WhoActs DEF LocksOK, LocksPart!Writing, InSection
<1> DEFINE n == mutex'[o]
<1>3. k \in LocksPart!Locks!Mutex /\ m \in LocksPart!Locks!Mutex
  BY <1>2, LockIs DEF LockTypes
<1>4. /\ LockTypes' /\ n = m /\ \A p \in LocksPart!Object \ {o} : mutex'[p] = mutex[p]
      /\ todo'[t] = Tail(s) /\ \A u \in Thread \ {t} : todo'[u] = todo[u]
  BY <1>0, <1>1, <1>2, <1>3, MovesTypes
<1>5. n.writer = t /\ n.readers = k.readers /\ n.waiting = k.waiting
  BY <1>3, <1>4, LockIs
<1> HIDE DEF m, n
<1>6. \A u \in Thread \ {t} : \A p \in LocksPart!Object : SameFor(u, p)
  <2> SUFFICES ASSUME NEW u \in Thread \ {t}, NEW p \in LocksPart!Object PROVE SameFor(u, p)
    OBVIOUS
  <2>1. CASE p # o
    BY <1>4, <2>1 DEF SameFor, NoReaders
  <2>2. CASE p = o
    BY <1>1, <1>5, <2>2 DEF SameFor, n
  <2> QED  BY <2>1, <2>2
<1>7. \A p \in LocksPart!Object \ {o} : Away(t, p)'
  BY <1>2, <1>4, AwayElsewhere
<1>8. Draining(t, o)'
  <2> DEFINE z == Tail(s)
  <2>1. Len(s) > 2 /\ s[2].does = "drain" /\ Section(Tail(z), o)
    BY <1>2 DEF StartsWriting
  <2>2. Len(z) > 0 /\ z[1] = s[2] /\ s[2].object = o
    <3>1. /\ Len(z) = Len(s) - 1 /\ \A i \in 1 .. Len(s) - 1 : z[i] = s[i + 1]
      BY <1>2, HeadTailProperties
    <3> HIDE DEF z
    <3>2. 1 \in 1 .. Len(s) - 1 /\ 2 \in 1 .. Len(s)
      BY <1>2, <2>1
    <3> QED  BY <1>2, <2>1, <3>1, <3>2
  <2> HIDE DEF z
  <2>3. todo'[t] = z
    BY <1>4 DEF z
  <2> QED  BY <1>2, <1>5, <2>1, <2>2, <2>3 DEF Draining, n
<1>9. LocksOK'
  BY <1>2, <1>4, <1>6, <1>7, <1>8, StepKeeps DEF ThreadOK, Inside
<1>10. ~InSection(t, "dashboard") /\ s[1].does \notin LocksPart!Writing \cup {"drain", "maintain"}
  <2>1. Away(t, "dashboard")
    BY <1>2, OnObjects
  <2>2. ~InSection(t, "dashboard")
    BY <2>1 DEF InSection, Away
  <2> QED  BY <1>1, <2>2 DEF LocksPart!Writing
<1> QED  BY <1>1, <1>2, <1>4, <1>6, <1>9, <1>10, MaintenanceKept

LEMMA DrainKeeps ==
    ASSUME LocksOK, MaintenanceOK, NEW t \in Thread, LocksPart!Drain(t)
    PROVE  LocksOK' /\ MaintenanceOK'
<1>0. PICK o : o = LocksPart!Object1(t)
  OBVIOUS
<1> DEFINE s == todo[t]
<1>1. /\ ~LocksPart!Idle(t) /\ ~LocksPart!Waits(t) /\ s[1].does = "drain" /\ Status' = Status
      /\ LocksPart!Continue(t) /\ mutex' = mutex /\ NoReaders(o)
  BY <1>0 DEF LocksPart!Drain, LocksPart!At, LocksPart!dataVars,
    LocksPart!Locks!HoldsWrite, NoReaders
<1>2. /\ LockTypes /\ ThreadOK(t) /\ o \in LocksPart!Object /\ s \in Seq(Steps)
      /\ s # <<>> /\ Len(s) > 0
      /\ t \notin mutex[o].waiting
      /\ \A p \in LocksPart!Object \ {o} : Away(t, p)
      /\ Draining(t, o)
  BY <1>0, <1>1, WhoActs DEF LocksOK, LocksPart!Writing
<1>4. /\ LockTypes'
      /\ todo'[t] = Tail(s) /\ \A u \in Thread \ {t} : todo'[u] = todo[u]
  <2>1. Tail(s) \in Seq(Steps)
    BY <1>2, HeadTailProperties
  <2> QED  BY <1>1, <1>2, <2>1 DEF LockTypes, LocksPart!Continue
<1>6. \A u \in Thread \ {t} : \A p \in LocksPart!Object : SameFor(u, p)
  BY <1>1 DEF SameFor, NoReaders
<1>7. \A p \in LocksPart!Object \ {o} : Away(t, p)'
  BY <1>1, <1>2 DEF Away
<1>8. InSection(t, o)'
  BY <1>1, <1>2, <1>4 DEF InSection, Draining, NoReaders
<1>9. LocksOK'
  BY <1>2, <1>4, <1>6, <1>7, <1>8, StepKeeps DEF ThreadOK, Inside
<1>10. s[1].does \notin LocksPart!Writing \cup {"lock", "maintain"} /\ s[1].object = o
  BY <1>0, <1>1 DEF LocksPart!Writing, LocksPart!Object1
<1> QED  BY <1>1, <1>2, <1>4, <1>6, <1>8, <1>9, <1>10, MaintenanceKept

LEMMA UnlockKeeps ==
    ASSUME LocksOK, MaintenanceOK, NEW t \in Thread, LocksPart!Unlock(t)
    PROVE  LocksOK' /\ MaintenanceOK'
<1>0. PICK o : o = LocksPart!Object1(t)
  OBVIOUS
<1> DEFINE s == todo[t]
           k == mutex[o]
           m == LocksPart!Locks!Unlock(k)
<1>1. /\ ~LocksPart!Idle(t) /\ ~LocksPart!Waits(t) /\ s[1].does = "unlock"
      /\ Moves(t, m) /\ Status' = Status
  BY <1>0 DEF LocksPart!Unlock, LocksPart!At, Moves, LocksPart!dataVars
<1>2. /\ LockTypes /\ ThreadOK(t) /\ o \in LocksPart!Object /\ s \in Seq(Steps)
      /\ s # <<>> /\ Len(s) > 0
      /\ t \notin k.waiting
      /\ \A p \in LocksPart!Object \ {o} : Away(t, p)
      /\ InSection(t, o)
  BY <1>0, <1>1, WhoActs DEF LocksOK, LocksPart!Writing
<1> DEFINE n == mutex'[o]
<1>3. k \in LocksPart!Locks!Mutex /\ m \in LocksPart!Locks!Mutex
  BY <1>2, UnlockIs DEF LockTypes
<1>4. /\ LockTypes' /\ n = m /\ \A p \in LocksPart!Object \ {o} : mutex'[p] = mutex[p]
      /\ todo'[t] = Tail(s) /\ \A u \in Thread \ {t} : todo'[u] = todo[u]
  BY <1>0, <1>1, <1>2, <1>3, MovesTypes
<1>5. /\ n.writer = NoThread /\ n.waiting = {} /\ k.writer = t
      /\ \A u \in Thread :
            n.readers[u] = IF u \in k.waiting THEN k.readers[u] + 1 ELSE k.readers[u]
  BY <1>2, <1>3, <1>4, UnlockIs DEF InSection
<1> HIDE DEF m, n
<1>6. \A u \in Thread \ {t} : \A p \in LocksPart!Object : SameFor(u, p) \/ Served(u, p)
  <2> SUFFICES ASSUME NEW u \in Thread \ {t}, NEW p \in LocksPart!Object
               PROVE  SameFor(u, p) \/ Served(u, p)
    OBVIOUS
  <2>1. CASE p # o
    BY <1>4, <2>1 DEF SameFor, NoReaders
  <2>2. CASE p = o /\ u \in k.waiting
    BY <1>5, <2>2 DEF Served, n
  <2>3. CASE p = o /\ u \notin k.waiting
    BY <1>5, <2>3 DEF SameFor, n
  <2> QED  BY <2>1, <2>2, <2>3
<1>7. \A p \in LocksPart!Object : Away(t, p)'
  <2>1. \A p \in LocksPart!Object \ {o} : Away(t, p)'
    BY <1>2, <1>4, AwayElsewhere
  <2>2. Away(t, o)'
    BY <1>2, <1>5 DEF InSection, NoReaders, Away, n
  <2> QED  BY <2>1, <2>2
<1>8. todo'[t] = <<>>
  <2>1. Len(s) = 1
    BY <1>1, <1>2, SectionFirst DEF InSection
  <2>2. Tail(s) \in Seq(Steps) /\ Len(Tail(s)) = 0
    BY <1>2, <2>1, HeadTailProperties
  <2>3. Tail(s) = <<>>
    BY <2>2, EmptySeq
  <2> QED  BY <1>4, <2>3
<1>9. LocksOK'
  BY <1>2, <1>4, <1>6, <1>7, <1>8, StepKeeps DEF ThreadOK, Outside
<1>10. s[1].does \notin LocksPart!Writing \cup {"lock", "drain", "maintain"}
  BY <1>1 DEF LocksPart!Writing
<1> QED  BY <1>1, <1>2, <1>4, <1>6, <1>9, <1>10, MaintenanceKept

LEMMA AccessKeeps ==
    ASSUME LocksOK, MaintenanceOK, NEW t \in Thread, LocksPart!Access(t)
    PROVE  LocksOK' /\ MaintenanceOK'
<1>0. PICK o : o = LocksPart!Object1(t)
  OBVIOUS
<1> DEFINE s == todo[t]
<1>1. /\ ~LocksPart!Idle(t) /\ ~LocksPart!Waits(t)
      /\ s[1].does \in LocksPart!Writing \cup {"reads", "peeks"}
      /\ LocksPart!Continue(t) /\ mutex' = mutex
      /\ Status' = [c \in Component |-> LocksPart!StatusAfter(s[1], c)]
  BY DEF LocksPart!Access
<1>2. /\ LockTypes /\ ThreadOK(t) /\ o \in LocksPart!Object /\ s \in Seq(Steps)
      /\ s # <<>> /\ Len(s) > 0
      /\ t \notin mutex[o].waiting
      /\ \A p \in LocksPart!Object \ {o} : Away(t, p)
      /\ \/ InSection(t, o) /\ s[1].does \in LocksPart!Writing
         \/ Reads(t, o) /\ s[1].does = "reads"
         \/ Away(t, o) /\ s[1].does = "peeks" /\ Len(s) = 1
  BY <1>0, <1>1, WhoActs DEF LocksOK, LocksPart!Writing, StartsPeeking
<1>4. /\ LockTypes'
      /\ todo'[t] = Tail(s) /\ \A u \in Thread \ {t} : todo'[u] = todo[u]
  <2>1. Tail(s) \in Seq(Steps)
    BY <1>2, HeadTailProperties
  <2> QED  BY <1>1, <1>2, <2>1 DEF LockTypes, LocksPart!Continue
<1>6. \A u \in Thread \ {t} : \A p \in LocksPart!Object : SameFor(u, p)
  BY <1>1 DEF SameFor, NoReaders
<1>7. \A p \in LocksPart!Object \ {o} : Away(t, p)'
  BY <1>1, <1>2 DEF Away
<1>8. InSection(t, o) /\ s[1].does \in LocksPart!Writing => InSection(t, o)'
  <2>1. InSection(t, o) /\ s[1].does \in LocksPart!Writing => Section(Tail(s), o)
    BY <1>2, SectionFirst DEF InSection
  <2> QED  BY <1>1, <1>4, <2>1 DEF InSection, NoReaders
<1>9. Reads(t, o) /\ s[1].does = "reads" => Reads(t, o)'
  <2> SUFFICES ASSUME Reads(t, o), s[1].does = "reads" PROVE Reads(t, o)'
    OBVIOUS
  <2>1. PICK d \in Nat \ {0} : ReadsLeft(s, o, d) /\ mutex[o].readers[t] = d
    BY <1>2 DEF Reads
  <2>2. ReadsLeft(Tail(s), o, d)
    BY <1>2, <2>1, ReadsFirst
  <2> QED  BY <1>1, <1>2, <1>4, <2>1, <2>2 DEF Reads
<1>10. Away(t, o) /\ Len(s) = 1 => Outside(t)'
  <2> SUFFICES ASSUME Away(t, o), Len(s) = 1 PROVE Outside(t)'
    OBVIOUS
  <2>1. Tail(s) \in Seq(Steps) /\ Len(Tail(s)) = 0
    BY <1>2, HeadTailProperties
  <2>2. Tail(s) = <<>>
    BY <2>1, EmptySeq
  <2> QED  BY <1>1, <1>2, <1>4, <2>2 DEF Outside, Away
<1>11. LocksOK'
  BY <1>2, <1>4, <1>6, <1>7, <1>8, <1>9, <1>10, StepKeeps DEF ThreadOK, Inside
<1>12. /\ s[1].does \notin {"lock", "drain"}
       /\ s[1].does \in LocksPart!Writing => InSection(t, o) /\ InSection(t, o)'
       /\ s[1].object = o /\ s[1] \in Steps
       /\ s[1].does \in LocksPart!Writing /\ InSection(t, "dashboard") =>
            InSection(t, "dashboard")'
  <2>1. s[1].does \notin {"lock", "drain"}
    BY <1>1 DEF LocksPart!Writing
  <2>2. s[1].does \in LocksPart!Writing => InSection(t, o) /\ InSection(t, o)'
    BY <1>2, <1>8 DEF LocksPart!Writing
  <2>3. s[1].object = o /\ s[1] \in Steps
    BY <1>0, <1>2 DEF LocksPart!Object1
  <2>4. InSection(t, "dashboard") /\ InSection(t, o) => o = "dashboard"
    BY <1>2, OnObjects DEF InSection, Away
  <2> QED  BY <2>1, <2>2, <2>3, <2>4
<1>13. MaintenanceOK'
  <2>1. /\ UpdateOK(t)' /\ s[1].does # "restore"
        /\ s[1].does = "maintain" =>
             \E d \in Name : s[1] = LocksPart!StepOn("maintain", "dashboard", d)
        /\ \A c \in Name :
             AtWork(todo'[t], c) <=>
               AtWork(s, c) \/ s[1] = LocksPart!StepOn("maintain", "dashboard", c)
    BY <1>2, <1>4, <1>12, UpdateMovesOn DEF MaintenanceOK
  <2>2. /\ \A u \in Thread \ {t} : UpdateOK(u)'
        /\ \A u \in Thread \ {t}, c \in Component : AtWork(todo'[u], c) <=> AtWork(todo[u], c)
    BY <1>4, <1>6, OthersUpdate
  <2>3. Component \subseteq Name /\ Status \in [Component -> {"healthy", "maintenance"}]
        /\ \A c \in Component : Status[c] = "maintenance" <=> \E u \in Thread : AtWork(todo[u], c)
    BY DEF MaintenanceOK, ShownOK
  <2>4. CASE s[1].does = "maintain"
    <3>1. PICK d \in Name : s[1] = LocksPart!StepOn("maintain", "dashboard", d)
      BY <2>1, <2>4
    <3>2. \A c \in Name : s[1] = LocksPart!StepOn("maintain", "dashboard", c) <=> c = d
      <4>1. \A c \in Name : LocksPart!StepOn("maintain", "dashboard", c).on = c
        BY DEF LocksPart!StepOn
      <4> QED  BY <3>1, <4>1
    <3>3. \A c \in Component : Status'[c] = IF c = d THEN "maintenance" ELSE Status[c]
      <4>1. s[1].on = d
        BY <3>1 DEF LocksPart!StepOn
      <4> QED  BY <1>1, <2>4, <4>1 DEF LocksPart!StatusAfter
    <3>4. Status' \in [Component -> {"healthy", "maintenance"}]
      BY <1>1, <2>3, <3>3
    <3>5. ASSUME NEW c \in Component
          PROVE  Status'[c] = "maintenance" <=> \E u \in Thread : AtWork(todo'[u], c)
      <4>1. AtWork(todo'[t], c) <=> AtWork(s, c) \/ c = d
        BY <2>1, <2>3, <3>2
      <4>2. (\E u \in Thread : AtWork(todo'[u], c)) <=>
              (\E u \in Thread : AtWork(todo[u], c)) \/ c = d
        BY <2>2, <4>1
      <4> QED  BY <2>3, <3>3, <4>2
    <3> QED  BY <2>1, <2>2, <3>4, <3>5 DEF MaintenanceOK, ShownOK
  <2>5. CASE s[1].does = "check"
    <3>1. InSection(t, "dashboard")
      BY <1>12, <2>5 DEF Steps, LocksPart!Writing
    <3>2. \A c \in Component : Status'[c] = "healthy"
      BY <1>1, <2>5 DEF LocksPart!StatusAfter
    <3>3. ASSUME NEW u \in Thread, NEW c \in Component, AtWork(todo'[u], c) PROVE FALSE
      <4>1. AtWork(todo[u], c)
        <5>1. \A e \in Name : s[1] # LocksPart!StepOn("maintain", "dashboard", e)
          BY <2>5 DEF LocksPart!StepOn
        <5> QED  BY <2>1, <2>2, <2>3, <3>3, <5>1
      <4>2. PICK n \in {6, 7} : UpdateLeft(todo[u], c, n)
        BY <4>1 DEF AtWork
      <4>3. todo[u] \in Seq(Steps) /\ UpdateOK(u)
        BY <1>2 DEF LockTypes, MaintenanceOK
      <4>4. InSection(u, "dashboard")
        <5>1. ~Quiet(todo[u])
          BY <2>3, <4>1, <4>3, QuietOnes
        <5>2. PICK d \in Name, k \in 6 .. 10 :
                UpdateLeft(todo[u], d, k) /\ (k < 9 => InSection(u, "dashboard"))
          BY <4>3, <5>1 DEF UpdateOK
        <5>3. k = n
          BY <4>2, <5>2 DEF UpdateLeft
        <5> QED  BY <5>2, <5>3
      <4>5. u = t
        BY <3>1, <4>4 DEF InSection
      <4>6. s[1].does \in {"lock", "dequeue"}
        BY <2>3, <4>2, <4>3, <4>5, UpdateFirst
      <4> QED  BY <2>5, <4>6
    <3>4. Status' \in [Component -> {"healthy", "maintenance"}]
      BY <1>1, <3>2
    <3> QED  BY <2>1, <2>2, <3>2, <3>3, <3>4 DEF MaintenanceOK, ShownOK
  <2>6. CASE s[1].does \notin {"maintain", "check"}
    <3>1. Status' = Status
      <4>1. \A c \in Component : LocksPart!StatusAfter(s[1], c) = Status[c]
        BY <2>1, <2>6 DEF LocksPart!StatusAfter
      <4> QED  BY <1>1, <2>3, <4>1
    <3> QED  BY <1>2, <1>4, <1>6, <1>11, <1>12, <2>6, <3>1, MaintenanceKept
  <2> QED  BY <2>4, <2>5, <2>6
<1> QED  BY <1>11, <1>13

LEMMA CallKeeps ==
    ASSUME LocksOK, MaintenanceOK, NEW t \in Thread, LocksPart!Call(t)
    PROVE  LocksOK' /\ MaintenanceOK'
<1>1. PICK m \in LocksPart!Method : todo' = [todo EXCEPT ![t] = m]
  BY DEF LocksPart!Call
<1>2. todo[t] = <<>> /\ mutex' = mutex /\ Status' = Status /\ LockTypes /\ ThreadOK(t)
  BY DEF LocksPart!Call, LocksPart!Idle, LocksPart!dataVars, LocksOK
<1>3. PICK o \in LocksPart!Object : Starts(m, o)
  BY MethodsStart
<1>4. LockTypes' /\ todo'[t] = m /\ \A u \in Thread \ {t} : todo'[u] = todo[u]
  BY <1>1, <1>2, <1>3 DEF LockTypes, Starts
<1>5. todo[t] \in Seq(Steps) /\ Len(todo[t]) = 0
  BY <1>2
<1>6. \A p : ~Inside(t, p) /\ ~InSection(t, p)
  BY <1>5, SectionFirst, ReadsFirst DEF Inside, Draining, InSection, Stuck, Reads
<1>7. Outside(t)'
  BY <1>2, <1>3, <1>4, <1>6 DEF ThreadOK, Outside, Away
<1>8. \A u \in Thread \ {t} : \A p \in LocksPart!Object : SameFor(u, p)
  BY <1>2 DEF SameFor, NoReaders
<1>9. LocksOK'
  BY <1>4, <1>7, <1>8, StepKeeps DEF ThreadOK
<1>10. UpdateOK(t)' /\ \A c \in Component : ~AtWork(todo[t], c) /\ ~AtWork(todo'[t], c)
  <2>1. m \in Seq(Steps) /\ <<>> \in Seq(Steps) /\ Quiet(<<>>)
    BY <1>3 DEF Starts, Quiet
  <2>2. \A c \in Component : ~AtWork(todo[t], c)
    BY <1>2, <2>1, QuietOnes
  <2>3. CASE Quiet(m)
    <3>1. \A c \in Component : ~AtWork(m, c)
      BY <2>1, <2>3, QuietOnes
    <3> QED  BY <1>4, <2>2, <2>3, <3>1 DEF UpdateOK
  <2>4. CASE \E d \in Name : m = LocksPart!ExecuteUpdate(d)
    <3>1. PICK d \in Name : m = LocksPart!ExecuteUpdate(d)
      BY <2>4
    <3>2. UpdateLeft(m, d, 10)
      <4>1. Len(m) = 10
        BY <3>1, ExecuteIs
      <4>2. \A i \in 1 .. 10 : m[i] = LocksPart!ExecuteUpdate(d)[10 - 10 + i]
        BY <3>1
      <4> QED  BY <4>1, <4>2 DEF UpdateLeft
    <3>3. UpdateOK(t)'
      <4>1. 10 \in 6 .. 10 /\ ~(10 < 9)
        OBVIOUS
      <4> QED  BY <1>4, <3>2, <4>1 DEF UpdateOK
    <3>4. \A c \in Component : ~AtWork(m, c)
      BY <2>1, <3>2, AtWorkIs
    <3> QED  BY <1>4, <2>2, <3>3, <3>4
  <2> QED  BY <2>3, <2>4, MethodsQuiet
<1>11. /\ \A u \in Thread \ {t} : UpdateOK(u)'
       /\ \A u \in Thread \ {t}, c \in Component : AtWork(todo'[u], c) <=> AtWork(todo[u], c)
  BY <1>4, <1>8, OthersUpdate
<1>12. \A u \in Thread, c \in Component : AtWork(todo'[u], c) <=> AtWork(todo[u], c)
  BY <1>10, <1>11
<1>13. ShownOK'
  BY <1>2, <1>12 DEF MaintenanceOK, ShownOK
<1> QED  BY <1>9, <1>10, <1>11, <1>13 DEF MaintenanceOK

-----------------------------------------------------------------------------
LEMMA LocksInit == LocksPart!Init => LocksOK /\ MaintenanceOK
<1> SUFFICES ASSUME LocksPart!Init PROVE LocksOK /\ MaintenanceOK
  OBVIOUS
<1>1. LocksPart!Locks!Unlocked \in LocksPart!Locks!Mutex
  BY DEF LocksPart!Locks!Unlocked, LocksPart!Locks!Mutex
<1>2. LockTypes
  <2>1. mutex \in [LocksPart!Object -> LocksPart!Locks!Mutex]
    BY <1>1 DEF LocksPart!Init
  <2>2. todo \in [Thread -> Seq(Steps)]
    BY DEF LocksPart!Init
  <2> QED  BY <2>1, <2>2 DEF LockTypes
<1>3. ASSUME NEW t \in Thread PROVE Outside(t)
  BY DEF LocksPart!Init, Outside, Away, LocksPart!Locks!Unlocked
<1>4. MaintenanceOK
  <2>1. Quiet(<<>>) /\ <<>> \in Seq(Steps)
    BY DEF Quiet
  <2>2. \A t \in Thread : todo[t] = <<>>
    BY DEF LocksPart!Init
  <2>3. /\ \A c \in Component, t \in Thread : ~AtWork(todo[t], c)
        /\ \A t \in Thread : UpdateOK(t)
    BY <2>1, <2>2, QuietOnes DEF UpdateOK
  <2> QED  BY <2>3 DEF LocksPart!Init, MaintenanceOK, ShownOK
<1> QED  BY <1>2, <1>3, <1>4 DEF LocksOK, ThreadOK

LEMMA LocksKeep == LocksOK /\ MaintenanceOK /\ LocksPart!Next => LocksOK' /\ MaintenanceOK'
BY CallKeeps, RLockKeeps, RUnlockKeeps, LockKeeps, DrainKeeps, UnlockKeeps, AccessKeeps
DEF LocksPart!Next, LocksPart!Go

LEMMA LocksIdle ==
    LocksOK /\ MaintenanceOK /\ UNCHANGED locks => LocksOK' /\ MaintenanceOK'
<1> SUFFICES ASSUME LocksOK, MaintenanceOK, UNCHANGED locks
             PROVE  LocksOK' /\ MaintenanceOK'
  OBVIOUS
<1>1. mutex' = mutex /\ todo' = todo /\ Status' = Status
  BY DEF locks
<1>2. LocksOK'
  BY <1>1 DEF LocksOK, LockTypes, ThreadOK, Outside, Inside, Away, Draining,
    InSection, Stuck, Reads, NoReaders
<1>3. MaintenanceOK'
  BY <1>1 DEF MaintenanceOK, ShownOK, UpdateOK, InSection, NoReaders
<1> QED  BY <1>2, <1>3

LEMMA NoRaceIn == LocksOK => RaceFree
<1> SUFFICES ASSUME LocksOK, NEW t \in Thread, NEW u \in Thread, NEW w \in LocksPart!Writing,
                    NEW x \in LocksPart!Writing \cup {"reads", "peeks"}, t # u,
                    LocksPart!At(t, w), LocksPart!At(u, x),
                    LocksPart!Object1(t) = LocksPart!Object1(u), x # "peeks"
             PROVE  FALSE
  BY DEF RaceFree, LocksPart!RaceFree
<1>1. /\ LockTypes /\ ThreadOK(t) /\ ThreadOK(u) /\ ~LocksPart!Idle(t)
      /\ ~LocksPart!Idle(u) /\ ~LocksPart!Waits(t) /\ ~LocksPart!Waits(u)
      /\ todo[t][1].does = w /\ todo[u][1].does = x
  BY DEF LocksOK, LocksPart!At
<1>2. InSection(t, LocksPart!Object1(t))
  BY <1>1, WhoActs DEF LocksPart!Writing
<1>3. InSection(u, LocksPart!Object1(u)) \/ mutex[LocksPart!Object1(u)].readers[u] > 0
  BY <1>1, WhoActs DEF LocksPart!Writing
<1> QED  BY <1>2, <1>3 DEF InSection, NoReaders

\* The update that somebody is at.
LEMMA UpdatingIs ==
    ASSUME LocksOK, MaintenanceOK, NEW t \in Thread, NEW c \in Component
    PROVE  LocksPart!Updating(t, c) <=> AtWork(todo[t], c)
<1> DEFINE s == todo[t]
           re(x) == LocksPart!StepOn("restore", "dashboard", x)
           ma(x) == LocksPart!StepOn("maintain", "dashboard", x)
<1>1. s \in Seq(Steps) /\ DOMAIN s = 1 .. Len(s) /\ c \in Name
  BY DEF LocksOK, LockTypes
<1>2. /\ \A x \in Name : re(x).does = "restore" /\ re(x).on = x
      /\ \A x \in Name : ma(x).does = "maintain" /\ ma(x).on = x
  BY DEF LocksPart!StepOn
<1>3. LocksPart!Updating(t, c) <=>
        /\ \E i \in 1 .. Len(s) : s[i] = re(c)
        /\ ~\E i \in 1 .. Len(s) : s[i] = ma(c)
  BY <1>1 DEF LocksPart!Updating, LocksPart!HasLeft
<1>4. CASE Quiet(s)
  <2> HIDE DEF re, ma
  <2>1. ~\E i \in 1 .. Len(s) : s[i] = re(c)
    BY <1>1, <1>2, <1>4 DEF Quiet
  <2> QED  BY <1>1, <1>3, <1>4, <2>1, QuietOnes
<1>5. ASSUME NEW d \in Name, NEW n \in 6 .. 10, UpdateLeft(s, d, n)
      PROVE  LocksPart!Updating(t, c) <=> AtWork(s, c)
  <2> DEFINE e == LocksPart!ExecuteUpdate(d)
  <2>1. /\ e[3] = ma(d) /\ e[9] = re(d)
        /\ \A i \in 1 .. 10 : /\ e[i].does = "maintain" => i = 3
                              /\ e[i].does = "restore" => i = 9
    BY ExecuteIs
  <2> HIDE DEF re, ma
  <2>2. Len(s) = n /\ \A i \in 1 .. n : s[i] = e[10 - n + i] /\ 10 - n + i \in 1 .. 10
    BY <1>5 DEF UpdateLeft
  <2> HIDE DEF e
  <2>3. AtWork(s, c) <=> n \in {6, 7} /\ d = c
    BY <1>1, <1>5, AtWorkIs
  <2>4. (\E i \in 1 .. n : s[i] = re(c)) <=> d = c
    <3>1. n - 1 \in 1 .. n /\ 10 - n + (n - 1) = 9
      OBVIOUS
    <3>2. s[n - 1] = re(d)
      BY <2>1, <2>2, <3>1
    <3>3. ASSUME NEW i \in 1 .. n, s[i] = re(c) PROVE d = c
      <4> DEFINE j == 10 - n + i
      <4>1. s[i] = e[j] /\ j \in 1 .. 10
        BY <2>2
      <4> HIDE DEF j
      <4>2. e[j].does = "restore"
        <5>1. re(c).does = "restore"
          BY <1>1, <1>2
        <5> QED  BY <3>3, <4>1, <5>1
      <4>3. j = 9
        BY <2>1, <4>1, <4>2
      <4>4. re(c) = re(d)
        BY <2>1, <3>3, <4>1, <4>3
      <4>5. re(c).on = c /\ re(d).on = d
        BY <1>1, <1>2
      <4> QED  BY <4>4, <4>5
    <3> QED  BY <3>1, <3>2, <3>3
  <2>5. (\E i \in 1 .. n : s[i] = ma(c)) <=> d = c /\ n >= 8
    <3>1. ASSUME n >= 8 PROVE n - 7 \in 1 .. n /\ s[n - 7] = ma(d)
      <4>1. n - 7 \in 1 .. n /\ 10 - n + (n - 7) = 3
        BY <3>1
      <4> QED  BY <2>1, <2>2, <4>1
    <3>2. ASSUME NEW i \in 1 .. n, s[i] = ma(c) PROVE d = c /\ n >= 8
      <4> DEFINE j == 10 - n + i
      <4>1. s[i] = e[j] /\ j \in 1 .. 10 /\ (j = 3 => n >= 8)
        BY <2>2
      <4> HIDE DEF j
      <4>2. e[j].does = "maintain"
        <5>1. ma(c).does = "maintain"
          BY <1>1, <1>2
        <5> QED  BY <3>2, <4>1, <5>1
      <4>3. j = 3
        BY <2>1, <4>1, <4>2
      <4>4. ma(c) = ma(d)
        BY <2>1, <3>2, <4>1, <4>3
      <4>5. ma(c).on = c /\ ma(d).on = d
        BY <1>1, <1>2
      <4>6. n >= 8
        BY <4>1, <4>3
      <4> QED  BY <4>4, <4>5, <4>6
    <3> QED  BY <3>1, <3>2
  <2>6. LocksPart!Updating(t, c) <=> d = c /\ ~(d = c /\ n >= 8)
    BY <1>3, <2>2, <2>4, <2>5
  <2>7. ~(n >= 8) <=> n \in {6, 7}
    OBVIOUS
  <2> QED  BY <2>3, <2>6, <2>7
<1> QED  BY <1>4, <1>5 DEF MaintenanceOK, UpdateOK

LEMMA ShownIn == LocksOK /\ MaintenanceOK => MaintenanceShown
<1> SUFFICES ASSUME LocksOK, MaintenanceOK PROVE MaintenanceShown
  OBVIOUS
<1>1. \A c \in Component :
        Status[c] = "maintenance" <=> \E t \in Thread : LocksPart!Updating(t, c)
  BY UpdatingIs DEF MaintenanceOK, ShownOK
<1>2. ASSUME NEW t \in Thread, LocksPart!At(t, "reads"), LocksPart!Object1(t) = "dashboard",
             NEW c \in Component, Status[c] # "healthy"
      PROVE  FALSE
  <2>1. /\ LockTypes /\ ThreadOK(t) /\ ~LocksPart!Idle(t) /\ ~LocksPart!Waits(t)
        /\ todo[t][1].does = "reads"
    BY <1>2 DEF LocksOK, LocksPart!At
  <2>2. mutex["dashboard"].readers[t] > 0
    BY <1>2, <2>1, WhoActs DEF LocksPart!Writing
  <2>3. PICK u \in Thread : AtWork(todo[u], c)
    BY <1>2 DEF MaintenanceOK, ShownOK
  <2>4. InSection(u, "dashboard")
    <3>1. todo[u] \in Seq(Steps) /\ UpdateOK(u)
      BY <2>1 DEF LockTypes, MaintenanceOK
    <3>2. ~Quiet(todo[u])
      BY <2>3, <3>1, QuietOnes
    <3>3. PICK d \in Name, k \in 6 .. 10 :
            UpdateLeft(todo[u], d, k) /\ (k < 9 => InSection(u, "dashboard"))
      BY <3>1, <3>2 DEF UpdateOK
    <3>4. k \in {6, 7}
      BY <2>3, <3>1, <3>3, AtWorkIs
    <3> QED  BY <3>3, <3>4
  <2> QED  BY <2>2, <2>4 DEF InSection, NoReaders
<1> QED  BY <1>1, <1>2 DEF MaintenanceShown, LocksPart!MaintenanceShown

-----------------------------------------------------------------------------
(* All of them.                                                            *)

ServicesOK ==
    /\ AddonsPart!AddonsOK /\ FraudPart!FraudOK /\ AlertsOK /\ ExchangePart!ExchangeOK
    /\ CardsPart!CardsOK /\ MerchantOK
    /\ LocksOK /\ MaintenanceOK

\* What a step leaves alone stays as it should be.
LEMMA OthersIdle ==
    ASSUME ServicesOK
    PROVE  /\ UNCHANGED fraud => FraudPart!FraudOK'
           /\ UNCHANGED exchange => ExchangePart!ExchangeOK'
           /\ UNCHANGED card => CardsPart!CardsOK'
           /\ UNCHANGED merchant => MerchantOK'
           /\ UNCHANGED locks => LocksOK' /\ MaintenanceOK'
           /\ UNCHANGED addons /\ second' \in AddonsPart!Second => AddonsPart!AddonsOK'
           /\ UNCHANGED alert /\ second' \in Nat => AlertsOK'
<1>1. UNCHANGED fraud => FraudPart!FraudOK'
  BY FraudIdle DEF ServicesOK
<1>2. UNCHANGED exchange => ExchangePart!ExchangeOK'
  BY ExchangeIdle DEF ServicesOK
<1>3. UNCHANGED card => CardsPart!CardsOK'
  BY CardsIdle DEF ServicesOK
<1>5. UNCHANGED addons /\ second' \in AddonsPart!Second => AddonsPart!AddonsOK'
  BY AddonsIdle DEF ServicesOK
<1>6. UNCHANGED alert /\ second' \in Nat => AlertsOK'
  BY AlertsIdle DEF ServicesOK
<1>7. UNCHANGED merchant => MerchantOK'
  BY MerchantIdle DEF ServicesOK
<1>9. UNCHANGED locks => LocksOK' /\ MaintenanceOK'
  BY LocksIdle DEF ServicesOK
<1> QED  BY <1>1, <1>2, <1>3, <1>5, <1>6, <1>7, <1>9

LEMMA SecondIsNat ==
    ASSUME ServicesOK
    PROVE  second \in AddonsPart!Second /\ AddonsPart!Second \subseteq Nat
BY DEF ServicesOK, AddonsPart!AddonsOK, AddonsPart!TypeOK, AddonsPart!Second

\* The clock that alerts and add-ons share stays within its bound.
LEMMA AlertsKeepTime ==
    ASSUME ServicesOK, AlertsPart!Next
    PROVE  second' \in AddonsPart!Second
<1>1. CASE AlertsPart!Tick
  BY <1>1, SecondIsNat DEF AlertsPart!Tick, AddonsPart!Second
<1>2. CASE UNCHANGED second
  BY <1>2, SecondIsNat
<1> QED
  BY <1>1, <1>2 DEF AlertsPart!Next, AlertsPart!SendAlert, AlertsPart!Unsubscribe,
    AlertsPart!Subscribe, AlertsPart!Receive, AlertsPart!ResolveAlert

LEMMA ServicesInit == Init => ServicesOK
<1>1. AlertsPart!Init => AlertsOK
  BY AlertsInit
<1> QED
  BY <1>1, AddonsInit, FraudInit, ExchangeInit, CardsInit, MerchantInit, LocksInit
  DEF Init, ServicesOK

LEMMA ServicesKeep ==
    ASSUME ServicesOK, [Next]_vars
    PROVE  ServicesOK'
<1>1. CASE UNCHANGED vars
  BY <1>1, OthersIdle, SecondIsNat DEF vars, ServicesOK
<1>2. CASE AddonsPart!Next /\ UNCHANGED <<fraud, alert, exchange, card, merchant, locks>>
  <2>1. AddonsPart!AddonsOK'
    BY <1>2, AddonsKeep DEF ServicesOK
  <2>2. second' \in Nat
    BY <2>1 DEF AddonsPart!AddonsOK, AddonsPart!TypeOK, AddonsPart!Second
  <2> QED  BY <1>2, <2>1, <2>2, OthersIdle DEF ServicesOK
<1>3. CASE AlertsPart!Next /\ UNCHANGED <<addons, fraud, exchange, card, merchant, locks>>
  <2>1. AlertsOK' /\ second' \in AddonsPart!Second
    BY <1>3, AlertsKeep, AlertsKeepTime DEF ServicesOK
  <2> QED  BY <1>3, <2>1, OthersIdle DEF ServicesOK
<1>4. CASE FraudPart!Next /\ UNCHANGED <<second, addons, alert, exchange, card, merchant, locks>>
  <2>1. FraudPart!FraudOK'
    BY <1>4, FraudKeeps DEF ServicesOK
  <2> QED  BY <1>4, <2>1, OthersIdle, SecondIsNat DEF ServicesOK
<1>5. CASE ExchangePart!Next /\ UNCHANGED <<second, addons, fraud, alert, card, merchant, locks>>
  <2>1. ExchangePart!ExchangeOK'
    BY <1>5, ExchangeKeeps DEF ServicesOK
  <2> QED  BY <1>5, <2>1, OthersIdle, SecondIsNat DEF ServicesOK
<1>6. CASE CardsPart!Next /\ UNCHANGED <<second, addons, fraud, alert, exchange, merchant, locks>>
  <2>1. CardsPart!CardsOK'
    BY <1>6, CardsKeep DEF ServicesOK
  <2> QED  BY <1>6, <2>1, OthersIdle, SecondIsNat DEF ServicesOK
<1>8. CASE MerchantPart!Next /\ UNCHANGED <<second, addons, fraud, alert, exchange, card, locks>>
  <2>1. MerchantOK'
    BY <1>8, MerchantKeeps DEF ServicesOK
  <2> QED  BY <1>8, <2>1, OthersIdle, SecondIsNat DEF ServicesOK
<1>10. CASE LocksPart!Next /\ UNCHANGED <<second, addons, fraud, alert, exchange, card, merchant>>
  <2>1. LocksOK' /\ MaintenanceOK'
    BY <1>10, LocksKeep DEF ServicesOK
  <2> QED  BY <1>10, <2>1, OthersIdle, SecondIsNat DEF ServicesOK
<1> QED
  BY <1>1, <1>2, <1>3, <1>4, <1>5, <1>6, <1>8, <1>10 DEF Next

(* The inductive invariant: what each service needs to know of itself.     *)
THEOREM ServicesInvariant == Spec => []ServicesOK
<1>1. Init => ServicesOK
  BY ServicesInit
<1>2. ServicesOK /\ [Next]_vars => ServicesOK'
  BY ServicesKeep
<1> QED  BY <1>1, <1>2, PTL DEF Spec

(* With any number of modules and callers, the registry's record of what   *)
(* is enabled is what the modules say, except for those that refused to    *)
(* stop, and a call runs in an enabled module only (module_registry.go).   *)
THEOREM RegistryIsRight == Spec => []RecordAgrees
<1>1. ServicesOK => RecordAgrees
  BY DEF ServicesOK, AddonsPart!AddonsOK, RecordAgrees
<1> QED  BY <1>1, ServicesInvariant, PTL

(* No offer is lent twice, with any number of borrowers at the same time   *)
(* (lending_module.go, CreateLoan).                                        *)
THEOREM OffersLentOnce == Spec => []OneLoanPerOffer
<1>1. ServicesOK => OneLoanPerOffer
  BY DEF ServicesOK, AddonsPart!AddonsOK, OneLoanPerOffer
<1> QED  BY <1>1, ServicesInvariant, PTL

(* An offer and a loan of an earlier second change by being filled and by  *)
(* being paid back, and in no other way (lending_module.go).               *)
THEOREM LendingMovesOn == Spec => RecordsMoveOn
<1>1. ServicesOK /\ [Next]_vars =>
        [\A t \in AddonsPart!Second \ {second} :
           /\ offers'[t] # offers[t] =>
                offers[t] # None /\ offers[t].status = "available"
                /\ offers'[t] = [offers[t] EXCEPT !.status = "filled"]
           /\ loans'[t] # loans[t] =>
                loans[t] # None /\ loans[t].status = "active"
                /\ loans'[t] = [loans[t] EXCEPT !.status = "repaid"]]_(AddonsPart!vars)
  <2>1. CASE UNCHANGED <<offers, loans>>
    BY <2>1
  <2>2. ASSUME ServicesOK, AddonsPart!Next
        PROVE  \A t \in AddonsPart!Second \ {second} :
           /\ offers'[t] # offers[t] =>
                offers[t] # None /\ offers[t].status = "available"
                /\ offers'[t] = [offers[t] EXCEPT !.status = "filled"]
           /\ loans'[t] # loans[t] =>
                loans[t] # None /\ loans[t].status = "active"
                /\ loans'[t] = [loans[t] EXCEPT !.status = "repaid"]
    BY <2>2, AddonsMoveOn DEF ServicesOK
  <2>3. [Next]_vars => AddonsPart!Next \/ UNCHANGED <<offers, loans>>
    BY DEF Next, vars, addons
  <2> QED  BY <2>1, <2>2, <2>3
<1> QED  BY <1>1, ServicesInvariant, PTL DEF Spec, RecordsMoveOn, AddonsPart!RecordsMoveOn

(* A sender has no more suspicious transactions than the threshold and one *)
(* for every time it was unblocked (security.go, CheckTransaction).        *)
THEOREM StrikesCount == Spec => []StrikesBounded
<1>1. ServicesOK => StrikesBounded
  BY DEF ServicesOK, FraudPart!FraudOK, StrikesBounded
<1> QED  BY <1>1, ServicesInvariant, PTL

(* No alert is sent on a closed channel, and a subscriber gets alerts of   *)
(* its own address in their order, for any capacity (security.go).         *)
THEOREM SubscribersAreServed == Spec => []SubscribersServed
<1>1. ServicesOK => SubscribersServed
  BY AlertsOKMeans DEF ServicesOK, SubscribersServed
<1> QED  BY <1>1, ServicesInvariant, PTL

(* An alert that was resolved by its ID and still is open has an earlier   *)
(* twin of the same second (security.go, ResolveAlert).                    *)
THEOREM TwinsAlone == Spec => []OnlyTwinsLinger
<1>1. ServicesOK => OnlyTwinsLinger
  BY AlertsOKMeans DEF ServicesOK, OnlyTwinsLinger
<1> QED  BY <1>1, ServicesInvariant, PTL

(* An order shows amounts and rates that were in force while it was made,  *)
(* and a rate and its reverse always belong together (exchange.go).        *)
THEOREM OrdersArePriced == Spec => []OrdersPricedInForce
<1>1. ServicesOK => OrdersPricedInForce
  BY DEF ServicesOK, ExchangePart!ExchangeOK, OrdersPricedInForce
<1> QED  BY <1>1, ServicesInvariant, PTL

(* A card holds what was paid in and not spent, and never a debt, and no   *)
(* more than the limit is spent between two resets (cards.go).             *)
THEOREM CardsAreRight == Spec => []CardsBalance
<1>1. ServicesOK => CardsBalance
  BY DEF ServicesOK, CardsPart!CardsOK, CardsBalance
<1> QED  BY <1>1, ServicesInvariant, PTL

(* A merchant's total is what its completed requests and its mobile        *)
(* payments come to, for any number of requests and of readers that expire *)
(* them while they are paid (merchant.go, CompletePaymentRequest).         *)
THEOREM TotalsDoAgree == Spec => []TotalsAgree
<1>1. ServicesOK => TotalsAgree
  BY MerchantAgrees DEF ServicesOK
<1> QED  BY <1>1, ServicesInvariant, PTL

(* However the methods of the dashboard, the security settings and the     *)
(* history call each other, with any number of threads, two never meet on  *)
(* an object's data if one of them writes; only what was handed out to a   *)
(* caller can be read meanwhile (wallet/dashboard.go, wallet/security.go,  *)
(* wallet/transactions.go).                                                *)
THEOREM NoRaces == Spec => []RaceFree
<1>1. ServicesOK => RaceFree
  BY NoRaceIn DEF ServicesOK
<1> QED  BY <1>1, ServicesInvariant, PTL

(* A component shows that it is in maintenance exactly while an update of  *)
(* it has begun and is not over, to whoever holds the live map; the        *)
(* methods that read under the lock never find it so: whoever put it there *)
(* holds the write lock (wallet/dashboard.go, ExecuteUpdate).              *)
THEOREM MaintenanceIsShown == Spec => []MaintenanceShown
<1>1. ServicesOK => MaintenanceShown
  BY ShownIn DEF ServicesOK
<1> QED  BY <1>1, ServicesInvariant, PTL

=============================================================================

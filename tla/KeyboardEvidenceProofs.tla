----------------------- MODULE KeyboardEvidenceProofs -----------------------
(***************************************************************************)
(* The interlocks hold for all periods and timeouts, the guard of the      *)
(* review for all limits, and both of a node that has either.              *)
(***************************************************************************)
EXTENDS KeyboardEvidence, SequenceTheorems, TLAPS

-----------------------------------------------------------------------------
(* The interlocks.  The invariant that carries MotionIsSupervised says     *)
(* that a lapse is never older than the last poll: a poll that finds the   *)
(* evidence missing ends the motion, one that finds it ends the lapse.     *)

USE PeriodsAssumption DEF Periods

LapseIsYoung == exposed <= sincePoll

Inv == TypeOK /\ LapseIsYoung /\ ContactStops

(* The clocks are the six that Limit names.                                *)
LEMMA ClocksAre ==
  /\ Clocks = {"wrench", "reference", "joints", "verified", "request", "outage"}
  /\ \A c \in Clocks : Limit[c] \in Nat /\ Stale(c) \in Nat
BY DEF Clocks, Limit, Stale

(* A clock that is renewed keeps its bound.                                *)
LEMMA RenewKeepsType ==
  ASSUME TypeOK, NEW c \in Clocks, NEW good \in BOOLEAN
  PROVE  /\ Renew(c, good) \in [Clocks -> Nat]
         /\ \A d \in Clocks : Renew(c, good)[d] <= Stale(d)
<1> DEFINE value == IF good THEN 0 ELSE Stale(c)
<1>1. value \in Nat /\ value <= Stale(c)
  BY ClocksAre
<1>2. Renew(c, good) = [age EXCEPT ![c] = value]
  BY DEF Renew
<1> HIDE DEF value
<1>3. age \in [Clocks -> Nat] /\ \A d \in Clocks : age[d] <= Stale(d)
  BY DEF TypeOK
<1>4. QED
  BY <1>1, <1>2, <1>3

(* What the timer does to the clocks and to the request.                   *)
LEMMA RefreshKeepsType ==
  ASSUME TypeOK, Refresh
  PROVE  /\ age' \in [Clocks -> Nat]
         /\ \A c \in Clocks : age'[c] <= Stale(c)
         /\ query' \in {"none", "asked", "lost"}
<1>1. "verified" \in Clocks /\ "request" \in Clocks
  BY ClocksAre
<1>2. CASE age' = age
  BY <1>2 DEF TypeOK, Refresh, Outage
<1>3. CASE age' = Renew("verified", FALSE)
  BY <1>1, <1>3, RenewKeepsType DEF TypeOK, Refresh, Outage
<1>4. CASE age' = Renew("request", TRUE)
  BY <1>1, <1>4, RenewKeepsType DEF TypeOK, Refresh, Outage
<1>5. CASE age' = [Renew("verified", FALSE) EXCEPT !["request"] = 0]
  <2> DEFINE undone == Renew("verified", FALSE)
  <2>1. undone \in [Clocks -> Nat] /\ \A c \in Clocks : undone[c] <= Stale(c)
    BY <1>1, RenewKeepsType
  <2>2. age' = [undone EXCEPT !["request"] = 0]
    BY <1>5
  <2>3. 0 <= Stale("request")
    BY <1>1, ClocksAre
  <2> HIDE DEF undone
  <2>4. age' \in [Clocks -> Nat]
    BY <2>1, <2>2
  <2>5. \A c \in Clocks : age'[c] <= Stale(c)
    BY <2>1, <2>2, <2>3
  <2>6. QED
    BY <1>5, <2>4, <2>5 DEF TypeOK, Refresh, Outage
<1>6. QED
  BY <1>2, <1>3, <1>4, <1>5 DEF Refresh, Outage

LEMMA StepKeepsType ==
  ASSUME Inv, Step
  PROVE  /\ age' \in [Clocks -> Nat]
         /\ \A c \in Clocks : age'[c] <= Stale(c)
         /\ contact' \in BOOLEAN
         /\ query' \in {"none", "asked", "lost"}
         /\ ready' \in BOOLEAN
         /\ sincePoll' \in 0..PollPeriod
         /\ flight' \in {"none", "moving", "stopping"}
<1> USE DEF Inv
<1>0. /\ "wrench" \in Clocks /\ "reference" \in Clocks /\ "joints" \in Clocks
      /\ "verified" \in Clocks /\ "outage" \in Clocks
  BY ClocksAre
<1>1. CASE Poll
  BY <1>1, RefreshKeepsType DEF Poll, StopUnless, TypeOK
<1>2. CASE PollJog
  BY <1>2, RefreshKeepsType DEF PollJog, TypeOK
<1>3. CASE OnWrenchNotFinite
  BY <1>0, <1>3, RenewKeepsType DEF OnWrenchNotFinite, StopUnless, TypeOK
<1>4. CASE Answers
  BY <1>0, <1>4, RenewKeepsType DEF Answers, OnParameterResponse, StopUnless, TypeOK
<1>5. ASSUME NEW b \in BOOLEAN, OnWrench(b) \/ OnControllerState(b) \/ OnJointState(b)
      PROVE  /\ age' \in [Clocks -> Nat]
             /\ \A c \in Clocks : age'[c] <= Stale(c)
             /\ contact' \in BOOLEAN
             /\ query' \in {"none", "asked", "lost"}
             /\ ready' \in BOOLEAN
             /\ sincePoll' \in 0..PollPeriod
             /\ flight' \in {"none", "moving", "stopping"}
  BY <1>0, <1>5, RenewKeepsType
  DEF OnWrench, OnControllerState, OnJointState, StopUnless, TypeOK
<1>6. CASE Tick
  <2>1. age \in [Clocks -> Nat] /\ \A c \in Clocks : age[c] <= Stale(c)
    BY DEF TypeOK
  <2>2. age' = [c \in Clocks |-> IF age[c] < Stale(c) THEN age[c] + 1 ELSE age[c]]
    BY <1>6 DEF Tick
  <2>3. /\ age' \in [Clocks -> Nat]
        /\ \A c \in Clocks : age'[c] <= Stale(c)
    BY <2>1, <2>2, ClocksAre
  <2>4. QED
    BY <1>6, <2>3 DEF Tick, TypeOK
<1>7. CASE GoalEnds
  BY <1>7 DEF GoalEnds, TypeOK
<1>8. CASE ServiceGoes
  BY <1>0, <1>8, RenewKeepsType DEF ServiceGoes, TypeOK
<1>9. CASE ServiceReturns
  BY <1>9 DEF ServiceReturns, TypeOK
<1>10. QED
  BY <1>1, <1>2, <1>3, <1>4, <1>5, <1>6, <1>7, <1>8, <1>9 DEF Step

(* Only time makes sincePoll grow, only a poll takes it back, and a poll   *)
(* leaves nothing moving without evidence.                                 *)
LEMMA StepOfTime ==
  ASSUME Inv, Step
  PROVE  \/ sincePoll' \in {sincePoll, sincePoll + 1}
         \/ sincePoll' = 0 /\ (flight' = "moving" => Evident')
<1>1. CASE Poll \/ PollJog
  BY <1>1 DEF Poll, PollJog, StopUnless, MayJog
<1>2. CASE ~(Poll \/ PollJog)
  BY <1>2 DEF Step, OnWrenchNotFinite, Answers, OnParameterResponse, OnWrench,
       OnControllerState, OnJointState, Tick, GoalEnds, ServiceGoes, ServiceReturns
<1>3. QED
  BY <1>1, <1>2

LEMMA LapseStaysYoung ==
  ASSUME Inv, Next
  PROVE  exposed' \in 0..(PollPeriod + 1) /\ LapseIsYoung'
<1>1. /\ sincePoll \in Nat /\ sincePoll <= PollPeriod /\ exposed \in Nat
      /\ exposed <= sincePoll
  BY DEF Inv, TypeOK, LapseIsYoung
<1>2. sincePoll' \in Nat /\ sincePoll' <= PollPeriod
  BY StepKeepsType DEF Next
<1>3. exposed' \in Nat /\ exposed' <= sincePoll'
  <2>1. CASE flight' # "moving" \/ Evident'
    BY <1>2, <2>1 DEF Next, Watch
  <2>2. CASE ~(flight' # "moving" \/ Evident')
    <3>1. sincePoll' \in {sincePoll, sincePoll + 1}
      BY <2>2, StepOfTime DEF Next
    <3>2. exposed' = exposed \/ (exposed' = exposed + 1 /\ sincePoll' = sincePoll + 1)
      BY <2>2 DEF Next, Watch
    <3>3. QED
      BY <1>1, <3>1, <3>2
  <2>3. QED
    BY <2>1, <2>2
<1>4. QED
  BY <1>1, <1>2, <1>3 DEF LapseIsYoung

(* A wrench over the limits stops what it finds moving, and keeps the jogs *)
(* from starting.                                                          *)
LEMMA ContactStaysStopped ==
  ASSUME Inv, Step
  PROVE  ContactStops'
<1>1. ContactStops
  BY DEF Inv
<1>2. CASE PollJog
  BY <1>2 DEF PollJog, MayJog, Evident, WrenchSafe, ContactStops
<1>3. CASE Poll
  BY <1>1, <1>3 DEF Poll, StopUnless, ContactStops
<1>4. CASE \E b \in BOOLEAN : OnWrench(b)
  BY <1>4 DEF OnWrench, StopUnless, WrenchSafe, ContactStops
<1>5. CASE ~(PollJog \/ Poll \/ \E b \in BOOLEAN : OnWrench(b))
  BY <1>1, <1>5 DEF Step, OnWrenchNotFinite, Answers, OnParameterResponse,
       OnControllerState, OnJointState, StopUnless, Tick, GoalEnds, ServiceGoes,
       ServiceReturns, ContactStops
<1>6. QED
  BY <1>2, <1>3, <1>4, <1>5

(* The invariant holds throughout.                                         *)
LEMMA AlwaysInv == Spec => []Inv
<1>1. Init => Inv
  <2> SUFFICES ASSUME Init PROVE Inv
    OBVIOUS
  <2>1. age \in [Clocks -> Nat] /\ \A c \in Clocks : age[c] <= Stale(c)
    BY ClocksAre DEF Init
  <2>2. 0 \in 0..PollPeriod /\ 0 \in 0..(PollPeriod + 1)
    BY PeriodsAssumption DEF Periods
  <2>3. TypeOK
    BY <2>1, <2>2 DEF Init, TypeOK
  <2>4. LapseIsYoung /\ ContactStops
    BY DEF Init, LapseIsYoung, ContactStops
  <2>5. QED
    BY <2>3, <2>4 DEF Inv
<1>2. Inv /\ [Next]_vars => Inv'
  <2> SUFFICES ASSUME Inv, [Next]_vars PROVE Inv'
    OBVIOUS
  <2>1. CASE Next
    <3>1. Step
      BY <2>1 DEF Next
    <3>2. \A c \in Clocks : Stale(c)' = Stale(c)
      BY DEF Stale, Limit
    <3>3. TypeOK'
      BY <2>1, <3>1, StepKeepsType, LapseStaysYoung DEF TypeOK, Clocks, Limit, Stale
    <3>4. QED
      BY <2>1, <3>1, <3>3, LapseStaysYoung, ContactStaysStopped DEF Inv
  <2>2. CASE UNCHANGED vars
    BY <2>2 DEF vars, Inv, TypeOK, LapseIsYoung, ContactStops, Clocks, Limit, Stale
  <2>3. QED
    BY <2>1, <2>2
<1>3. QED
  BY <1>1, <1>2, PTL DEF Spec

(* Every variable keeps its type.                                          *)
THEOREM TypeCorrect == Spec => []TypeOK
<1>1. Inv => TypeOK
  BY DEF Inv
<1>2. QED
  BY <1>1, AlwaysInv, PTL

(* Whatever message, answer or service fails to come, no goal goes on for  *)
(* longer than one poll period after its evidence lapsed.                  *)
THEOREM MotionIsSupervisedHolds == Spec => []MotionIsSupervised
<1>1. Inv => MotionIsSupervised
  BY DEF Inv, TypeOK, LapseIsYoung, MotionIsSupervised
<1>2. QED
  BY <1>1, AlwaysInv, PTL

(* While a goal moves the last wrench was within the limits.               *)
THEOREM ContactStopsHolds == Spec => []ContactStops
<1>1. Inv => ContactStops
  BY DEF Inv
<1>2. QED
  BY <1>1, AlwaysInv, PTL

HIDE PeriodsAssumption DEF Periods

-----------------------------------------------------------------------------
(* The guard.  The two numbers are compared with the streaks of the log.   *)

(* From sample i on every sample was still and followed in time by the     *)
(* next, if there is a next.                                               *)
Streak(i) ==
  \A j \in i..Len(log) :
    /\ log[j].kind = "still"
    /\ j < Len(log) => log[j + 1].time <= log[j].time + MaxAge

Reviewed == (entered + 1)..Len(log)

(* In review _last_feedback_s is the time of the last sample, if there is  *)
(* one that can be used, and _stationary_since_s that of the first sample  *)
(* of the longest streak, if there is a streak.                            *)
NumbersTellTheLog ==
  inReview =>
    /\ last # Never => Len(log) \in Reviewed /\ last = log[Len(log)].time
    /\ since = Never => \A i \in Reviewed : ~Streak(i)
    /\ since # Never =>
         /\ \E i \in Reviewed : Streak(i) /\ log[i].time = since
         /\ \A i \in Reviewed : Streak(i) => since <= log[i].time

LEMMA InitReview == ReviewInit => ReviewTypeOK /\ NumbersTellTheLog
<1> SUFFICES ASSUME ReviewInit PROVE ReviewTypeOK /\ NumbersTellTheLog
  OBVIOUS
<1>1. ReviewTypeOK
  <2>1. <<>> \in Seq([time : 0..Horizon, kind : Kinds]) /\ Len(<<>>) = 0
    OBVIOUS
  <2>2. 0 \in 0..Horizon /\ 0 \in 0..0
    BY ParametersAssumption
  <2> QED BY <2>1, <2>2 DEF ReviewInit, ReviewTypeOK
<1>2. NumbersTellTheLog
  BY DEF ReviewInit, NumbersTellTheLog
<1> QED BY <1>1, <1>2

(* What observing a sample makes of the two numbers.                       *)
LEMMA ObserveTyped ==
  ASSUME ReviewTypeOK, NEW kind \in Kinds, Observe(kind)
  PROVE  /\ last' \in 0..now \cup {Never} /\ since' \in 0..now \cup {Never}
         /\ since' # Never => last' # Never /\ since' <= last'
BY ParametersAssumption DEF ReviewTypeOK, Observe, Reset, Never

LEMMA ReviewTyped == ReviewTypeOK /\ [ReviewNext]_reviewVars => ReviewTypeOK'
<1> SUFFICES ASSUME ReviewTypeOK, [ReviewNext]_reviewVars PROVE ReviewTypeOK'
  OBVIOUS
<1> USE DEF ReviewTypeOK
<1>1. ASSUME NEW kind \in Kinds, JointState(kind) PROVE ReviewTypeOK'
  <2>1. [time |-> now, kind |-> kind] \in [time : 0..Horizon, kind : Kinds]
    OBVIOUS
  <2>2. log' \in Seq([time : 0..Horizon, kind : Kinds]) /\ Len(log') = Len(log) + 1
    BY <1>1, <2>1 DEF JointState
  <2>3. UNCHANGED <<now, inReview, entered>> /\ Observe(kind)
    BY <1>1 DEF JointState
  <2>4. /\ last' \in 0..now \cup {Never} /\ since' \in 0..now \cup {Never}
        /\ since' # Never => last' # Never /\ since' <= last'
    BY <2>3, ObserveTyped
  <2>5. entered' \in 0..Len(log')
    BY <2>2, <2>3
  <2>6. now' \in 0..Horizon /\ inReview' \in BOOLEAN
    BY <2>3
  <2>7. 0..now' = 0..now /\ Never' = Never
    BY <2>3 DEF Never
  <2>8. last' \in 0..now' \cup {Never'} /\ since' \in 0..now' \cup {Never'}
    BY <2>4, <2>7
  <2>9. since' # Never' => last' # Never' /\ since' <= last'
    BY <2>4, <2>7
  <2> HIDE DEF ReviewTypeOK
  <2> QED BY <2>2, <2>5, <2>6, <2>8, <2>9 DEF ReviewTypeOK
<1>2. CASE EnterReview \/ Resume
  <2>1. UNCHANGED <<now, log>> /\ last' = Never' /\ since' = Never'
    BY <1>2 DEF EnterReview, Resume, Reset, Never
  <2>2. entered' \in {entered, Len(log)} /\ Len(log) \in Nat
    BY <1>2 DEF EnterReview, Resume
  <2>3. inReview' \in BOOLEAN
    BY <1>2 DEF EnterReview, Resume
  <2>4. entered' \in 0..Len(log')
    BY <2>1, <2>2
  <2> QED BY <2>1, <2>3, <2>4
<1>3. CASE ClockTicks
  BY <1>3, ParametersAssumption DEF ClockTicks, evidenceVars, Never
<1>4. CASE UNCHANGED reviewVars
  BY <1>4 DEF reviewVars, Never
<1> QED BY <1>1, <1>2, <1>3, <1>4 DEF ReviewNext

(* A sample prolongs the streaks, if it is still and in time, and begins   *)
(* one if it is still.                                                     *)
LEMMA SampleProlongs ==
  ASSUME ReviewTypeOK, NEW kind \in Kinds, JointState(kind),
         NEW new, new = Len(log) + 1
  PROVE  /\ Reviewed' = Reviewed \cup {new}
         /\ log'[new] = [time |-> now, kind |-> kind]
         /\ \A i \in Reviewed :
              /\ log'[i] = log[i]
              /\ Streak(i)' <=> /\ Streak(i) /\ kind = "still"
                                /\ now <= log[Len(log)].time + MaxAge
         /\ Streak(new)' <=> kind = "still"
<1> DEFINE n == Len(log)
<1>1. /\ n \in Nat /\ entered \in 0..n
      /\ Len(log') = n + 1 /\ entered' = entered
      /\ \A j \in 1..n : log'[j] = log[j]
      /\ log'[n + 1] = [time |-> now, kind |-> kind]
  BY DEF ReviewTypeOK, JointState
<1>2. Reviewed' = Reviewed \cup {n + 1}
  BY <1>1 DEF Reviewed
<1>3. ASSUME NEW i \in Reviewed
      PROVE  Streak(i)' <=> /\ Streak(i) /\ kind = "still"
                            /\ now <= log[n].time + MaxAge
  <2>1. i \in 1..n
    BY <1>1 DEF Reviewed
  <2>2. Streak(i)' <=>
          \A j \in i..(n + 1) :
            /\ log'[j].kind = "still"
            /\ j < n + 1 => log'[j + 1].time <= log'[j].time + MaxAge
    BY <1>1 DEF Streak
  <2>3. ASSUME Streak(i)'
        PROVE  Streak(i) /\ kind = "still" /\ now <= log[n].time + MaxAge
    <3>1. kind = "still"
      BY <1>1, <2>1, <2>2, <2>3
    <3>2. now <= log[n].time + MaxAge
      BY <1>1, <2>1, <2>2, <2>3
    <3>3. ASSUME NEW j \in i..n
          PROVE  /\ log[j].kind = "still"
                 /\ j < n => log[j + 1].time <= log[j].time + MaxAge
      <4>1. j \in i..(n + 1) /\ j \in 1..n /\ j < n + 1 /\ j + 1 \in 1..(n + 1)
        BY <1>1, <2>1
      <4>2. log'[j] = log[j] /\ (j < n => log'[j + 1] = log[j + 1])
        BY <1>1, <4>1
      <4> QED BY <2>2, <2>3, <4>1, <4>2
    <3> QED BY <3>1, <3>2, <3>3 DEF Streak
  <2>4. ASSUME Streak(i), kind = "still", now <= log[n].time + MaxAge
        PROVE  Streak(i)'
    <3>1. ASSUME NEW j \in i..(n + 1)
          PROVE  /\ log'[j].kind = "still"
                 /\ j < n + 1 => log'[j + 1].time <= log'[j].time + MaxAge
      <4>1. CASE j = n + 1
        BY <1>1, <2>4, <4>1
      <4>2. CASE j = n
        BY <1>1, <2>1, <2>4, <4>2 DEF Streak
      <4>3. CASE j < n
        <5>0. j \in 1..n /\ j + 1 \in 1..n
          BY <1>1, <2>1, <4>3
        <5>1. log'[j] = log[j] /\ log'[j + 1] = log[j + 1]
          BY <1>1, <5>0
        <5> QED BY <1>1, <2>1, <2>4, <4>3, <5>1 DEF Streak
      <4> QED BY <1>1, <2>1, <4>1, <4>2, <4>3
    <3> QED BY <2>2, <3>1
  <2> QED BY <2>3, <2>4
<1>4. Streak(new)' <=> kind = "still"
  <2>1. Streak(new)' <=>
          \A j \in new..(n + 1) :
            /\ log'[j].kind = "still"
            /\ j < n + 1 => log'[j + 1].time <= log'[j].time + MaxAge
    BY <1>1 DEF Streak
  <2>2. \A j \in new..(n + 1) : j = n + 1 /\ ~(j < n + 1)
    BY <1>1
  <2>3. n + 1 \in new..(n + 1)
    BY <1>1
  <2> QED BY <1>1, <2>1, <2>2, <2>3
<1>5. \A i \in Reviewed : log'[i] = log[i]
  BY <1>1 DEF Reviewed
<1> QED BY <1>1, <1>2, <1>3, <1>4, <1>5

LEMMA NumbersInductive ==
  ReviewTypeOK /\ NumbersTellTheLog /\ [ReviewNext]_reviewVars => NumbersTellTheLog'
<1> SUFFICES ASSUME ReviewTypeOK, NumbersTellTheLog, [ReviewNext]_reviewVars, inReview'
             PROVE  NumbersTellTheLog'
  BY DEF NumbersTellTheLog
<1>1. ASSUME NEW kind \in Kinds, JointState(kind) PROVE NumbersTellTheLog'
  <2> DEFINE n == Len(log)
  <2> SUFFICES ASSUME NEW new, new = n + 1 PROVE NumbersTellTheLog'
    OBVIOUS
  <2>0. inReview /\ Observe(kind) /\ Never' = Never /\ n' = new
    BY <1>1 DEF JointState, Never, ReviewTypeOK
  <2>1. /\ Reviewed' = Reviewed \cup {new}
        /\ log'[new] = [time |-> now, kind |-> kind]
        /\ \A i \in Reviewed :
             /\ log'[i] = log[i]
             /\ Streak(i)' <=> /\ Streak(i) /\ kind = "still"
                               /\ now <= log[n].time + MaxAge
        /\ Streak(new)' <=> kind = "still"
    BY <1>1, SampleProlongs
  <2>2. /\ now \in Nat /\ now # Never
        /\ last # Never => n \in Reviewed /\ last = log[n].time
        /\ since = Never => \A i \in Reviewed : ~Streak(i)
        /\ since # Never =>
             /\ last # Never /\ since \in Nat /\ since <= now
             /\ \E i \in Reviewed : Streak(i) /\ log[i].time = since
             /\ \A i \in Reviewed : Streak(i) => since <= log[i].time
    BY <2>0, ParametersAssumption DEF NumbersTellTheLog, ReviewTypeOK, Never
  <2>3. last' # Never => n' \in Reviewed' /\ last' = log'[n'].time
    BY <2>0, <2>1 DEF Observe, Reset
  <2>9. MaxAge \in Nat /\ (last # Never => last \in Nat)
    BY ParametersAssumption DEF ReviewTypeOK
  <2>4. CASE kind # "still"
    <3>1. since' = Never
      BY <2>0, <2>4 DEF Observe, Reset, Kinds
    <3>2. \A i \in Reviewed' : ~Streak(i)'
      <4>1. ASSUME NEW i \in Reviewed' PROVE ~Streak(i)'
        BY <2>1, <2>4, <4>1
      <4> QED BY <4>1
    <3> QED BY <2>0, <2>3, <3>1, <3>2 DEF NumbersTellTheLog
  <2>5. CASE kind = "still" /\ (last = Never \/ now > last + MaxAge \/ since = Never)
    <3>1. since' = now
      BY <2>0, <2>5 DEF Observe
    <3>2. ASSUME NEW i \in Reviewed PROVE ~Streak(i)'
      <4>1. CASE last = Never \/ since = Never
        BY <2>1, <2>2, <4>1
      <4>2. CASE last # Never /\ now > last + MaxAge
        BY <2>1, <2>2, <2>9, <4>2
      <4> QED BY <2>5, <4>1, <4>2
    <3>3. Streak(new)' /\ log'[new].time = since' /\ since' <= since'
      BY <2>1, <2>2, <2>5, <3>1
    <3>4. \E i \in Reviewed' : Streak(i)' /\ log'[i].time = since'
      BY <2>1, <3>3
    <3>5. \A i \in Reviewed' : Streak(i)' => since' <= log'[i].time
      BY <2>1, <3>2, <3>3
    <3>6. since' # Never'
      BY <2>0, <2>2, <3>1
    <3> QED BY <2>3, <3>4, <3>5, <3>6 DEF NumbersTellTheLog
  <2>6. CASE kind = "still" /\ ~(last = Never \/ now > last + MaxAge \/ since = Never)
    <3>1. since' = since
      BY <2>0, <2>6 DEF Observe
    <3>2. ASSUME NEW i \in Reviewed PROVE Streak(i)' <=> Streak(i)
      BY <2>1, <2>2, <2>6, <2>9
    <3>3. \E i \in Reviewed' : Streak(i)' /\ log'[i].time = since'
      BY <2>1, <2>2, <2>6, <3>1, <3>2
    <3>4. \A i \in Reviewed' : Streak(i)' => since' <= log'[i].time
      BY <2>1, <2>2, <2>6, <3>1, <3>2
    <3> QED BY <2>0, <2>3, <2>6, <3>1, <3>3, <3>4 DEF NumbersTellTheLog
  <2> QED BY <2>4, <2>5, <2>6
<1>2. CASE EnterReview
  <2>1. Reviewed' = {}
    BY <1>2 DEF EnterReview, Reviewed, ReviewTypeOK
  <2>2. last' = Never' /\ since' = Never'
    BY <1>2 DEF EnterReview, Reset, Never
  <2> QED BY <2>1, <2>2 DEF NumbersTellTheLog
<1>3. CASE Resume
  BY <1>3 DEF Resume
<1>4. CASE ClockTicks \/ UNCHANGED reviewVars
  BY <1>4 DEF ClockTicks, reviewVars, evidenceVars, NumbersTellTheLog, Never,
       Reviewed, Streak
<1> QED BY <1>1, <1>2, <1>3, <1>4 DEF ReviewNext

(* A decision is possible exactly when the feedback received since review  *)
(* was entered shows the arm still, without a gap, for long enough and     *)
(* until now.                                                              *)
THEOREM ReadyMeansSustainedHolds == ReviewSpec => []ReadyMeansSustained
<1>1. ReviewTypeOK /\ NumbersTellTheLog => ReadyMeansSustained
  <2> SUFFICES ASSUME ReviewTypeOK, NumbersTellTheLog, inReview
               PROVE  Ready <=> \E i \in Reviewed : StandsStillFrom(i)
    BY DEF ReadyMeansSustained, Reviewed, Ready
  <2>0. /\ Len(log) \in Nat /\ entered \in 0..Len(log) /\ now \in Nat
        /\ \A i \in 1..Len(log) : log[i].time \in Nat
    <3>1. ASSUME NEW i \in 1..Len(log) PROVE log[i].time \in Nat
      <4>1. log[i] \in [time : 0..Horizon, kind : Kinds]
        BY <3>1, ElementOfSeq DEF ReviewTypeOK
      <4> QED BY <4>1
    <3> QED BY <3>1 DEF ReviewTypeOK
  <2>1. ASSUME NEW i \in Reviewed
        PROVE  StandsStillFrom(i) <=>
                 /\ now >= log[i].time + MinStationary
                 /\ Streak(i)
                 /\ now <= log[Len(log)].time + MaxAge
    <3>1. i \in 1..Len(log) /\ Len(log) \in i..Len(log)
      BY <2>0 DEF Reviewed
    <3>2. \A j \in i..Len(log) : j < Len(log) <=> j # Len(log)
      BY <2>0, <3>1
    <3> QED BY <3>1, <3>2 DEF StandsStillFrom, Streak
  <2>2. ASSUME Ready PROVE \E i \in Reviewed : StandsStillFrom(i)
    BY <2>1, <2>2 DEF Ready, NumbersTellTheLog
  <2>3. ASSUME NEW i \in Reviewed, StandsStillFrom(i) PROVE Ready
    <3>1. /\ now >= log[i].time + MinStationary /\ Streak(i)
          /\ now <= log[Len(log)].time + MaxAge
      BY <2>1, <2>3
    <3>2. since # Never /\ last # Never /\ since <= log[i].time
          /\ last = log[Len(log)].time
      BY <3>1 DEF NumbersTellTheLog, ReviewTypeOK
    <3>3. log[i].time \in Nat /\ since \in Nat
      BY <2>0, <3>2 DEF Reviewed, ReviewTypeOK
    <3> QED BY <2>0, <3>1, <3>2, <3>3, ParametersAssumption DEF Ready
  <2> QED BY <2>2, <2>3
<1> QED BY <1>1, InitReview, ReviewTyped, NumbersInductive, PTL DEF ReviewSpec

-----------------------------------------------------------------------------
(* The node.                                                               *)

(* A node has the interlocks or the guard, never both, and leaves the      *)
(* state of the other as it was: what is proved of either holds of it.     *)
LEMMA NodeRunsBoth == NodeSpec => Spec /\ ReviewSpec
<1>1. NodeStarts => Init /\ ReviewInit
  BY DEF NodeStarts
<1>2. [NodeNext]_evidence => [Next]_vars
  BY DEF NodeNext, evidence, Interlocks, Guard
<1>3. [NodeNext]_evidence => [ReviewNext]_reviewVars
  BY DEF NodeNext, evidence, Interlocks, Guard
<1> QED BY <1>1, <1>2, <1>3, PTL DEF NodeSpec, Spec, ReviewSpec
=============================================================================

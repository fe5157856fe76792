-------------------------- MODULE CartesianSafety --------------------------
(***************************************************************************)
(* The interlocks of the cartesian mode of keyboard_teleop.py.  A jog may  *)
(* start, and its goal may go on, only on recent evidence: a wrist wrench  *)
(* within the limits, the controller's reference, and the controller's     *)
(* word that it interpolates from the desired state, which the node asks   *)
(* for over and over without waiting.  Every callback of the node runs to  *)
(* its end, and the poll timer fires once in a period.                     *)
(*                                                                         *)
(* Time is counted in ticks.  The age of missing evidence is the age of    *)
(* evidence that is too old: no check tells them apart.  TeleopGoals has   *)
(* the goal's life in detail; all of this is its SafetyStop.               *)
(***************************************************************************)
EXTENDS Naturals

CONSTANTS
  PollPeriod,       \* poll_period_s
  WrenchTimeout,    \* feedback_timeout_s of the wrench
  FeedbackTimeout,  \* cartesian_feedback_timeout_s
  VerifyTimeout,    \* 0.5 s, for the verification and for an answer
  RequestInterval   \* 0.1 s between requests

Periods == {PollPeriod, WrenchTimeout, FeedbackTimeout, VerifyTimeout, RequestInterval}
ASSUME PeriodsAssumption == Periods \subseteq Nat \ {0}
ASSUME RequestIntervalAssumption == RequestInterval <= VerifyTimeout

VARIABLES
  age,        \* of the evidence, of the last request and of an outage
  contact,    \* the last wrench was over the limits
  query,      \* the future of the request
  ready,      \* the parameter service is there
  sincePoll,
  flight,     \* the goal
  exposed     \* (history) for how long it has gone on without evidence

vars == <<age, contact, query, ready, sincePoll, flight, exposed>>

Limit ==
  [wrench |-> WrenchTimeout, reference |-> FeedbackTimeout,
   joints |-> FeedbackTimeout, verified |-> VerifyTimeout,
   request |-> VerifyTimeout, outage |-> PollPeriod]

Clocks == DOMAIN Limit
Stale(c) == Limit[c] + 1

TypeOK ==
  /\ age \in [Clocks -> Nat] /\ \A c \in Clocks : age[c] <= Stale(c)
  /\ contact \in BOOLEAN
  /\ query \in {"none", "asked", "lost"}
  /\ ready \in BOOLEAN
  /\ sincePoll \in 0..PollPeriod
  /\ flight \in {"none", "moving", "stopping"}
  /\ exposed \in 0..(PollPeriod + 1)

Init ==
  /\ age = [c \in Clocks |-> Stale(c)]
  /\ contact = FALSE
  /\ query = "none"
  /\ ready \in BOOLEAN
  /\ sincePoll = 0
  /\ flight = "none"
  /\ exposed = 0

-----------------------------------------------------------------------------
(* The checks.                                                             *)

WrenchSafe == ~contact /\ age["wrench"] <= WrenchTimeout
ReferenceSafe == age["reference"] <= FeedbackTimeout
InterpolationSafe == age["verified"] <= VerifyTimeout

Evident == WrenchSafe /\ ReferenceSafe /\ InterpolationSafe

(* A check that fails stops whatever is in flight.                         *)
StopUnless(safe) ==
  flight' = IF flight = "moving" /\ ~safe THEN "stopping" ELSE flight

Renew(c, good) == [age EXCEPT ![c] = IF good THEN 0 ELSE Stale(c)]

-----------------------------------------------------------------------------
(* The timer.                                                              *)

MutantOutage ==
  /\ ~ready
  /\ age' = Renew("verified", FALSE) /\ UNCHANGED query

(* A service that is gone takes the request with it.                       *)
Outage ==
  /\ ~ready
  /\ age' = Renew("verified", FALSE) /\ query' = "none"

(* _refresh_cartesian_interpolation: a service that is gone, an answer     *)
(* that is late and a request that cannot be made undo the verification.   *)
Refresh ==
  \/ Outage
  \/ /\ ready /\ query # "none"
     /\ age' = IF age["request"] > VerifyTimeout THEN Renew("verified", FALSE) ELSE age
     /\ UNCHANGED query
  \/ /\ ready /\ query = "none" /\ age["request"] < RequestInterval
     /\ UNCHANGED <<age, query>>
  \/ /\ ready /\ query = "none" /\ age["request"] >= RequestInterval
     /\ \/ age' = Renew("request", TRUE) /\ query' = "asked"
        \/ /\ age' = [Renew("verified", FALSE) EXCEPT !["request"] = 0]
           /\ UNCHANGED query

MutantPoll ==
  /\ sincePoll = PollPeriod
  /\ sincePoll' = 0
  /\ Refresh
  /\ UNCHANGED <<contact, ready>>
  /\ StopUnless(WrenchSafe' /\ InterpolationSafe')

Poll ==
  /\ sincePoll = PollPeriod
  /\ sincePoll' = 0
  /\ Refresh
  /\ UNCHANGED <<contact, ready>>
  /\ StopUnless(Evident')

(* _compute_cartesian_target wants recent joint feedback, too.  What the   *)
(* kinematics say of the path is left open: a jog that is rejected for it  *)
(* is a Poll.                                                              *)
MayJog == Evident /\ age["joints"] <= FeedbackTimeout

PollJog ==
  /\ sincePoll = PollPeriod /\ flight = "none"
  /\ sincePoll' = 0
  /\ Refresh
  /\ UNCHANGED <<contact, ready>>
  /\ MayJog'
  /\ flight' = "moving"

-----------------------------------------------------------------------------
(* The callbacks.                                                          *)

MutantOnWrench(over) ==
  /\ age' = Renew("wrench", TRUE)
  /\ contact' = over
  /\ UNCHANGED <<query, ready, sincePoll, flight>>

OnWrench(over) ==
  /\ age' = Renew("wrench", TRUE)
  /\ contact' = over
  /\ StopUnless(WrenchSafe')
  /\ UNCHANGED <<query, ready, sincePoll>>

OnWrenchNotFinite ==
  /\ age' = Renew("wrench", FALSE)
  /\ contact' = FALSE
  /\ StopUnless(FALSE)
  /\ UNCHANGED <<query, ready, sincePoll>>

(* A message that is incomplete or not finite undoes what was known; joint *)
(* feedback of a moving arm is of no use either.                           *)
OnControllerState(complete) ==
  /\ age' = Renew("reference", complete)
  /\ UNCHANGED <<contact, query, ready, sincePoll, flight>>

OnJointState(usable) ==
  /\ age' = Renew("joints", usable)
  /\ UNCHANGED <<contact, query, ready, sincePoll, flight>>

(* The answer counts from its arrival.                                     *)
OnParameterResponse(interpolates) ==
  /\ query = "asked"
  /\ query' = "none"
  /\ age' = Renew("verified", interpolates)
  /\ StopUnless(InterpolationSafe')
  /\ UNCHANGED <<contact, ready, sincePoll>>

-----------------------------------------------------------------------------
(* What happens around the node.                                           *)

Tick ==
  /\ sincePoll < PollPeriod
  /\ sincePoll' = sincePoll + 1
  /\ age' = [c \in Clocks |-> IF age[c] < Stale(c) THEN age[c] + 1 ELSE age[c]]
  /\ UNCHANGED <<contact, query, ready, flight>>

(* The goal succeeds or fails, or its cancellation is through.             *)
GoalEnds ==
  /\ flight # "none"
  /\ flight' = "none"
  /\ UNCHANGED <<age, contact, query, ready, sincePoll>>

(* The service may take the answer it owes with it.                        *)
ServiceGoes ==
  /\ ready
  /\ ready' = FALSE
  /\ query' \in {query, IF query = "none" THEN "none" ELSE "lost"}
  /\ age' = Renew("outage", TRUE)
  /\ UNCHANGED <<contact, sincePoll, flight>>

(* It is gone for longer than a poll period.                               *)
ServiceReturns ==
  /\ ~ready /\ age["outage"] > PollPeriod
  /\ ready' = TRUE
  /\ UNCHANGED <<age, contact, query, sincePoll, flight>>

Answers == \E interpolates \in BOOLEAN : OnParameterResponse(interpolates)

(* (history) A lapse ends with the evidence back, or with the motion.       *)
Watch ==
  exposed' = IF flight' # "moving" \/ Evident' THEN 0
             ELSE IF Evident \/ sincePoll' # sincePoll + 1 \/ exposed > PollPeriod
             THEN exposed ELSE exposed + 1

Step ==
  \/ Poll \/ PollJog \/ OnWrenchNotFinite \/ Answers
  \/ \E b \in BOOLEAN : OnWrench(b) \/ OnControllerState(b) \/ OnJointState(b)
  \/ Tick \/ GoalEnds \/ ServiceGoes \/ ServiceReturns

Next == Step /\ Watch

Spec == Init /\ [][Next]_vars

(* Time passes, the timer fires, and a service that stays answers.         *)
FairSpec ==
  Spec /\ WF_vars(Tick /\ Watch) /\ WF_vars((Poll \/ PollJog) /\ Watch)
       /\ WF_vars(Answers /\ Watch)

-----------------------------------------------------------------------------
(* Properties.                                                             *)

(* No goal goes on for longer than one poll period after its evidence has  *)
(* become too old, incomplete or unsafe: whichever message, answer or      *)
(* service failed to come, in whatever order.                              *)
MotionIsSupervised == exposed <= PollPeriod

(* A wrench over the limits does not even have to wait for the timer.      *)
ContactStops == flight = "moving" => ~contact

(* The node goes on asking the controller, so that jogs become possible    *)
(* again, whatever answers an outage of more than a poll has swallowed.    *)
AsksForEver == <>[]ready => []<>(age["request"] = 0)
=============================================================================

-------------------------- MODULE ReviewMotionGuard --------------------------
(***************************************************************************)
(* TeleopReviewMotionGuard (teleop_demo_collection.py), fed by             *)
(* _on_joint_state (keyboard_teleop.py): the evidence that the arm stands  *)
(* still which a review decision needs.  The guard keeps two numbers.      *)
(* Here they are checked against what they stand for, the whole log of the *)
(* feedback received.                                                      *)
(*                                                                         *)
(* Time is counted in ticks of the monotonic clock; the seven velocities   *)
(* are abstracted to whether any exceeds the speed limit.                  *)
(***************************************************************************)
EXTENDS Naturals, Sequences

CONSTANTS
  MaxAge,         \* max_feedback_age_s
  MinStationary,  \* min_stationary_s
  Horizon,        \* bound on time
  MaxSamples      \* bound on the feedback received

ASSUME ParametersAssumption ==
  /\ MaxAge \in Nat \ {0}
  /\ MinStationary \in Nat \ {0}
  /\ Horizon \in Nat
  /\ MaxSamples \in Nat

(* "unusable": a joint missing, no velocities, or a value not finite.      *)
Kinds == {"still", "moving", "unusable"}

VARIABLES
  now,        \* the monotonic clock
  inReview,   \* _review_mode
  last,       \* _last_feedback_s
  since,      \* _stationary_since_s
  log,        \* every sample received, in order
  entered     \* how many of them precede the current review

evidenceVars == <<last, since>>
reviewVars == <<now, inReview, last, since, log, entered>>

Never == Horizon + 1

ReviewTypeOK ==
  /\ now \in 0..Horizon
  /\ inReview \in BOOLEAN
  /\ last \in 0..now \cup {Never}
  /\ since \in 0..now \cup {Never}
  /\ since # Never => last # Never /\ since <= last
  /\ log \in Seq([time : 0..Horizon, kind : Kinds])
  /\ entered \in 0..Len(log)

ReviewInit ==
  /\ now = 0
  /\ inReview = FALSE
  /\ last = Never
  /\ since = Never
  /\ log = <<>>
  /\ entered = 0

Reset == last' = Never /\ since' = Never

MutantObserveIgnoresGaps(kind) ==
  IF kind = "unusable"
  THEN Reset
  ELSE /\ last' = now
       /\ since' = IF kind = "moving" THEN Never
                   ELSE IF since = Never THEN now
                   ELSE since

(* observe: motion ends the evidence, a gap in the feedback restarts it.   *)
Observe(kind) ==
  LET gap == last = Never \/ now > last + MaxAge
  IN  IF kind = "unusable"
      THEN Reset
      ELSE /\ last' = now
           /\ since' = IF kind = "moving" THEN Never
                       ELSE IF gap \/ since = Never THEN now
                       ELSE since

(* ready, as far as the guard itself decides it.                           *)
Ready ==
  /\ inReview
  /\ last # Never
  /\ since # Never
  /\ now <= last + MaxAge
  /\ now >= since + MinStationary

JointState(kind) ==
  /\ Len(log) < MaxSamples
  /\ Observe(kind)
  /\ log' = Append(log, [time |-> now, kind |-> kind])
  /\ UNCHANGED <<now, inReview, entered>>

EnterReview ==
  /\ ~inReview
  /\ inReview' = TRUE
  /\ Reset
  /\ entered' = Len(log)
  /\ UNCHANGED <<now, log>>

(* Leaving review needs the evidence, and discards it.                     *)
Resume ==
  /\ Ready
  /\ inReview' = FALSE
  /\ Reset
  /\ UNCHANGED <<now, log, entered>>

ClockTicks ==
  /\ now < Horizon
  /\ now' = now + 1
  /\ UNCHANGED <<inReview, evidenceVars, log, entered>>

ReviewNext ==
  \/ \E kind \in Kinds : JointState(kind)
  \/ EnterReview
  \/ Resume
  \/ ClockTicks

ReviewSpec == ReviewInit /\ [][ReviewNext]_reviewVars

-----------------------------------------------------------------------------
(* From sample i of this review on, every sample was still and the next    *)
(* came (or now is) no later than MaxAge after it; and sample i is old     *)
(* enough.                                                                 *)
StandsStillFrom(i) ==
  /\ now >= log[i].time + MinStationary
  /\ \A j \in i..Len(log) :
       LET next == IF j = Len(log) THEN now ELSE log[j + 1].time
       IN  log[j].kind = "still" /\ next <= log[j].time + MaxAge

(* A decision is possible exactly when the feedback received since review  *)
(* was entered shows the arm still, without a gap, for long enough and     *)
(* until now: nothing older, and nothing from before a gap, counts.        *)
ReadyMeansSustained ==
  Ready <=> inReview /\ \E i \in (entered + 1)..Len(log) : StandsStillFrom(i)
=============================================================================

--------------------------- MODULE LevelOfDetail ---------------------------
(***************************************************************************)
(* AdaptiveLODManager of utils/levelOfDetail.ts, as the animation loop of  *)
(* components/Graph3DInstanced.tsx drives it: every frame records its rate *)
(* and updates the tier.                                                   *)
(*                                                                         *)
(* Abstractions: a start time is the time since then, "off" when unset,    *)
(* counted no further than the delay it is compared with.  A frame rate is *)
(* one of Rates; the time between two frames is one of Gaps, whatever the  *)
(* rate.  The configuration does not change and enables adaption.          *)
(***************************************************************************)
EXTENDS Integers, Sequences, SequencesExt

CONSTANTS
  Rates,                          \* frame rates
  Gaps,                           \* units of time from one frame to the next
  Window,                         \* frames kept for the average
  DowngradeBelow, UpgradeAbove,   \* fpsDowngradeThreshold, fpsUpgradeThreshold
  DowngradeDelay, UpgradeDelay,   \* in units of time
  TransitionTime,                 \* transitionDurationMs, in units of time
  MaxOverrides                    \* calls of setTier and reset, a bound of the model

ASSUME LodAssumption ==
  /\ Rates \subseteq Nat /\ Gaps \subseteq Nat /\ Window \in Nat \ {0}
  /\ DowngradeBelow \in Nat /\ UpgradeAbove \in Nat /\ DowngradeBelow <= UpgradeAbove
  /\ DowngradeDelay \in Nat \ {0} /\ UpgradeDelay \in Nat \ {0}
  /\ TransitionTime \in Nat /\ MaxOverrides \in Nat

VARIABLES
  frames,      \* fpsHistory
  lod,         \* currentTier, targetTier, and since when: a transition, the
               \* average being below one threshold or above the other
  beat,        \* the parity of the frames: even a frame like the last is a step
  overrides    \* calls of setTier and reset so far

lodVars == <<frames, lod, beat, overrides>>

Tier     == 0..3      \* EMERGENCY, LOW, MEDIUM, HIGH
Off      == -1
Upto(n)  == Off..n
Start    == [tier |-> 3, target |-> 3, transit |-> Off, below |-> Off, above |-> Off]

LodTypeOK ==
  /\ frames \in BoundedSeq(Rates, Window)
  /\ lod \in [tier : Tier, target : Tier, transit : Upto(TransitionTime),
              below : Upto(DowngradeDelay), above : Upto(UpgradeDelay)]
  /\ lod.transit = Off <=> lod.tier = lod.target
  /\ beat \in BOOLEAN
  /\ overrides \in 0..MaxOverrides

LodInit ==
  /\ frames = <<>>
  /\ lod = Start
  /\ beat = FALSE
  /\ overrides = 0

-----------------------------------------------------------------------------
\* recordFrame: the last Window rates.
Recorded(rate) ==
  LET all == Append(frames, rate)
  IN  IF Len(all) > Window THEN Tail(all) ELSE all

\* getAverageFPS against the thresholds; 60 before the first frame.
Total(h) == FoldSeq(LAMBDA r, sum : r + sum, 0, h)
Low(h)   == IF h = <<>> THEN 60 < DowngradeBelow ELSE Total(h) < DowngradeBelow * Len(h)
High(h)  == IF h = <<>> THEN 60 > UpgradeAbove ELSE Total(h) > UpgradeAbove * Len(h)

\* A start time, some time later.
Later(since, gap, cap) ==
  IF since = Off THEN Off ELSE IF since + gap > cap THEN cap ELSE since + gap

\* A start time that update sets when the condition begins to hold and unsets
\* when it does not.
Held(condition, since, gap, cap) ==
  IF ~condition THEN Off ELSE IF since = Off THEN 0 ELSE Later(since, gap, cap)

\* startTransition to another tier, after which update unsets both times.
Stepped(tier) ==
  [lod EXCEPT !.target = tier, !.transit = 0, !.below = Off, !.above = Off]

\* Mutant: the lowest tier counts as reached one tier early.
CanLowerButOne == lod.tier > 1
CanLower       == lod.tier > 0

CanRaise == lod.tier < 3

\* update.
Updated(h, gap) ==
  LET below == Held(Low(h), lod.below, gap, DowngradeDelay)
      above == Held(High(h), lod.above, gap, UpgradeDelay)
      transit == Later(lod.transit, gap, TransitionTime)
  IN  IF lod.transit # Off
      THEN [lod EXCEPT !.tier = IF transit = TransitionTime THEN lod.target ELSE @,
                       !.transit = IF transit = TransitionTime THEN Off ELSE transit,
                       !.below = Later(@, gap, DowngradeDelay),
                       !.above = Later(@, gap, UpgradeDelay)]
      ELSE IF below = DowngradeDelay /\ CanLower THEN Stepped(lod.tier - 1)
      ELSE IF above = UpgradeDelay /\ CanRaise THEN Stepped(lod.tier + 1)
      ELSE [lod EXCEPT !.below = below, !.above = above]

\* One turn of the animation loop.  The rate of a frame of no length is not
\* recorded.
Frame(rate, gap) ==
  /\ frames' = Recorded(rate)
  /\ lod' = Updated(frames', gap)
  /\ beat' = ~beat
  /\ UNCHANGED overrides

EmptyFrame ==
  /\ lod' = Updated(frames, 0)
  /\ beat' = ~beat
  /\ UNCHANGED <<frames, overrides>>

\* setTier does nothing if the tier is the present one, even when on the way
\* to another.
\* Mutant: also if it is the present one.
OtherTierAlways(tier) == TRUE
OtherTier(tier)       == tier # lod.tier

SetTier(tier) ==
  /\ OtherTier(tier)
  /\ overrides < MaxOverrides /\ overrides' = overrides + 1
  /\ lod' = [lod EXCEPT !.target = tier, !.transit = 0]
  /\ UNCHANGED <<frames, beat>>

\* reset, or the new manager of a new scene.  It shares the bound of setTier:
\* a scene that is made anew for ever never keeps a tier.
ResetLod ==
  /\ frames' = <<>>
  /\ lod' = Start
  /\ overrides < MaxOverrides /\ overrides' = overrides + 1
  /\ UNCHANGED beat

LodNext ==
  \/ \E rate \in Rates, gap \in Gaps : Frame(rate, gap)
  \/ EmptyFrame
  \/ \E tier \in Tier : SetTier(tier)
  \/ ResetLod

\* requestAnimationFrame goes on, and time passes between frames.
LodFairness ==
  WF_lodVars(\E rate \in Rates, gap \in Gaps \ {0} : Frame(rate, gap))

LodSpec == LodInit /\ [][LodNext]_lodVars /\ LodFairness

-----------------------------------------------------------------------------
(* Properties.                                                             *)

\* A browser that stays slow ends in the lowest tier, one that stays fast in
\* the highest, whatever transitions, timers and calls of setTier were under
\* way, once the scene is no longer made anew.
EndsWithTheRate ==
  /\ <>[]Low(frames) => <>[](lod.tier = 0)
  /\ <>[]High(frames) => <>[](lod.tier = 3)
=============================================================================

--------------------------- MODULE MCPhases_proofs ---------------------------
(***************************************************************************)
(* Theorems about the phases together: a behaviour of MCPhases is one of   *)
(* each phase, so that what is proved of them holds of it.                 *)
(***************************************************************************)
EXTENDS MCPhases, Options_proofs, Phases_proofs

\* What a step of one phase is for the others.
LEMMA OneOfEach ==
    [Next]_vars => /\ [OptionsNext]_optionsVars /\ [PlanNext]_planVars /\ [WireNext]_wireVars
                   /\ [WaitingNext]_waitingVars /\ [RateNext]_rateVars
                   /\ [IterationsNext]_iterationsVars
<1> SUFFICES ASSUME [Next]_vars
             PROVE  /\ [OptionsNext]_optionsVars /\ [PlanNext]_planVars /\ [WireNext]_wireVars
                    /\ [WaitingNext]_waitingVars /\ [RateNext]_rateVars
                    /\ [IterationsNext]_iterationsVars
  OBVIOUS
<1>1. \/ UNCHANGED <<phase, optionsVars, planVars, wireVars, waitingVars, rateVars, iterationsVars>>
      \/ OptionsNext /\ UNCHANGED <<phase, planVars, wireVars, waitingVars, rateVars, iterationsVars>>
      \/ PlanNext /\ UNCHANGED <<phase, optionsVars, wireVars, waitingVars, rateVars, iterationsVars>>
      \/ WireNext /\ UNCHANGED <<phase, optionsVars, planVars, waitingVars, rateVars, iterationsVars>>
      \/ WaitingNext /\ UNCHANGED <<phase, optionsVars, planVars, wireVars, rateVars, iterationsVars>>
      \/ RateNext /\ UNCHANGED <<phase, optionsVars, planVars, wireVars, waitingVars, iterationsVars>>
      \/ IterationsNext /\ UNCHANGED <<phase, optionsVars, planVars, wireVars, waitingVars, rateVars>>
  BY DEF Next, vars
<1> QED
  BY <1>1

LEMMA StartsOfEach ==
    Init => OptionsInit /\ PlanInit /\ WireInit /\ WaitingInit /\ RateInit /\ IterationsInit
BY DEF Init

LEMMA EachPhase ==
    Spec => OptionsSpec /\ PlanSpec /\ WireSpec /\ WaitingSpec /\ RateSpec /\ IterationsSpec
BY OneOfEach, StartsOfEach, PTL
   DEF Spec, OptionsSpec, PlanSpec, WireSpec, WaitingSpec, RateSpec, IterationsSpec

\* Every variable of every phase keeps its type, for all values of the constants.
THEOREM TypeCorrect == Spec => []TypeOK
<1>1. OptionsTypeOK /\ PlanTypeOK /\ WireTypeOK /\ WaitingTypeOK /\ RateTypeOK /\ IterationsTypeOK
          => TypeOK
  BY DEF TypeOK
<1> QED
  BY <1>1, EachPhase, OptionsTypeCorrect, PlanTypeCorrect, WireTypeCorrect, WaitingTypeCorrect,
     RateTypeCorrect, IterationsTypeCorrect, PTL

\* All that the phases promise holds of a program that goes through them.
THEOREM PhasesCorrect ==
    Spec => []( /\ MeansWhatItSays /\ DaemonTakesNothing
                /\ OneRequestPerMask /\ PortsApart /\ EveryTestIsServed
                /\ OnlyWhatWasSent /\ EndsOnTime /\ WithinTheRate /\ OnTheSafeSide )
BY EachPhase, MeansWhatItSaysCorrect, DaemonTakesNothingCorrect, OneRequestPerMaskCorrect,
   PortsApartCorrect, EveryTestIsServedCorrect, OnlyWhatWasSentCorrect, EndsOnTimeCorrect,
   WithinTheRateCorrect, SafeSideCorrect, PTL
=============================================================================

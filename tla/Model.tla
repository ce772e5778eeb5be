------------------------------- MODULE Model -------------------------------
(***************************************************************************)
(* Package model: the status values the components share and the legal     *)
(* moves of a clock.  (src/internal/model/model.go)                        *)
(***************************************************************************)

ClockStatus == {"collecting", "analyzing", "review", "confirmed", "sealed"}

\* clockTransitions, as a relation instead of a map of lists.
ClockTransitions ==
  { <<"collecting", "analyzing">>, <<"collecting", "sealed">>,
    <<"analyzing", "review">>, <<"analyzing", "confirmed">>, <<"analyzing", "sealed">>,
    <<"review", "confirmed">>, <<"review", "sealed">>,
    <<"confirmed", "sealed">> }

CanTransition(from, to) == <<from, to>> \in ClockTransitions

LinkStatus == {"healthy", "suspect", "isolated"}

JumpStatus == {"open", "confirmed"}

SnapshotStatus == {"draft", "published", "superseded"}
=============================================================================

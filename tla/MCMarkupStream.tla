---------------------------- MODULE MCMarkupStream ----------------------------
(* Text in which more styles start than are kept, and a window that changes  *)
(* its size while text is on its way to it.                                  *)
EXTENDS Naturals

VARIABLES presenter, ready, shown, given, used

Tick == "tick"
Markup == INSTANCE MarkupStream
            WITH Keys <- {1}, Chunks <- {<<Tick>>, <<"x">>, <<Tick, Tick>>},
                 MaxPrefix <- 4, MaxInline <- 3, MaxFence <- 8, MaxLabel <- 1, MaxRuns <- 1,
                 MaxFrame <- 8, MaxText <- 9, MaxOther <- 0, MaxCuts <- 1

Spec == Markup!Spec

DegradedTextIsCopyable == Markup!DegradedTextIsCopyable
BoundaryIsFresh == Markup!BoundaryIsFresh
=============================================================================

-------------------------------- MODULE MCEdges --------------------------------
(* What lies at the edges of a session: the file that its journal writes,     *)
(* the surface that the model is shown, with the tool results that are        *)
(* shortened on it, the text that is made of an answer, and the screen.       *)
(* They share no state here, and a behaviour is about the one that its first  *)
(* state names.                                                               *)
EXTENDS SessionJournal

VARIABLES part
VARIABLES term, screen, write, text, view, loop, said, typed, used
VARIABLES presenter, ready, shown, given, spent
VARIABLES row, nodes, tokens, step, pending, header, anchor, generation, bracket, claim, candidate
VARIABLES results, journal, flushed, surface, pass, latched, altered, broken

\* Keys and texts, and the selector of an approval.
Typing == INSTANCE TerminalSurface
            WITH Columns <- 3, Heights <- {4, 5}, MinDetail <- 5, FullDock <- 3, SmallDock <- 2,
                 Chunks <- {<<1, 0>>, <<1, 2, 1>>}, Fixed <- 2, Docs <- {0, 3},
                 MaxTexts <- 2, MaxKeys <- 2, MaxAsks <- 0, MaxFaults <- 1
Asking == INSTANCE TerminalSurface
            WITH Columns <- 3, Heights <- {4, 5}, MinDetail <- 5, FullDock <- 3, SmallDock <- 2,
                 Chunks <- {<<1, 0>>, <<1, 2, 1>>}, Fixed <- 2, Docs <- {0, 3},
                 MaxTexts <- 1, MaxKeys <- 1, MaxAsks <- 1, MaxFaults <- 1
\* One answer in many chunks, and two streams between which other things come.
Tick == "tick"
Markup == INSTANCE MarkupStream
            WITH Keys <- {1},
                 Chunks <- {<<Tick>>, <<Tick, Tick>>, <<"x", Tick>>, <<"+", "nl">>, <<"#", " ">>,
                            <<Tick, Tick, Tick, "d", "nl">>},
                 MaxPrefix <- 4, MaxInline <- 3, MaxFence <- 10, MaxLabel <- 1, MaxRuns <- 2,
                 MaxFrame <- 9, MaxText <- 11, MaxOther <- 0, MaxCuts <- 0, used <- spent
Frames == INSTANCE MarkupStream
            WITH Keys <- {1, 2}, Chunks <- {<<Tick>>, <<"x", "nl">>, <<Tick, Tick, Tick>>},
                 MaxPrefix <- 4, MaxInline <- 3, MaxFence <- 8, MaxLabel <- 1, MaxRuns <- 2,
                 MaxFrame <- 5, MaxText <- 5, MaxOther <- 1, MaxCuts <- 1, used <- spent

Surface == INSTANCE SessionSurface
             WITH MaxRows <- 5, MaxPrice <- 1, MaxHeaders <- 1, MaxUsage <- 4, MaxShadowed <- 2

\* Texts at the threshold and above it, in one block and in several, with a border
\* of the middle inside of a block and at its end, and a block that is all middle.
Letters(chars) == [text |-> TRUE, chars |-> chars]
Picture == [text |-> FALSE, chars |-> <<>>]
Answered ==
  {<<Letters(<<"a", "b", "c", "d">>)>>,
   <<Letters(<<"a">>), Letters(<<>>), Letters(<<"b", "c", "d", "e">>)>>,
   <<Letters(<<"a", "b">>), Letters(<<"c", "d">>), Picture, Letters(<<"e", "f">>)>>,
   <<Picture, Letters(<<>>), Letters(<<"a", "b", "c", "d", "e">>), Letters(<<"f">>)>>}
Pruner == INSTANCE ToolResultPruner
            WITH Contents <- Answered, Threshold <- 4, HeadPoints <- 1, TailPoints <- 1,
                 Marker <- <<"~", "~">>, MaxResults <- 2, MaxPasses <- 2, MaxAlterations <- 1,
                 MaxCrashes <- 1, crashes <- broken

screenVars == <<term, screen, write, text, view, loop, said, typed, used>>
markupVars == <<presenter, ready, shown, given, spent>>
surfaceVars == <<row, nodes, tokens, step, pending, header, anchor, generation, bracket, claim,
                 candidate>>
pruneVars == <<results, journal, flushed, surface, pass, latched, altered, broken>>
edgeVars == <<part, vars, screenVars, markupVars, surfaceVars, pruneVars>>

EdgesInit ==
  /\ part \in {"journal", "typing", "asking", "markup", "frames", "surface", "prune"}
  /\ Init /\ Typing!Init /\ Surface!Init /\ Pruner!PruneInit
  /\ part \notin {"typing", "asking"} => loop.last = 4
  /\ IF part = "frames" THEN Frames!Init ELSE Markup!Init

Context == UNCHANGED <<surfaceVars, pruneVars>>
Journals == part = "journal" /\ Context /\ UNCHANGED <<part, screenVars, markupVars>>
Shows == Context /\ UNCHANGED <<part, vars, markupVars>>
Presents == Context /\ UNCHANGED <<part, vars, screenVars>>
Others == UNCHANGED <<part, vars, screenVars, markupVars>>

EdgesNext ==
  \/ Journals /\ Next
  \/ part = "typing" /\ Typing!Next /\ Shows
  \/ part = "asking" /\ Asking!Next /\ Shows
  \/ part = "markup" /\ Markup!Next /\ Presents
  \/ part = "frames" /\ Frames!Next /\ Presents
  \/ part = "surface" /\ Surface!Next /\ Others /\ UNCHANGED pruneVars
  \/ part = "prune" /\ Pruner!PruneNext /\ Others /\ UNCHANGED surfaceVars

\* The fairness of the journal, of the steps of this composition.
EdgesSpec ==
  /\ EdgesInit /\ [][EdgesNext]_edgeVars
  /\ WF_edgeVars(Journals /\ CreateFile) /\ WF_edgeVars(Journals /\ ThreadStep)
  /\ WF_edgeVars(Journals /\ CallStep) /\ WF_edgeVars(Journals /\ Materialized)
  /\ WF_edgeVars(Journals /\ OwnerEnds)

SurfaceIsSound == Surface!SurfaceIsSound /\ Pruner!PruneKeepsMeaning

\* What is on the screen is true, and no text on its way there is lost.
ScreenTellsTruth ==
  /\ Typing!ScreenTellsTruth
  /\ IF part = "frames" THEN Frames!TextIsWhole ELSE Markup!TextIsWhole
=============================================================================

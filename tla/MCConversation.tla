--------------------------- MODULE MCConversation ---------------------------
(* Values for the constants of Conversation: programs and results.         *)
EXTENDS Conversation

Uri == [kind |-> "uri", text |-> "builtin:slm/general"]
Grammar == [kind |-> "grammar", text |-> "#ABNF"]
NoText == [kind |-> "uri", text |-> ""]
Turn(adds, source) == [adds |-> adds, source |-> source]

NoEnvironment == NoHeaders
NoChoice == [p \in {} |-> 0]

Default ==
  [mock |-> TRUE, scheme |-> "ws", configured |-> FALSE, chosen |-> NoChoice,
   reads |-> FALSE, env |-> NoEnvironment, replaceEmpty |-> FALSE,
   turns |-> <<Turn(<<Uri>>, 1)>>, files |-> <<0>>, cancels |-> FALSE,
   rejects |-> FALSE]

Configured(chosen) == [Default EXCEPT !.configured = TRUE, !.chosen = chosen]
Reads(chosen, env, replaceEmpty) ==
  [Configured(chosen) EXCEPT !.reads = TRUE, !.env = env,
                             !.replaceEmpty = replaceEmpty]

(* Each parameter alone, and those that depend on one another.             *)
Some(p) ==
  CASE p \in Numbers -> 3
    [] p \in Switches -> TRUE
    [] p \in Texts -> <<"some", Space, "text">>
Single == {Configured(p :> Some(p)) : p \in Parameters}

Timeouts ==
  {Configured([noInputTimeoutEnabled |-> a, noInputTimeoutMilliseconds |-> 5,
               recognitionTimeoutEnabled |-> b, recognitionTimeoutSeconds |-> 7,
               maxSentences |-> 0]) : a, b \in BOOLEAN}
Levels ==
  {Configured([endpointerLevelMode |-> mode, endpointerAutoLevelLen |-> 4,
               endpointerLevelThreshold |-> 6]) : mode \in 0 .. 3}
Unreadable ==
  {Configured(p :> text @@ [inferAgeEnabled |-> TRUE, continuousMode |-> TRUE,
                            recognitionTimeoutEnabled |-> TRUE]) :
     p \in Texts, text \in {<<Illegal>>, <<"a", Illegal, "b">>, <<Space, "ASR">>}}
Spaced ==
  {Configured([accountTag |-> text, mediaType |-> <<"a">>]) :
     text \in {<<Space>>, <<Space, Space, "a", Space>>, <<"ASR", Space>>}}

Environment ==
  "MAX_SENTENCES" :> Value(2, FALSE, <<"2">>) @@
  "HEAD_MARGIN_MILLISECONDS" :> Value(0, FALSE, <<"none">>) @@
  "INFER_AGE_ENABLED" :> Value(0, TRUE, <<"True">>) @@
  "INFER_GENDER_ENABLED" :> Value(0, FALSE, <<"1">>) @@
  "START_INPUT_TIMERS" :> Value(0, TRUE, <<"true">>) @@
  "MEDIA_TYPE" :> Value(0, FALSE, <<"audio/raw">>)
FromEnvironment ==
  {Reads([headMarginMilliseconds |-> 8, tailMarginMilliseconds |-> 9,
          inferEmotionEnabled |-> TRUE, accountTag |-> <<"tag">>],
         Environment, replace) : replace \in BOOLEAN}

(* Each variable alone, but for those that are misread.                    *)
SingleVariable ==
  {Reads(NoChoice, Documented[p] :> Value(3, TRUE, <<"some", Space, "text">>), FALSE) :
     p \in Parameters \ Misnamed}

(* Two recognitions, with a file each or one file for both, which then is  *)
(* at its end; the third file has more blocks than the mock counts.        *)
MockFiles == <<1, 2, 5>>
MockTurns ==
  {[Default EXCEPT !.turns = <<Turn(<<Uri>>, i), Turn(<<Grammar>>, j)>>,
                   !.files = MockFiles, !.cancels = c] :
     i \in 1 .. 3, j \in 1 .. 3, c \in BOOLEAN}
ShortFiles ==
  {[Default EXCEPT !.turns = <<Turn(<<Uri>>, i), Turn(<<Grammar>>, j)>>,
                   !.files = <<1, 4>>] : i \in 1 .. 2, j \in 1 .. 2}

(* A third recognition, with the files of the others and one of its own.   *)
ThreeTurns ==
  {[Default EXCEPT !.turns = <<Turn(<<Uri>>, 1), Turn(<<Grammar>>, 2), Turn(<<Uri>>, i)>>,
                   !.files = <<4, 1, 3>>] : i \in 1 .. 3}

(* A configuration, with recognitions that follow and may be canceled.     *)
ConfiguredTurns ==
  {[p EXCEPT !.configured = TRUE, !.chosen = [mediaType |-> <<"audio/wav">>]] :
     p \in {q \in MockTurns : q.turns[1].source = 1} \cup ThreeTurns}

(* Programs that are refused by a builder or by recognize().               *)
Mistaken ==
  {[Default EXCEPT !.scheme = "http"], [Default EXCEPT !.scheme = "none"],
   [Default EXCEPT !.turns = <<Turn(<<Uri, Grammar>>, 1)>>],
   [Default EXCEPT !.turns = <<Turn(<<Uri>>, 1), Turn(<<>>, 1)>>],
   [Default EXCEPT !.turns = <<Turn(<<>>, 1)>>],
   [Default EXCEPT !.turns = <<Turn(<<NoText>>, 1)>>],
   [Default EXCEPT !.turns = <<Turn(<<NoText, Uri>>, 1), Turn(<<Uri, NoText>>, 1)>>],
   [Configured(NoChoice) EXCEPT !.turns = <<Turn(<<>>, 1)>>]}

OnServer(cancels, rejects) ==
  [Default EXCEPT !.mock = FALSE, !.configured = TRUE,
                  !.turns = <<Turn(<<Uri>>, 1), Turn(<<Uri>>, 1)>>,
                  !.files = <<1>>, !.cancels = cancels, !.rejects = rejects]
Servers == {OnServer(TRUE, FALSE), OnServer(FALSE, TRUE)}

AllPrograms ==
  Single \cup SingleVariable \cup Timeouts \cup Levels \cup Unreadable \cup Spaced \cup FromEnvironment
  \cup ConfiguredTurns \cup MockTurns \cup ShortFiles \cup ThreeTurns \cup Mistaken \cup Servers

Means(form, status, final, last) ==
  [form |-> form, status |-> status, final |-> final, last |-> last]
AllMeanings ==
  {Means("status", "NO_SPEECH", TRUE, TRUE),
   Means("plain", "RECOGNIZED", TRUE, TRUE),
   Means("segment", "RECOGNIZED", TRUE, FALSE),
   Means("segment", "PROCESSING", FALSE, FALSE),
   Means("segment", "NO_MATCH", TRUE, TRUE)}
=============================================================================

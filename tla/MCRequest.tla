------------------------------ MODULE MCRequest ------------------------------
(* Instances of ModelRequest: long conversations with short streams, and    *)
(* short conversations with the answers of every style of provider.         *)
EXTENDS RequestInv

Config(id, version, max, policy, compacts) ==
    [id |-> id, version |-> version, max |-> max, summary |-> 1,
     policy |-> policy, compacts |-> compacts]

Style(api, indexed, ids, sendsAdded, deltas, arguments, finished, output) ==
    [api |-> api, indexed |-> indexed, ids |-> ids, added |-> sendsAdded,
     deltas |-> deltas, arguments |-> arguments, done |-> finished,
     output |-> output]

Provides(s, answers) == {[style |-> s, answer |-> a] : a \in answers}

Both == {"text", "call"}
Chat        == Style("chat", TRUE, TRUE, FALSE, TRUE, FALSE, {}, "absent")
Full        == Style("responses", TRUE, TRUE, TRUE, TRUE, TRUE, Both, "empty")
ById        == Style("responses", FALSE, TRUE, TRUE, FALSE, TRUE, Both, "whole")
ByArguments == Style("responses", TRUE, FALSE, TRUE, FALSE, TRUE, {}, "absent")
Indexed     == Style("responses", TRUE, FALSE, FALSE, FALSE, FALSE, Both, "absent")
Anonymous   == Style("responses", FALSE, FALSE, FALSE, FALSE, FALSE, Both, "empty")
Snapshot    == Style("responses", FALSE, FALSE, FALSE, FALSE, FALSE, {}, "whole")
Nameless    == Style("responses", FALSE, FALSE, TRUE, FALSE, FALSE, Both, "absent")
Retracting  == Style("responses", TRUE, TRUE, TRUE, TRUE, FALSE, {}, "empty")

Mixed == {<<"text", "call">>, <<"call", "call">>, <<"text", "call", "call">>, <<>>}

Windows(configs, limit, answers) ==
    [messages |-> limit, sizes |-> {1, 3}, summaries |-> {1, 2}, retries |-> 0,
     configs |-> configs,
     providers |-> Provides(Snapshot, answers)]

Streaming ==
    [messages |-> 1, sizes |-> {1}, summaries |-> {1}, retries |-> 1,
     configs |-> {Config(1, 1, 9, "elide", TRUE), Config(2, 1, 8, "elide", FALSE)},
     providers |-> UNION {Provides(s, Mixed) :
         s \in {Chat, Full, ById, ByArguments, Indexed, Anonymous, Snapshot, Nameless,
               Retracting}}]

MCSettings ==
    { Windows({Config(1, 1, 6, "elide", TRUE), Config(2, 1, 4, "elide", TRUE),
               Config(3, 2, 8, "drop", TRUE)}, 4, {<<"text">>, <<"call">>}),
      Windows({Config(1, 1, 3, "drop", TRUE), Config(2, 1, 2, "elide", TRUE),
               Config(3, 1, 1, "elide", TRUE), Config(4, 1, 4, "fail", FALSE)},
              4, {<<"text">>, <<"call", "call">>}),
      Streaming }
=============================================================================

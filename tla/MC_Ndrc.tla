------------------------------ MODULE MC_Ndrc -------------------------------
(* Two runs over versions of a game.                                       *)
EXTENDS Ndrc, TLC

Plain == [name |-> "plain", xmessages |-> FALSE, repeats |-> TRUE]
WithX == [name |-> "withx", xmessages |-> TRUE, repeats |-> TRUE]
Tiny == [name |-> "tiny", xmessages |-> TRUE, repeats |-> FALSE]
MCGames == {Plain, WithX, Tiny}

Cmd(mode, target, flags) == [mode |-> mode, target |-> target, flags |-> flags]

MCCommands ==
  { Cmd("to-json", "other", {}),
    Cmd("from-json", "other", {}),
    Cmd("from-json", "NEXTDAAD", {"-srcmap"}),
    Cmd("from-json", "HTML", {"-X"}),
    Cmd("join", "HTML", {}),
    Cmd("join", "HTML", {"-X"}),
    Cmd("join", "other", {"--json", "-srcmap"}),
    Cmd("join", "other", {"--tok"}),
    Cmd("join", "other", {"--tok", "-no-object-tokens"}),
    Cmd("join", "other", {"--tok", "-X"}),
    Cmd("join", "other", {"-no-object-tokens"}),
    Cmd("join", "other", {"-X", "-srcmap"}),
    Cmd("join", "other", {"-np", "-srcmap"}),
    Cmd("join", "NEXTDAAD", {"-nxtext"}),
    Cmd("join", "NEXTDAAD", {"-nxtext", "-X"}),
    Cmd("join", "NEXTDAAD", {"-auto-tokens"}) }
=============================================================================

-------------------------- MODULE MCCodexAppServer --------------------------
(* An instance of CodexAppServer for TLC: a turn that says one thing.        *)
EXTENDS CodexAppServer

MCTranscript == {<<"words">>}
=============================================================================

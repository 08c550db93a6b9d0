-------------------------- MODULE MCCommandHistory --------------------------
(***************************************************************************)
(* Values for CommandHistory: two devices, two crontabs, and commands of   *)
(* every kind under names that can be told apart.                          *)
(***************************************************************************)
EXTENDS CommandHistory

MCText == {"test", "list", "turn", "last?", "cancel"}
MCPeer == {"localhost"}
MCDevice == {"wifi", "svr"}
MCCron == {"crontab a", "crontab b"}

MCLines ==
  [kind : {"plain"}, text : {"list"}]
  \cup [kind : {"variant"}, text : {"turn"}, device : MCDevice]
  \cup [kind : {"last", "pole"}, text : {"last?"}]
  \cup [kind : {"lastn"}, text : {"last?"}, n : 0 .. 3]
  \cup [kind : {"cancel"}, text : {"cancel"}]
=============================================================================

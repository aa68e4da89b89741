---------------------------- MODULE MCFolderMove ----------------------------
(* FolderMove on a small instance: FolderMove.cfg. *)
EXTENDS FolderMove, TLC

MCOwner == ("work" :> "w") @@ ("home" :> "h") @@ ("work2" :> "w")
MCItems == <<"jar", "storage", "db">>
=============================================================================

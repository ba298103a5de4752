---------------------------- MODULE MCPutSurface ----------------------------
(***************************************************************************)
(* PutSurface with frames and single fields, and small windows.            *)
(***************************************************************************)
EXTENDS PutSurface

Frames   == {{"top", "bottom"}}
Singles  == {{"top"}, {"bottom"}}
AllPuts  == Frames \cup Singles
=============================================================================

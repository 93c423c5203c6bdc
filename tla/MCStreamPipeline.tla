-------------------------- MODULE MCStreamPipeline --------------------------
(***************************************************************************)
(* A public record, a private one, and one of each kind without references.*)
(***************************************************************************)
EXTENDS StreamPipeline, TLC

CONSTANTS r1, r2, r3, r4

MCTypeOfRecord == r1 :> "pub" @@ r2 :> "priv" @@ r3 :> "pub" @@ r4 :> "priv"
MCStampOfRecord == r1 :> 1 @@ r2 :> 1 @@ r3 :> 1 @@ r4 :> 1
=============================================================================

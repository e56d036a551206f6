-------------------------- MODULE MCRenderHandoff --------------------------
(***************************************************************************)
(* Instances of RenderHandoff for TLC.  Two contexts are enough for one in *)
(* the slot and one in the hands of rend_start_render; a third lets a      *)
(* frame be started while another is still being recycled.                 *)
(***************************************************************************)
EXTENDS RenderHandoff, TLC

ContextSymmetry == Permutations(Ctx)
=============================================================================

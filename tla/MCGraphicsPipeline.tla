------------------------- MODULE MCGraphicsPipeline -------------------------
(* The pipeline with the code's window of three frames and room for two    *)
(* more than the window on the wire.                                       *)
EXTENDS GraphicsPipeline
=============================================================================

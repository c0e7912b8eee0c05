--------------------------- MODULE MCReceivePath ----------------------------
(* Small instance of ReceivePath: a header of two bytes, read in chunks of *)
(* three, with messages whose bodies are empty, shorter and longer than a  *)
(* chunk.                                                                  *)
EXTENDS ReceivePath

ThreeMessages == <<1, 0, 4>>
=============================================================================

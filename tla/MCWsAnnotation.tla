--------------------------- MODULE MCWsAnnotation ---------------------------
(***************************************************************************)
(* WsAnnotation on small instances.  MCWsAnnotation.cfg: two connections,  *)
(* one of them sending messages, and the request.  The violation runs use  *)
(* the smallest instance that shows the disagreement.                      *)
(***************************************************************************)
EXTENDS WsAnnotation
=============================================================================

---------------------------- MODULE MCSafeWriter ----------------------------
(* Two projects to export, one at a time; two moves may fail.                *)
EXTENDS SafeWriter
=============================================================================
